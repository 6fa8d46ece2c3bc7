SPECIFICATION Spec
CONSTANTS
  Servers = {s1, s2}
  Names = {alice, bob}
  Passwords = {p1}
  Amounts = {1}
  UINT64_MAX = 3
  AccountSize = 2
  SealHeader = 3
  SealModulus = 64
  HeapMaxSize = 18
  TornWrites = FALSE
  FlushFails = FALSE
  None = None
  Undefined = Undefined
PROPERTY AccountsSurvive
