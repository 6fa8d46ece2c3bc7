SPECIFICATION Spec
CONSTANTS
  Servers = {s1}
  Names = {alice, bob}
  Passwords = {p1, p2}
  Amounts = {1, 2, 3}
  UINT64_MAX = 3
  AccountSize = 2
  SealHeader = 3
  SealModulus = 64
  HeapMaxSize = 24
  TornWrites = FALSE
  FlushFails = FALSE
  None = None
  Undefined = Undefined
PROPERTY RefusedLoginStays
