SPECIFICATION NetSpec
CONSTANTS
  Servers = {s1}
  Names = {alice}
  Passwords = {p1, p2}
  Amounts = {1, 2}
  UINT64_MAX = 3
  AccountSize = 1
  SealHeader = 1
  SealModulus = 64
  HeapMaxSize = 9
  TornWrites = FALSE
  FlushFails = FALSE
  None = None
  Undefined = Undefined
  Clients = {c1}
  Opcodes = {1, 2, 3, 4}
  IntMod = 4
  Noise = {0, 3}
INVARIANT TooBigMeansRefused
