SPECIFICATION NetSpec
CONSTANTS
  Servers = {s1}
  Names = {alice}
  Passwords = {p1}
  Amounts = {1}
  UINT64_MAX = 3
  AccountSize = 1
  SealHeader = 1
  SealModulus = 64
  HeapMaxSize = 9
  TornWrites = FALSE
  FlushFails = FALSE
  None = None
  Undefined = Undefined
  Clients = {c1}
  Opcodes = {0, 1, 2}
  IntMod = 4
  Noise = {0, 3}
INVARIANT OnlyMenuMovesMoney
