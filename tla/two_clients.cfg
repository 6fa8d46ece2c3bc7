SPECIFICATION FairNetSpec
CONSTANTS
  Servers = {s1}
  Names = {alice}
  Passwords = {p1, p2}
  Amounts = {1}
  UINT64_MAX = 3
  AccountSize = 1
  SealHeader = 1
  SealModulus = 64
  HeapMaxSize = 3
  TornWrites = FALSE
  FlushFails = FALSE
  None = None
  Undefined = Undefined
  Clients = {c1, c2}
  Opcodes = {0, 1, 4}
  IntMod = 4
  Noise = {2}
INVARIANTS LockStep ReplyIsDue
PROPERTY NobodyHangs
