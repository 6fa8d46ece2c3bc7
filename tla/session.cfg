SPECIFICATION NetSpec
CONSTANTS
  Servers = {s1}
  Names = {alice, bob}
  Passwords = {p1, p2}
  Amounts = {0, 1, 3, 5}
  UINT64_MAX = 5
  AccountSize = 3
  SealHeader = 1
  SealModulus = 7
  HeapMaxSize = 24
  TornWrites = FALSE
  FlushFails = FALSE
  None = None
  Undefined = Undefined
  Clients = {c1}
  Opcodes = {0, 1, 2, 3, 4}
  IntMod = 3
  Noise = {1}
INVARIANTS NetTypeOK ShownIsBalance LoginIsSession BalanceMeansTaken RepliedIsStored StoredIsEarlier TooBigShowsBalance
