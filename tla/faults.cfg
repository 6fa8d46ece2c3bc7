SPECIFICATION StartSpec
CONSTANTS
  Servers = {s1}
  Names = {alice, bob}
  Passwords = {p1, p2}
  Amounts = {1, 2}
  UINT64_MAX = 3
  AccountSize = 2
  SealHeader = 3
  SealModulus = 64
  HeapMaxSize = 24
  TornWrites = TRUE
  FlushFails = TRUE
  Tokens = {t1, t2}
  Blank = Blank
  NoFile = NoFile
  None = None
  Undefined = Undefined
INVARIANTS StoredIsEarlier TokenTypeOK HandedIsWhole NothingLeftOpen
PROPERTY NothingForgotten
