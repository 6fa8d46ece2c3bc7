SPECIFICATION Spec
CONSTANTS
  NameWords <- OneName
  PasswordWords <- OnePassword
  Digits = {1, 3}
  BalanceDigits = {3}
  ReadSizes = {}
  StackCommas = {}
  StackEnd = 0
INVARIANT FieldsFit
CHECK_DEADLOCK FALSE
