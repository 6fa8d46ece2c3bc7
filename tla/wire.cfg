SPECIFICATION Spec
CONSTANTS
  NameWords <- MCNames
  PasswordWords <- MCPasswords
  Digits = {1, 2, 12}
  BalanceDigits = {1, 7, 8}
  ReadSizes = {8, 12, 600}
  StackCommas = {4, 9, 14, 20}
  StackEnd = 21
INVARIANTS FieldsAreTyped WhatOverruns NumberIsWhole
CHECK_DEADLOCK FALSE
