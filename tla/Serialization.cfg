SPECIFICATION WaySpec
CONSTANTS
  NULL = NULL
  MaxUShort = 7
  LogonSize = 8
  PamBuffer = 9
  PipeBuffer = 11
  Users <- MCUsers
  Passwords <- MCPasswords
  Accounts <- MCAccounts
  Garbage <- MCGarbage
  ComputerName <- MCComputerName
  Labels <- MCLabels
  Chars <- MCChars
INVARIANT ReadAsGiven
INVARIANT LsaReads
INVARIANT NothingLeaks
CHECK_DEADLOCK FALSE
