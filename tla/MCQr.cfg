CONSTANTS
  l1 = l1
  l2 = l2
  phone1 = phone1
  amo1 = amo1
  None = None
  Logins <- MCLogins
  Phones <- MCPhones
  AmoAccounts <- MCAmoAccounts
  MaxMishaps = 1
  MaxCodes = 2
SPECIFICATION QrSpec
INVARIANTS CancelPreventsAccount SessionsBelongToRows
PROPERTIES CancelEndsRun
CHECK_DEADLOCK FALSE
