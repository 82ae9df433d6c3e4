SPECIFICATION FairSpec
CONSTANTS
  a = a
  b = b
  Ids = {a, b}
  Messages <- MCMessages
  MaxLen = 4
  Limits = {0, 2, 4}
INVARIANTS UnresolvedReserved PairsNotSplit BudgetKept
PROPERTY EndsUnlessCut
CHECK_DEADLOCK FALSE
