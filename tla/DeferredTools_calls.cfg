\* Calls, changes and handlers of either kind.
SPECIFICATION FairSpec
CONSTANTS
  Loads = {l1, l2}
  Gets = {g1, g2}
  MaxChanges = 2
  None = None
INVARIANT StaleIsCleared
PROPERTY CallsReturn
