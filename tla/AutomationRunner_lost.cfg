SPECIFICATION Spec
CONSTANTS
  m1 = m1
  m2 = m2
  m3 = m3
  k1 = k1
  k2 = k2
  NoMessage = none
  Workers = {w1}
  Messages = {m1}
  Keys = {k1, k2}
  Key <- SharedKey
  MaxRunsPerDay = 0
  MaxDeliveries = 2
  MaxCrashes = 1
INVARIANTS AckedWasProcessed
CHECK_DEADLOCK FALSE
