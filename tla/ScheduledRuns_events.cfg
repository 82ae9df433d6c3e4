SPECIFICATION ScheduledSpec
CONSTANTS
  m1 = m1  m2 = m2  m3 = m3
  k1 = k1  k2 = k2
  queue = queue  type = type  running = running
  NoMessage = none
  NoLimit = unlimited
  Workers = {w1, w2, w3}
  Messages = {m1, m2, m3}
  Keys = {k1, k2}
  Key <- SharedKey
  Limiters = {queue, type, running}
  Capacity <- MCCapacity
  Path <- MCPath
  Running = running
  MaxRunsPerDay = 1
  MaxDeliveries = 1
  MaxCrashes = 1
SYMMETRY WorkerSymmetry
INVARIANTS RunsOncePerKey BudgetScheduled RunsWithinLimits LeasesClosed SuccessIsRecorded
CHECK_DEADLOCK FALSE
