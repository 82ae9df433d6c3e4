\* Two batches of calls of every kind, with stops, panics and late results.
SPECIFICATION Spec
CONSTANTS
  MaxIters = 2
  Compaction = FALSE
  Faults = TRUE
  Kinds = {"safe", "serial", "external", "missing", "garbled"}
  TurnCalls = 2
  CallBound = 2
  MsgBound = 3
INVARIANTS RunsAtMostOnce IterationBound SerialRunsAlone NothingLeftRunning
PROPERTIES RunsOnlyPermitted ImplementsLifecycle
CHECK_DEADLOCK FALSE
