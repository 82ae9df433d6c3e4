SPECIFICATION Spec
CONSTANTS
  MaxIters = 2
  Compaction = TRUE
  Faults = FALSE
  Kinds = {"serial"}
  TurnCalls = 1
  CallBound = 1
  MsgBound = 3
INVARIANT RunsAtMostOnce
CHECK_DEADLOCK FALSE
