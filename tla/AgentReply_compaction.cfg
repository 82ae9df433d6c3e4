\* Compaction between any two steps, with failures; one call at a time.
SPECIFICATION FairSpec
CONSTANTS
  MaxIters = 2
  Compaction = TRUE
  Faults = TRUE
  Kinds = {"serial", "external"}
  TurnCalls = 1
  CallBound = 1
  MsgBound = 3
INVARIANT QuestionsStand
PROPERTY ReplyEnds
CHECK_DEADLOCK FALSE
