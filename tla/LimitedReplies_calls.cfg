SPECIFICATION FairSpec
CONSTANTS
  Callers = {c1, c2}
  NoCaller = none
  YieldFails = TRUE
  Cancels = TRUE
  Replies = {c1, c2}
  NoReply = noReply
  Budget = 1
  Agents <- MCAgents
INVARIANTS Serialized NoLostError RunsBounded RunRecordTrue
PROPERTY RunsEnd
CHECK_DEADLOCK FALSE
