SPECIFICATION FairSpec
CONSTANTS
  None = none
  Leaders = {lead}
  LeaderName = "a"
  Names = {"a", "b"}
  Calls = {1, 2, 3, 4}
  Drains = {d1, d2}
  Settings <- Some
INVARIANTS TeamsAgree MailKept NamesUnique TeamUpdatedAfterTool ChangeReported
PROPERTY ResultsArrive
CHECK_DEADLOCK FALSE
