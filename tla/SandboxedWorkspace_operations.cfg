\* Operations that fail, are cancelled or die, beside a call of a tool.
SPECIFICATION FairSpec
CONSTANTS
  Names = {m1, m2}
  Calls = {c1}
  Defaults = {m1}
  MaxFaults = 2
  MaxEras = 2
  MaxCrashes = 1
INVARIANTS SuccessLasts Agreement Quiesced OldErasAreOver ConnectedIsListed GateReopened
PROPERTY OperationsEnd
CHECK_DEADLOCK FALSE
