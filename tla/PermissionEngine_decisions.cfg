\* Every mode.  The limit of denials in a row is the code's; the limit in all is 5
\* in place of its 20 (classifier.go), which leaves the same cases with fewer states.
SPECIFICATION Spec
CONSTANTS
  Actions = {look, edit, drop}
  look = look
  edit = edit
  drop = drop
  Rules <- MCRules
  ReadOnly <- MCReadOnly
  Modes = {"default", "accept_edits", "auto", "explore", "bypass", "dont_ask"}
  HasClassifier = TRUE
  AutoMaxConsecutiveDenials = 3
  AutoMaxTotalDenials = 5
  MaxDenials = 7
INVARIANTS RulesStand SilentDenialsBounded
