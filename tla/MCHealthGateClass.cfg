\* What a failed gate reports.
SPECIFICATION Spec
CONSTANTS
  Settings <- Usual
  Unset = Unset
  MinBudget = 10
  ProbeLimit = 10
  DefaultInterval = 1
  DefaultTry = 10
  Horizon = 60
INVARIANT ClassTellsWhy
CHECK_DEADLOCK FALSE
