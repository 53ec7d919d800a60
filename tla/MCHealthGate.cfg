\* All gates, to their end.
SPECIFICATION FairSpec
CONSTANTS
  Settings <- MCSettings
  Unset = Unset
  MinBudget = 10
  ProbeLimit = 10
  DefaultInterval = 1
  DefaultTry = 10
  Horizon = 60
INVARIANTS
  TypeOK
  BudgetIsClamp
  OvershootBounded
PROPERTIES
  NeverGivesUpEarly
  ActsAsGate
  GateEnds
CHECK_DEADLOCK FALSE
