\* The algorithm ends, so a state without successor is no error.
SPECIFICATION Spec
CONSTANT Node <- MCNode
INVARIANTS
  TypeOK
  SelectionIsLeast
  SelectionAgrees
  OrderRespectsDeps
  NoServiceTwice
  CycleVerdict
  OrderIsDeterministic
PROPERTY SelectionTerminates
CHECK_DEADLOCK FALSE
