CONSTANTS
  p1 = p1
  p2 = p2
  n1 = n1
  s1 = s1
  s2 = s2
  s3 = s3
  none = none
  Prefixes = {p1, p2}
  Numbers = {n1}
  Sessions = {s1, s2, s3}
  None = none
  DefaultPrefix = p1
  MaxConcurrent = 2
  Messages <- MCMessages
  MaxMessages = 3
  MaxEdits = 1
SPECIFICATION Spec
SYMMETRY Symmetry
INVARIANTS DispatchInv
PROPERTIES ImplementsSlots OperatorHeard CancelHitsItsTopic OtherBotsCommands
CHECK_DEADLOCK FALSE
