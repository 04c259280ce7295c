CONSTANTS
  Issues = {i1, i2, i3}
  Sessions = {s1, s2, s3}
  MaxConcurrent = 2
  MaxOutages = 2
  NoIssue = NoIssue
  NoSession = NoSession
SPECIFICATION Spec
SYMMETRY Symmetry
INVARIANTS
  LockInv
  OneWorkerPerIssue
  ActiveIsOwned
PROPERTIES
  LocksFollowSessions
  SessionsAdvance
  ImplementsSlots
CHECK_DEADLOCK FALSE
