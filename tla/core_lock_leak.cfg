CONSTANTS
  Issues = {i1}
  Sessions = {s1, s2}
  MaxConcurrent = 1
  MaxOutages = 1
  NoIssue = NoIssue
  NoSession = NoSession
SPECIFICATION Spec
INVARIANT NoLockLeaks
CHECK_DEADLOCK FALSE
