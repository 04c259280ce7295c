CONSTANTS
  Issues = {i1, i2}
  Sessions = {s1, s2}
  MaxConcurrent = 2
  MaxOutages = 2
  NoIssue = NoIssue
  NoSession = NoSession
SPECIFICATION FairSpec
PROPERTIES
  ActiveEnds
CHECK_DEADLOCK FALSE
