SPECIFICATION Spec
CONSTANTS
  MaxUpdates = 3
  Texts = {1, 3}
  DegradedThreshold = 2
  OverflowAt = 3
  MaxFailures = 3
  MaxToggles = 0
  MaxRestarts = 1
INVARIANTS OutageIsSurvived
CHECK_DEADLOCK FALSE
