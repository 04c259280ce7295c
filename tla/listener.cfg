SPECIFICATION FairSpec
CONSTANTS
  MaxUpdates = 4
  Texts = {1, 3, 4}
  DegradedThreshold = 2
  OverflowAt = 3
  MaxFailures = 3
  MaxToggles = 2
  MaxRestarts = 1
INVARIANTS ListenerInv
PROPERTIES ImplementsDelivery StopHeard EveryMessageHandled
CHECK_DEADLOCK FALSE
