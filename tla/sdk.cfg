SPECIFICATION FairSpec
CONSTANTS
  Commands <- MCCommands
  MaxTexts = 2
  MaxTools = 2
  MaxSignals = 2
INVARIANTS DriverInv OneLastWord NothingBannedRuns
PROPERTIES ImplementsProtocol StopIsRecorded TurnOverEnds
CHECK_DEADLOCK FALSE
