SPECIFICATION FairSpec
CONSTANTS
  Daemons = {d1, d2}
  Clis = {c1}
  MaxCommands = 2
  Nobody = Nobody
INVARIANTS ControlInv SignalledIsRead StateFileTruthful
PROPERTIES TermEndsDaemon
CHECK_DEADLOCK FALSE
