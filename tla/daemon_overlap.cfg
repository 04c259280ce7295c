SPECIFICATION Spec
CONSTANTS
  Daemons = {d1, d2}
  Clis = {}
  MaxCommands = 0
  Nobody = Nobody
INVARIANTS OneRuntime
CHECK_DEADLOCK FALSE
