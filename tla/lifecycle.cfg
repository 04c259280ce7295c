SPECIFICATION Spec
CONSTANTS
  Daemons = {d1, d2, d3, d4}
  MaxFiles = 4
  MaxExits = 3
  MaxProbes = 2
  Nobody = Nobody
SYMMETRY Symmetry
INVARIANTS LifecycleInv SingleWhileFileStays
 
CHECK_DEADLOCK FALSE
