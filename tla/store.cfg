CONSTANTS
  Commands = {c1, c2, c3}
  NoFile = NoFile
  Statements = 2
  MaxFaults = 1
SPECIFICATION Spec
SYMMETRY Symmetry
INVARIANTS StoreInv ConfigWhole SettingsSurvive RegistrationStays InitDelivers
CHECK_DEADLOCK FALSE
