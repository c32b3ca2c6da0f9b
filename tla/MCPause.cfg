SPECIFICATION Spec
CONSTANTS
  MaxEdits = 3
  MaxSelfPauses = 2
  MaxFaults = 2
CHECK_DEADLOCK FALSE
PROPERTY PauseTakesEffect
PROPERTY UnpauseTakesEffect
