SPECIFICATION Spec
CONSTANTS
  Controllers = {c1, c2}
  MaxEdits = 2
  MaxFaults = 1
CHECK_DEADLOCK FALSE
PROPERTY OwnFinalizerOnly
PROPERTY DeletionRespected
PROPERTY FinalizersAreSet
PROPERTY DeletionCompletes
