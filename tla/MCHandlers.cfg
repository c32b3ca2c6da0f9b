SPECIFICATION Spec
CONSTANTS
  Builders <- MCBuilders
  MaxStops = 2
CHECK_DEADLOCK FALSE
INVARIANT OrderIsKept
INVARIANT EveryLeafRuns
PROPERTY RequestIsHandled
INVARIANT BoxedValuesArrive
INVARIANT PlainValuesFlowDown
