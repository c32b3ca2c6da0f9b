SPECIFICATION Spec
CONSTANTS
    GVRs = {g1}
    Names = {n1}
    NoGVR = NoGVR
    MaxDelay = 2
    MaxFailures = 1
    Backoff <- MCBackoff
    Durations <- MCDurations
    Errors <- MCErrors
    NoErr = NoErr
    Workers = {w1, w2}
    MaxUses = 2
INVARIANTS
    OneWorkerPerKey
    NoLostRequeue
    FailuresForgotten
    DrainedAtExit
PROPERTIES
    Terminates
    ImplementsPromise
