SPECIFICATION Spec
CONSTANTS
    a = a
    b = b
    na = na
    nb = nb
    s1 = s1
    s2 = s2
    None = None
    Controllers = {a, b}
    Blocking = {a}
    Names = {na, nb}
    Name <- MCName
    Starters = {s1, s2}
    StartArgs <- MCStartArgs
    Clients = {c1}
    ClientArgs <- MCClientArgs
    MaxOps = 1
INVARIANTS
    StopsControllers
    OneStartTakesEffect
    ReadyMeansLaunched
    ServerErrorIsReturned
PROPERTIES
    ShutdownCompletes
CHECK_DEADLOCK FALSE
