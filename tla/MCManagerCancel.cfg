SPECIFICATION Spec
CONSTANTS
    a = a
    b = b
    na = na
    nb = nb
    s1 = s1
    s2 = s2
    None = None
    Controllers = {a, b}
    Blocking = {a, b}
    Names = {na, nb}
    Name <- MCName
    Starters = {s1}
    StartArgs <- MCOneStart
    Clients = {c1}
    ClientArgs <- MCClientArgs
    MaxOps = 2
PROPERTIES
    CancelStopsControllers
CHECK_DEADLOCK FALSE
