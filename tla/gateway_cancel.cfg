CONSTANTS
    Conns = {c1, c2, c3}
    Databases = {d1}
    Endpoints = {e1, e2}
    Keys = {k1, k2}
    BackendKeys = {p1}
    MaxConnections = 0
    Events = {"publish", "failures"}
    None = None
SPECIFICATION Spec
SYMMETRY Symmetry
INVARIANTS RegistryExact CancelReachesItsSession
CHECK_DEADLOCK FALSE
