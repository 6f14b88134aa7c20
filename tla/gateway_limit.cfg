CONSTANTS
    Conns = {c1, c2}
    Databases = {d1}
    Endpoints = {e1}
    Keys = {k1}
    BackendKeys = {p1}
    MaxConnections = 1
    Events = {"shutdown", "expire", "timeout", "fdLimit", "hangup", "failures", "publish"}
    None = None
SPECIFICATION Spec
SYMMETRY Symmetry
INVARIANTS TypeOK SlotsExact SessionsExact BackendLoadBounded ForcedSessionsClosed
PROPERTY ImplementsAdmission
CHECK_DEADLOCK FALSE
