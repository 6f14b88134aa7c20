CONSTANTS
    Conns = {c1, c2}
    Databases = {d1}
    Endpoints = {e1}
    Keys = {k1}
    BackendKeys = {p1}
    MaxConnections = 1
    Events = {"shutdown", "expire", "timeout", "traffic"}
    None = None
SPECIFICATION WellBehavedSpec
PROPERTIES DrainTerminates HandshakeBounded
CHECK_DEADLOCK FALSE
