CONSTANTS
    None = None
    Error = Error
    Inputs <- MCInputs

SPECIFICATION FairSpec
INVARIANTS TLSFailsClosed WritersAreElected ScopeAsAsked
PROPERTIES StopEnds FailureSurfaces RoutesWithoutLeader
CHECK_DEADLOCK FALSE
