CONSTANTS
    None = None
    Missing = Missing
    Unreadable = Unreadable
    Digits <- MCDigits
    Databases = {1, 2}
    RouteKeys <- MCKeys
    Services <- MCServices
    Ports <- MCPorts
    Specs <- MCSpecs
    InitialSpecs <- AnyRoutes
    RunsManager = FALSE
    EventsCap = 1
    MaxEdits = 3
    MaxFailures = 0

SPECIFICATION FairSpec
INVARIANTS TypeOK SnapshotSound RestMeansCurrentTable
PROPERTY TableConverges
CHECK_DEADLOCK FALSE
