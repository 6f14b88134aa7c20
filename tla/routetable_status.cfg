CONSTANTS
    None = None
    Missing = Missing
    Unreadable = Unreadable
    Digits <- MCDigits
    Databases = {1, 2}
    RouteKeys <- MCKeys
    Services <- MCServices
    Ports <- MCPorts
    Specs <- MCSpecs
    InitialSpecs <- OneRoute
    RunsManager = TRUE
    EventsCap = 2
    MaxEdits = 1
    MaxFailures = 1

SPECIFICATION FairSpec
INVARIANT RestMeansCurrentStatus
PROPERTY StatusConverges
CHECK_DEADLOCK FALSE
