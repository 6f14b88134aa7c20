CONSTANTS
    None = None
    Missing = Missing
    Unreadable = Unreadable
    Digits <- MCDigits
    Databases = {1, 7, 8}
    ServiceName = 1
    Malformed = Malformed
    Foreign = Foreign
    Shapes <- MCShapes
    HandWritten <- MCHandWritten
    MaxEdits = 4
    MaxFailures = 1
    MaxLag = 2

SPECIFICATION FairSpec
INVARIANTS TypeOK RestMeansPublished RestMeansOptedOut PublishedPortResolves
PROPERTIES OverwritesNoOtherManager DiscoveryConverges
CHECK_DEADLOCK FALSE
