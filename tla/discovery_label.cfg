CONSTANTS
    None = None
    Missing = Missing
    Unreadable = Unreadable
    Digits <- MCDigits
    Databases = {1, 7, 8}
    ServiceName = 1
    Malformed = Malformed
    Foreign = Foreign
    Shapes <- MCShapes
    HandWritten <- MCHandWritten
    MaxEdits = 2
    MaxFailures = 0
    MaxLag = 2

SPECIFICATION Spec
INVARIANT RestMeansUnlabelledGone
CHECK_DEADLOCK FALSE
