CONSTANTS
    None = None
    Error = Error
    Inputs <- MCInputs

SPECIFICATION Spec
INVARIANT SignalDrains
CHECK_DEADLOCK FALSE
