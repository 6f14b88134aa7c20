CONSTANTS
    None = None
    Missing = Missing
    Unreadable = Unreadable
    Digits <- MCDigits
    Databases = {1, 2}
    Inputs <- MCInputs

SPECIFICATION Spec
INVARIANTS BuildMatchesRanking ServedAsAsked
CHECK_DEADLOCK FALSE
