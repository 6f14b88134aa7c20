CONSTANTS
    Cap = 1
    Requests = 4
    Replies = 2
    Duplex = TRUE
SPECIFICATION FairSpec
INVARIANTS TypeOK StreamFaithful ToldKeyIsRegistered
PROPERTY SessionEnds
CHECK_DEADLOCK FALSE
