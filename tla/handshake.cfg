CONSTANTS
    None = None
    maxNegotiationRounds = 4
    MaxInFlight = 2
    Cases <- MCCases

SPECIFICATION FairSpec
INVARIANTS TypeOK StartupProtected BackendAsAsked ForwardedFaithful BackendNotLeaked
PROPERTY HandshakeEnds
CHECK_DEADLOCK FALSE
