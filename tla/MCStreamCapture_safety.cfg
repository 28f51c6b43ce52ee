SPECIFICATION FairSpec
CONSTANTS
    Call = {k1, k2}
    Other = Other
    None = None
CHECK_DEADLOCK FALSE
INVARIANTS
    TypeOK
    EarlyMeansLost
PROPERTIES
    NeverStopsOthers
    ImplementsCapture
    InterfaceFreed
