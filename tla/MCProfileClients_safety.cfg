CONSTANTS
    Run = {r1, r2}
    CanAsk = {r1}
    Other = Other
    Nobody = Nobody
    Until = 1
    MaxWindows = 2
    CoreFails = TRUE
SPECIFICATION Spec
INVARIANTS
    TypeOK
    RefusedNeverStops
    ReleasedBeforeReports
    LeakNeedsFailedStop
PROPERTY StopsItsOwn
