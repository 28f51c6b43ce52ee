CONSTANTS
    Task = {t1}
    Owning = {t1}
    Request = {r1, r2}
    Answers = {"confirm"}
    Idle = Idle
    NoResult = NoResult
    TTL = 0
    MaxNow = 0
    CanAsk = {t1}
    Other = Other
    Nobody = Nobody
    Until = 1
    MaxWindows = 2
    CoreFails = TRUE
SPECIFICATION FairProfileSpec
INVARIANT OutcomeMeansReleased
PROPERTIES
    WindowNeedsConfirm
    CancelAnswered
    RadioReleased
