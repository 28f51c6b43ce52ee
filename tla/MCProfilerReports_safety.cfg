\* A call over three files, one of them a session CSV, and two download slots.
SPECIFICATION FairSpec
CONSTANTS
    File = {f1, f2, f3}
    Report = {f3}
    Call = {c1}
    Zip = Zip
    None = None
    Concurrency = 2
    Limit = 4
    TTL = 1
    MaxNow = 1
    MaxSize = 2
CHECK_DEADLOCK FALSE
INVARIANTS
    TypeOK
    NothingStandingLeftOut
    LinkDeliversAnswer
PROPERTY
    CallEnds
