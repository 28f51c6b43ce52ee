CONSTANTS
    Session = {s1}
    Writer = {w1, w2, w3}
    Registered = {w1}
    Link = {l1}
    None = None
    TTL = 1
    MaxNow = 2
    MaxChunks = 1
SPECIFICATION Spec
INVARIANTS
    TypeOK
    CaptureKeepsItsFile
    NoWarningMeansDone
PROPERTY TicketWorksOnce
