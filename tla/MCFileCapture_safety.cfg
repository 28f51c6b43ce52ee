CONSTANTS
    Capture = {c1, c2}
    Tasked = {c1}
    Request = {r1, r2}
    Idle = Idle
SPECIFICATION FairSpec
CHECK_DEADLOCK FALSE
INVARIANTS
    TypeOK
    RecordTellsTheRun
PROPERTIES
    AnswerMeansEnded
    ImplementsCapture
    StopIsAnswered
