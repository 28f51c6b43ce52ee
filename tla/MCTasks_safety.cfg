CONSTANTS
    Task = {t1, t2}
    Owning = {t1}
    Request = {r1, r2}
    Answers = {"confirm"}
    Idle = Idle
    NoResult = NoResult
    TTL = 0
    MaxNow = 1
SYMMETRY RequestSymmetry
SPECIFICATION Spec
INVARIANTS
    TypeOK
    OutcomeIsTheWorks
    QuestionHasWaiter
    AnswerFidelity
    TeardownNeverSkipped
PROPERTIES
    CancelCutsTheWork
    ImplementsLifecycle
