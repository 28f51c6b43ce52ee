CONSTANTS
    Capture = {c1}
    Tasked = {c1}
    Request = {r1, r2}
    Idle = Idle
SPECIFICATION Spec
CHECK_DEADLOCK FALSE
PROPERTY CancelReturnsReleased
