CONSTANTS
    Run = {r1}
    CanAsk = {r1}
    Other = Other
    Nobody = Nobody
    Until = 1
    MaxWindows = 1
    CoreFails = FALSE
SPECIFICATION Spec
PROPERTY AlreadyRunningNotInterrupted
