CONSTANTS
    Session = {s1}
    Writer = {w1}
    Registered = {w1}
    Link = {l1}
    None = None
    TTL = 1
    MaxNow = 0
    MaxChunks = 1
SPECIFICATION Spec
INVARIANT HashMatchesEnded
