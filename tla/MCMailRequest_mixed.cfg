\* Two workers, two requests with every key.
SPECIFICATION Spec
CONSTANTS
    r1 = r1
    r2 = r2
    r3 = r3
    r4 = r4
    Worker = {w1, w2}
    Request = {r1, r2}
    Keys <- FullKeys
    NotJson = {}
    Configured = Configured
    Empty = Empty
    NoRequest = NoRequest
INVARIANTS OwnContent
CHECK_DEADLOCK FALSE
