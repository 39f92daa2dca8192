\* One worker: one mail at a time; the body of r4 is not JSON.
SPECIFICATION Spec
CONSTANTS
    r1 = r1
    r2 = r2
    r3 = r3
    r4 = r4
    Worker = {w1}
    Request = {r1, r2, r3, r4}
    Keys <- MixedKeys
    NotJson = {r4}
    Configured = Configured
    Empty = Empty
    NoRequest = NoRequest
INVARIANTS TypeOK OwnContent
CHECK_DEADLOCK FALSE
