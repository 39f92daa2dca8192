SPECIFICATION Spec
CONSTANTS
    NWorkers = 2
    Conn = {c1, c2, c3}
    Fd = {f1, f2}
    TimerId = {t1, t2, t3}
    SigNum = {"SIGINT", "SIGTERM"}
    QueueMax = 1
    MaxRequests = 1
    MaxSignals = 2
    MaxFiles = 1
    NoFd = NoFd
    NoEntry = NoEntry
    NoMsg = NoMsg
SYMMETRY Symmetry
INVARIANTS
    TypeOK
    OneToken
    AtMostOneRuns
    ShutdownProgress
    HandlersAlive
    TimersMatchPool
    PoolOwnsFd
PROPERTIES
    LifeSpec
CHECK_DEADLOCK FALSE
