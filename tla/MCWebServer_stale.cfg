SPECIFICATION Spec
CONSTANTS
    NWorkers = 2
    Conn = {c1, c2}
    Fd = {f1}
    TimerId = {t1}
    SigNum = {"SIGINT", "SIGTERM"}
    QueueMax = 1
    MaxRequests = 1
    MaxSignals = 0
    MaxFiles = 0
    NoFd = NoFd
    NoEntry = NoEntry
    NoMsg = NoMsg
PROPERTIES
    ResponseGoesHome
