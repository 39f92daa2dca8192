SPECIFICATION GSpec
CONSTANTS
    NWorkers = 1
    Conn = {c1}
    Fd = {f1}
    TimerId = {t1}
    SigNum = {"SIGINT", "SIGTERM"}
    QueueMax = 1
    MaxRequests = 1
    MaxSignals = 1
    MaxFiles = 0
    MaxMails = 1
    NoFd = NoFd
    NoEntry = NoEntry
    NoMsg = NoMsg
PROPERTIES
    SignalReachesServer
CHECK_DEADLOCK FALSE
