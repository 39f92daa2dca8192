SPECIFICATION GFairSpec
CONSTANTS
    NWorkers = 2
    Conn = {c1}
    Fd = {f1}
    TimerId = {t1}
    SigNum = {"SIGINT", "SIGTERM"}
    QueueMax = 1
    MaxRequests = 5
    MaxSignals = 1
    MaxFiles = 0
    MaxMails = 2
    NoFd = NoFd
    NoEntry = NoEntry
    NoMsg = NoMsg
INVARIANTS
    GTypeOK
PROPERTIES
    HandlerReturns
    MailReturns
CHECK_DEADLOCK FALSE
