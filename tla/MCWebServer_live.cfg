SPECIFICATION FairSpec
CONSTANTS
    NWorkers = 2
    Conn = {c1, c2}
    Fd = {f1}
    TimerId = {t1}
    SigNum = {"SIGINT", "SIGTERM"}
    QueueMax = 2
    MaxRequests = 2
    MaxSignals = 1
    MaxFiles = 0
    NoFd = NoFd
    NoEntry = NoEntry
    NoMsg = NoMsg
PROPERTIES
    SignalStops
    PeerClosedReaped
    RequestServed
