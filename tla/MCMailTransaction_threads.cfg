\* Every interleaving of the threads with every fault but the split greeting; and a
\* greeting that comes when the worker waits, with the faults WorkerReturns is about.
SPECIFICATION TxFairSpec
CONSTANTS
    NRcpt = 2
    BodyLines = 2
    FaultSets = {
        {"midLine", "connect", "noStartTls", "tlsRefused", "handshake", "plainAuth", "badCredentials", "authTemporary", "rcptRejected", "contentRejected", "idle", "drop"},
        {"lateGreeting", "connect", "splitBanner", "noStartTls", "tlsRefused", "plainAuth", "badCredentials", "contentRejected", "idle"}}
INVARIANTS TxTypeOK UserOutlivesInput AcquireNeverWaits
PROPERTIES WorkerReturns
CHECK_DEADLOCK FALSE
