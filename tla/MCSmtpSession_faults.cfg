\* A server that accepts everything; polite servers, of which one rejects recipients; one
\* with the faults SessionEnds is about; one with every fault, over a network that cuts lines.
SPECIFICATION FairSpec
CONSTANTS
    NRcpt = 3
    BodyLines = 2
    FaultSets = {
        {},
        {"badCredentials", "contentRejected", "idle"},
        {"badCredentials", "rcptRejected", "contentRejected", "idle"},
        {"uninit", "splitBanner", "noStartTls", "tlsRefused", "plainAuth", "badCredentials", "contentRejected", "idle"},
        {"midLine", "uninit", "splitBanner", "noStartTls", "tlsRefused", "handshake", "plainAuth", "badCredentials", "rcptRejected", "contentRejected", "idle", "drop", "authTemporary"}}
INVARIANTS TypeOK SecretsAnswerChallenges NeverMisread AlwaysReturns
PROPERTIES TransferSpec MailDelivered SessionEnds
CHECK_DEADLOCK FALSE
