SPECIFICATION Spec
CONSTANTS
    Letter = {"G", "a", "b", "x"}
    Requests <- AllRequests
    Styles = {"plus", "percent", "broken"}
INVARIANTS
    TypeOK
    QueryAsSent
    HeadersAsSent
CHECK_DEADLOCK FALSE
