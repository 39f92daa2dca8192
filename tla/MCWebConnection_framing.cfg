\* Two tidy clients, and one that splits, pipelines, garbles and resets at will beside a tidy one.
SPECIFICATION FairSpec
CONSTANTS
    c1 = c1
    c2 = c2
    NoConn = NoConn
    Conn = {c1, c2}
    Requests <- TwoClients
    HdrLen = 3
    MaxRecv = 4
    Manners <- OneWild
INVARIANTS TypeOK FramingExact BytesKept
PROPERTIES SentIsProcessed
CHECK_DEADLOCK FALSE
