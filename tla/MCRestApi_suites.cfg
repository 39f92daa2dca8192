\* Shipments and stock in depth, and every endpoint and branch.
SPECIFICATION Spec
CONSTANTS
    Worker = {w1, w2}
    Suites <- AllSuites
    Dates = {1, 2, 3}
    Numeric = {"100"}
    Length <- CodeLength
    Page <- WebPages
    Files = {"logo.png", "index.html"}
    Deleted = Deleted
    NoRequest = NoRequest
INVARIANTS TypeOK FoundIfThere StockMatchesAnswers AnswerMatchesEffect
PROPERTIES DeliveredIsFinal OwnDocsOnly
CHECK_DEADLOCK FALSE
