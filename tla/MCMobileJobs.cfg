SPECIFICATION Spec
CONSTANTS
    Sockets = {s1}
    Origins = {"toggle"}
    Urls = {"good"}
    Android = TRUE
    MaxKeys = 2
    None = None
    Jobs = {j1, j2}
    HistoryMax = 1
    MaxKills = 1
CONSTRAINT Scenario
SYMMETRY Symmetry
INVARIANTS
    TypeOK
    ReceiptVerifies
    DroppedOnlyIfClosed
    EarnedOncePerJob
