CONSTANTS
    Files = {f1}
    Text <- MCText
    MaxTokens = 4
    Overlap = 1
    RetrievalTopK = 3
    RerankTopN = 2
    Sessions = {s1, s2, s3}
    MaxRows = 2
    MaxFaults = 1
    None = None
SPECIFICATION Spec
SYMMETRY MCSymmetry
INVARIANTS
    TypeOK
    IndexedIsSearchable
    PendingIsOnItsWay
CHECK_DEADLOCK FALSE
