CONSTANTS
    Workers = {w1, w2}
    Candidates = {1, 2}
    Text <- SharedText
    Asked = {"contrarian"}
    Chain <- MCChain
    CacheKinds = {"none", "memory", "redis"}
    MaxIterations = 3
    MaxCompletions = 1
    Nobody = Nobody
    None = None
SPECIFICATION FairSpec
INVARIANTS
    TypeOK
    ResultsFitTheirJob
PROPERTIES
    CompletionsEnd
CHECK_DEADLOCK FALSE
