CONSTANTS
    Workers = {w1}
    Candidates = {1, 2}
    Text <- SharedText
    Asked = {"contrarian"}
    Chain <- MCChain
    CacheKinds = {"redis"}
    MaxIterations = 3
    MaxCompletions = 2
    Nobody = Nobody
    None = None
SPECIFICATION Spec
INVARIANT GivesUpOnAModel
CHECK_DEADLOCK FALSE
