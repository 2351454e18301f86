CONSTANTS
    Opps = {1, 2}
    TopN = 1
    Iterations = {0}
    BudgetLeft = TRUE
    RecursionLimit = 25
    Overalls = {66, 82}
    Confidences = {450000}
    Pressures = {0, 40, 60, 80, 100}
    NoReport = NoReport
    NotAudited = NotAudited
SPECIFICATION AuditSpec
INVARIANTS
    EveryTraceIsComplete
CHECK_DEADLOCK FALSE
