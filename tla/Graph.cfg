CONSTANTS
    Opps = {1, 2}
    TopN = 1
    Iterations = {3, 4}
    BudgetLeft = TRUE
    RecursionLimit = 25
    Overalls = {66, 82}
    Confidences = {450000}
    Pressures = {0, 40, 60, 80, 100}
    NoReport = NoReport
    NotAudited = NotAudited
SPECIFICATION FairAuditSpec
INVARIANTS
    TypeOK
    DecisionsAreGrounded
    IneligibleStays
    EnthusiasmIsEarned
    WithinRecursionLimit
    TraceIsComplete
PROPERTIES
    ReportsOrRaises
CHECK_DEADLOCK FALSE
