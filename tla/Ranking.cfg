CONSTANTS
    DimensionScale = 100
    WeightScale = 100
    ScoreScale = 10
    FreshnessScale = 10000
    Day = 2
    Unknown = Unknown
    ScoringError = ScoringError
    Opps = {1, 2}
    Absent = Absent
    Goals = {"g1"}
    Sessions = {s1, s2}
    python = python
    sql = sql
    Facts <- MCFacts
    Person <- MCPerson
    GoalSettings <- MCGoalSettings
    Created <- MCCreated
    Selections <- MCSelections
    Filters <- MCFilters
    Times = {0, 210}
    ScoreLimit = 2
    RevalidateLimit = 2
    PageLimit = 1
    MaxEdits = 1
    MaxRequests = 3
    NoRow = NoRow
    Idle = Idle
SPECIFICATION Spec
SYMMETRY MCSymmetry
INVARIANTS
    TypeOK
    DefaultWeightsNeverRecommend
    UncontestedRowsAreExplained
PROPERTIES
    KeysetSurvivesChange
CHECK_DEADLOCK FALSE
