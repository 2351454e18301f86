CONSTANTS
    Opps = {1}
    Absent = Absent
    Goals = {"mine", "bad", "theirs"}
    OwnGoals = {"mine", "bad"}
    BadGoals = {"bad"}
    Dated = {}
    Described = {}
    Names = {"search_web", "save_opportunity", "extract_deadline",
        "search_user_profile", "calculate_opportunity_score",
        "generate_outreach", "update_opportunity_status", "send_mail"}
    Arguments <- MCArguments
    Granted = {}
    MaxTotal = 2
    MaxCalls <- MCMaxCalls
    MaxRetries <- MCMaxRetries
    RateLimit <- MCRateLimit
    Window = 1
    LastTime = 2
    MaxInvocations = 3
    None = None
SPECIFICATION Spec
INVARIANTS
    TypeOK
    ChargesMatchTrace
    TraceExplainsWrites
    WindowHolds
CHECK_DEADLOCK FALSE
