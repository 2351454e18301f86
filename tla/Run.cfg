CONSTANTS
    Streams = {s1, s2}
    Payloads = {"stage", "SUCCEEDED", "FAILED"}
    Closed = Closed
    NoQueue = NoQueue
    Unread = Unread
    Requests = {c1}
    NoRow = NoRow
    Deployments = {TRUE, FALSE}
    MaxRetries = 2
    MaxStages = 1
    Faults = {"dispatch", "setup", "graph", "audit", "database", "crash", "request"}
SPECIFICATION FairSpec
INVARIANTS
    TypeOK
    ClientsSeeHistory
    AttachedMissesNothing
    LastAnnouncementHolds
    RowIsAnnounced
PROPERTIES
    ClosedStreamEnds
    CurrentStreamEnds
    EarlyCancelTakesEffect
    SettlesOrIsLost
    ImplementsLifecycle
CHECK_DEADLOCK FALSE
