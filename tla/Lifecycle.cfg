CONSTANTS
    Opps = {o1}
    Absent = Absent
    Sessions = {s1, s2}
    Idle = Idle
    MaxEvents = 4
SPECIFICATION Spec
INVARIANTS
    TypeOK
    LogExplainsStatus
    EntriesAreLegal
PROPERTIES
    CurrentCopiesFollowLifecycle
CHECK_DEADLOCK FALSE
