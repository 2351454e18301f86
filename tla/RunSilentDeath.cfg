CONSTANTS
    Streams = {s1}
    Payloads = {"stage", "SUCCEEDED", "FAILED"}
    Closed = Closed
    NoQueue = NoQueue
    Unread = Unread
    Requests = {}
    NoRow = NoRow
    Deployments = {FALSE}
    MaxRetries = 0
    MaxStages = 1
    Faults = {"database"}
SPECIFICATION FairSpec
PROPERTIES
    RunSettles
CHECK_DEADLOCK FALSE
