SPECIFICATION FairSpec
CONSTANTS
    Runs = {1}
    s1 = s1
    Sessions = {s1}
    Workers = {w1, w2}
    SessionOf <- NoSessions
    NoSession = NoSession
    NoRun = NoRun
    Cancellable = {1}
    Reasons = {"aborted"}
    MaxFaults = 2
PROPERTY
    QueuedRunsEnd
CHECK_DEADLOCK FALSE
