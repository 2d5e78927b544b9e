SPECIFICATION FairSpec
CONSTANTS
    Runs = {1, 2}
    s1 = s1
    Sessions = {s1}
    Workers = {w1, w2}
    SessionOf <- OneSession
    NoSession = NoSession
    NoRun = NoRun
    Cancellable = {}
    Reasons = {"user"}
    MaxFaults = 1
PROPERTY
    QueuedRunsEnd
CHECK_DEADLOCK FALSE
