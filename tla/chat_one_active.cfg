SPECIFICATION Spec
CONSTANTS
    Runs = {1, 2}
    s1 = s1
    Sessions = {s1}
    Workers = {w1, w2}
    SessionOf <- OneSession
    NoSession = NoSession
    NoRun = NoRun
    Cancellable = {1}
    Reasons = {"user"}
    MaxFaults = 0
INVARIANT
    OneActiveRunPerSession
CHECK_DEADLOCK FALSE
