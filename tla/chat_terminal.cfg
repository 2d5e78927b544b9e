SPECIFICATION Spec
CONSTANTS
    Runs = {1}
    s1 = s1
    Sessions = {s1}
    Workers = {w1}
    SessionOf <- OneSession
    NoSession = NoSession
    NoRun = NoRun
    Cancellable = {}
    Reasons = {"user"}
    MaxFaults = 0
PROPERTY
    TerminalIsFinal
CHECK_DEADLOCK FALSE
