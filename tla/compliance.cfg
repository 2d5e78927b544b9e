SPECIFICATION FairSpec
CONSTANTS
    r1 = r1
    norun = norun
    w1 = w1
    w2 = w2
    nobody = nobody
    Runs = {r1}
    NoRun = norun
    Workers = {w1, w2}
    Nobody = nobody
    MaxExpiries = 2
    MaxFaults = 1
INVARIANTS
    TypeOK
    ResultOfOneExecution
PROPERTIES
    EndStays
    RunsEnd
CHECK_DEADLOCK FALSE
