SPECIFICATION FairSpec
CONSTANTS
    w1 = w1
    w2 = w2
    Workers = {w1, w2}
    Backends = {"redis", "local"}
    Chunks <- OneChunk
    MaxFaults = 1
INVARIANTS
    TypeOK
    EndHappened
    NothingMissed
PROPERTY StreamEnds
CHECK_DEADLOCK FALSE
