SPECIFICATION FairSpec
CONSTANTS
    v1 = v1
    v2 = v2
    none = none
    j1 = j1
    j2 = j2
    nojob = nojob
    w1 = w1
    w2 = w2
    r1 = r1
    r2 = r2
    Versions = {v1, v2}
    First = v1
    NoVersion = none
    Jobs = {j1, j2}
    NoJob = nojob
    Workers = {w1, w2}
    Restores = {r1, r2}
    MaxFaults = 2
    MaxEvents = 4
INVARIANTS
    TypeOK
    ArtifactsStored
    RoutingRebuilt
    NotLeftBehind
    StatusOfActive
ACTION_CONSTRAINT FirstGoesFirst FewEvents
PROPERTY JobsSettle
CHECK_DEADLOCK FALSE
