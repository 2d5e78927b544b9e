SPECIFICATION Spec
CONSTANTS
    Users = {uf, ua, uo}
    Founder = uf
    Admin = ua
    Platform = up
    Nobody = nobody
    Invites = {i1, i2}
    NoInvite = none
    Slots = {s1, s2}
    MaxRequests = 2
SYMMETRY Perms
INVARIANT OneActiveFounder
CHECK_DEADLOCK FALSE
