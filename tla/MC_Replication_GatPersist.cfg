CONSTANTS
    k1 = k1
    k2 = k2
    v1 = v1
    v2 = v2
    Absent = Absent
    Nul = Nul
    MaxLen = 3
    Offsets = {0, 2}
    Keys = {k1, k2}
    Vals = {v1}
    McFlags = {1}
    Ttls = {1, 2}
    GatTimes = {0}
    MaxTime = 3
    MaxOps = 2
    MayOom = TRUE
    LagAllowed = FALSE
SPECIFICATION Spec
INVARIANTS ReplicaAgrees
