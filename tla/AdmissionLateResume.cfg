SPECIFICATION Spec
CONSTANTS
    v1 = v1
    v2 = v2
    p1 = p1
    p2 = p2
    Vols = {v1, v2}
    Pools = {p1, p2}
    NoPool = NoPool
    Size <- MCSize
    Limit <- MCLimit
    Movers = {v1}
    Deleted = {v1, v2}
    Mortal = {p2}
    LateResume = TRUE
INVARIANT ReservedWithinLimit
