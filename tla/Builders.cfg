CONSTANTS
    s1 = s1
    s2 = s2
    v1 = v1
    v2 = v2
    v3 = v3
    w1 = w1
    w2 = w2
    Gens = {1}
    Sources = {s1, s2}
    Versions = {v1}
    EmptyVersions = {}
    ClaimingVersions = {}
    Manifests <- Full
    Workers = {w1, w2}
    Cals = {}
    RetainPrevious = 0
    Production = FALSE
    TenantKnown = FALSE
    Nil = Nil
SPECIFICATION FairSpec
INVARIANTS
    ReadableIsComplete
    AcceptedGraphIsCurrent
PROPERTIES
    WorkersReturn
CHECK_DEADLOCK FALSE
