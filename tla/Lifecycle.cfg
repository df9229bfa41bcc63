CONSTANTS
    s1 = s1
    s2 = s2
    v1 = v1
    v2 = v2
    v3 = v3
    w1 = w1
    w2 = w2
    Gens = {1, 2, 3, 4}
    Sources = {}
    Versions = {v1}
    EmptyVersions = {}
    ClaimingVersions = {}
    Manifests <- Full
    Workers = {w1}
    Cals = {}
    RetainPrevious = 2
    Production = FALSE
    TenantKnown = TRUE
    Nil = Nil
SPECIFICATION Spec
INVARIANTS
    PointersSafe
PROPERTIES
    LateFailureHarmless
    GcKeepsWindow
CHECK_DEADLOCK FALSE
