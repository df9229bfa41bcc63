CONSTANTS
    s1 = s1
    s2 = s2
    v1 = v1
    v2 = v2
    v3 = v3
    w1 = w1
    w2 = w2
    Gens = {1, 2, 3}
    Sources = {s1}
    Versions = {v1, v2}
    EmptyVersions = {}
    ClaimingVersions = {v2}
    Manifests <- AllManifests
    Workers = {w1}
    Cals = {}
    RetainPrevious = 0
    Production = FALSE
    TenantKnown = TRUE
    Nil = Nil
SPECIFICATION Spec
CONSTRAINT NoFailures
PROPERTIES
    ForgetKeepsRetired
CHECK_DEADLOCK FALSE
