CONSTANTS
    s1 = s1
    s2 = s2
    v1 = v1
    v2 = v2
    v3 = v3
    w1 = w1
    w2 = w2
    Gens = {1, 2}
    Sources = {s1}
    Versions = {v1}
    EmptyVersions = {}
    ClaimingVersions = {}
    Manifests <- AllManifests
    Workers = {w1}
    Cals = {c1, c2}
    RetainPrevious = 0
    Production = TRUE
    TenantKnown = TRUE
    Nil = Nil
SPECIFICATION Spec
SYMMETRY Symmetry
INVARIANTS
    FingerprintCurrent
    PublishedIsCurrent
PROPERTIES
    PromotionCertified
CHECK_DEADLOCK FALSE
