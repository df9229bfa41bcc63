CONSTANTS
    e1 = e1
    e2 = e2
    c1 = c1
    c2 = c2
    r1 = r1
    Events = {e1, e2}
    Controllers = {c1}
    Recoverers = {r1}
    Limit = 2
    AckLoss = TRUE
    MaxFaults = 2
    MaxOverruns = 1
    Nil = Nil
SPECIFICATION FairSpec
INVARIANTS
    ToldMeansDelivered
    TokenInv
PROPERTIES
    AppliedStands
    LeaseRespected
    DeliversLedger
    EventuallyApplied
