SPECIFICATION FairSpec
CONSTANTS
    m1 = m1
    m2 = m2
    f1 = f1
    a1 = a1
    s1 = s1
    Memos = {m1, m2}
    Facts = {f1}
    States <- OneFact
    Applied = {a1}
    Stated = {s1}
    Claim <- Claims
    Stater <- Staters
    Citations = {{m1}, {m1, m2}}
    Appliers = {"p1"}
    Reconcilers = {"q1"}
    MaxCalls = 3
    MaxFaults = 1
    Nil = Nil
INVARIANTS
    TypeOK
    ErasedFactsStayErased
PROPERTIES
    RetractionsAreDecided
    ForgetIsServed
