CONSTANTS
    Sources = {s1, s2}
    Threads = {t1, t2}
    MaxEntries = 1
    MaxVersion = 0
    MaxErrors = 1
    Nil = Nil
SPECIFICATION FairSpec
INVARIANTS
    NoErasedGraph
    OneFlight
PROPERTIES
    WaitersReturn
    RefusalsHeal
