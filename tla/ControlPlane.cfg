SPECIFICATION FairSpec
CONSTANTS
    g1 = g1
    g2 = g2
    s1 = s1
    x1 = x1
    f1 = f1
    r1 = r1
    o1 = o1
    Nil = Nil
    Gens = {g1, g2}
    First = g1
    Tables = {g2}
    Shadows = {g2, Nil}
    Sources = {s1}
    Loads <- OneSource
    Requests <- OneSource
    Indexers = {x1}
    Forgetters = {f1}
    Replayers = {r1}
    Operators = {o1}
    AllowDivergent = TRUE
    MaxBatches = 2
    MaxForgets = 1
    MaxCommands = 1
    MaxFaults = 1
PROPERTIES ReplayNeverRestores CutoverCarriesEveryWrite EventuallyDrained
CHECK_DEADLOCK FALSE
