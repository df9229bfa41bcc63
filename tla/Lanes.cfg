CONSTANTS
    w1 = w1
    w2 = w2
    w3 = w3
    Workers = {w1, w2, w3}
    PidOf <- Siblings
    Jobs <- Tasks
    refresh = refresh
    write = write
    Purposes = {refresh, write}
    Coalescing = {refresh}
    MaxRequests = 4
    MaxFaults = 2
    Nil = Nil
SPECIFICATION FairSpec
CHECK_DEADLOCK FALSE
PROPERTIES
    FirstComeFirstServed
    CoalescedIsServed
    WaitersServed
