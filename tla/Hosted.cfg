SPECIFICATION FairSpec
CONSTANTS
    a1 = a1
    a2 = a2
    q1 = q1
    q2 = q2
    q3 = q3
    d1 = d1
    p1 = p1
    p2 = p2
    Nil = Nil
    Adds = {a1, a2}
    Requests = {q1, q2, q3}
    AddOf <- TwoSendOne
    Deletes = {d1}
    Searches = {p1, p2}
    FlightSlots = 2
    MaxWaiters = 1
    Scenarios <- Cast
INVARIANTS TypeOK AckedIsStored SearchIsFresh SlotsConserved
PROPERTIES ReceiptIsFinal EveryoneIsTold
CHECK_DEADLOCK FALSE
