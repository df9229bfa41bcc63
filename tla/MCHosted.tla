------------------------------ MODULE MCHosted ------------------------------
(* Instances of HostedService for TLC. *)
EXTENDS HostedService

CONSTANTS a1, a2, q1, q2, q3, d1, p1, p2

TwoSendOne == [q \in Requests |-> IF q = q3 THEN a2 ELSE a1]

Scene(who, n, f) == [who |-> who, foreign |-> n, faults |-> f]

\* Duplicates of an Add and a delete; another process beside them; a Search
\* beside an Add, a delete and another Search; every slot taken, two Adds queued;
\* an Add that finds the queue full, behind another one and a delete.
Cast ==
    {Scene({q1, q2, d1}, 0, 1), Scene({q1, d1}, 1, 1), Scene({q1, p1}, 1, 1),
     Scene({q1, d1, p1}, 0, 0), Scene({d1, p1}, 1, 0), Scene({q1, p1, p2}, 0, 0),
     Scene({p1, p2}, 2, 0), Scene({q1, q2, q3}, 0, 0), Scene({q1, q3, d1}, 0, 0)}
=============================================================================
