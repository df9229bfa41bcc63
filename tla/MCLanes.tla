------------------------------ MODULE MCLanes ------------------------------
(* Small instances of LiteLanes for TLC. *)
EXTENDS LiteLanes
CONSTANTS w1, w2, w3, refresh, write

\* two threads of one process, the third in another
Siblings == [w \in Workers |-> IF w = w3 THEN w3 ELSE w1]

\* a thread that writes; one beside it and one elsewhere that refresh
Tasks == [w \in Workers |-> IF w = w1 THEN {write} ELSE {refresh}]
=============================================================================
