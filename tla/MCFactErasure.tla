-------------------------- MODULE MCFactErasure --------------------------
(* Two memos that state one fact, one of them as a statement, and a request.*)
EXTENDS FactErasure

CONSTANTS m1, m2, f1, a1, s1

OneFact == [m \in {m1, m2} |-> {f1}]
Claims == [r \in {a1, s1} |-> f1]
Staters == [r \in {s1} |-> m1]
=============================================================================
