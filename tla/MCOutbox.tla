----------------------------- MODULE MCOutbox -----------------------------
(* Small instances of MaterializationOutbox for TLC. *)
EXTENDS MaterializationOutbox

CONSTANTS e1, e2, c1, c2, r1
=============================================================================
