--------------------------- MODULE MCControlPlane ---------------------------
(* Instances of ControlPlane for TLC. *)
EXTENDS ControlPlane

CONSTANTS g1, g2, s1, x1, f1, r1, o1

OneSource == {{s1}}

=============================================================================
