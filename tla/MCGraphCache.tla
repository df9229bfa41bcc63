---------------------------- MODULE MCGraphCache ----------------------------
(* Small instances of GraphCache for TLC. *)
EXTENDS GraphCache
=============================================================================
