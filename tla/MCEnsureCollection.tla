------------------------- MODULE MCEnsureCollection -------------------------
(* A small instance of EnsureCollection for TLC. *)
EXTENDS EnsureCollection
=============================================================================
