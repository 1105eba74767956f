------------------------------- MODULE MCTables -------------------------------
(* Two rows of two files, of one batch or of none, on a clock of three units, one of    *)
(* which may pass between create() and bump_total() and within any commit.              *)
EXTENDS Tables, TLC

\* Which file is which does not matter to any property.
FileSymmetry == Permutations(Files)
=============================================================================
