-------------------------------- MODULE Sorting --------------------------------
(* Sets in the order of a relation, a set of pairs that is a strict total order on them. *)
EXTENDS Naturals, Sequences, FiniteSets

Below(x, things, before) == {y \in things : <<y, x>> \in before}
Sorted(things, before) ==
  [i \in 1 .. Cardinality(things) |->
     CHOOSE x \in things : Cardinality(Below(x, things, before)) = i - 1]
===============================================================================
