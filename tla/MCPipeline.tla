------------------------------ MODULE MCPipeline ------------------------------
(* Two documents of any modes, of one batch to the embedder or of two.            *)
EXTENDS Pipeline, TLC

\* Which document is which does not matter to any invariant.
DocSymmetry == Permutations(Docs)
=============================================================================
