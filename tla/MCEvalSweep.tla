------------------------------ MODULE MCEvalSweep ------------------------------
(* The matrix of benchmark/matrix.py, cut down to what its names tell apart.      *)
EXTENDS EvalSweep, TLC

Combo(llm, model, dim, context) ==
  [llm |-> llm, model |-> model, dim |-> dim, context |-> context]

\* haiku and sonnet with voyage-law-2 have one name but for the suffix; the second leaves its
\* dimension to the provider, which returns the deployment's.
Baseline == Combo(TRUE, "law", 2, "per_chunk")
OtherLLM == Combo(TRUE, "law", NoDim, "per_chunk")
MCDims   == [law |-> 2]

MCCombos   == <<Baseline, OtherLLM>>
HybridOnly == <<"hybrid">>
Once       == <<FALSE>>

\* Which execution is which does not matter to any invariant.
SweepSymmetry == Permutations(Sweeps)
=============================================================================
