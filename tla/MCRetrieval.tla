------------------------------ MODULE MCRetrieval ------------------------------
(* Every query over collections of up to four chunks.                            *)
EXTENDS Retrieval

CONSTANTS Sizes, Ks, Depths

Orders(S) == UNION {{s \in [1 .. n -> S] : IsInjective(s)} : n \in 0 .. Cardinality(S)}
Full(S)   == {s \in Orders(S) : Len(s) = Cardinality(S)}

\* Chunks are named by their dense rank.
MCChunks == UNION {1 .. n : n \in Sizes}
Dense(n) == [i \in 1 .. n |-> i]
AllRequests(n) ==
  [dense : {Dense(n)}, sparse : Orders(1 .. n), taste : Full(1 .. n),
   relevant : SUBSET (1 .. n) \ {{}}, k : Ks, candidates : Depths,
   hybrid : BOOLEAN, rerank : BOOLEAN]

\* Those that differ in what the request does not use are one.
MCRequests ==
  {q \in UNION {AllRequests(n) : n \in Sizes} :
     /\ q.hybrid \/ q.sparse = <<>>
     /\ q.rerank \/ (q.taste = q.dense /\ q.candidates = 0)}

MCGain == <<1000, 631, 500, 431, 387, 356>>
=============================================================================
