------------------------------ MODULE Retrieval ------------------------------
(***************************************************************************)
(* The read path: RetrievalService.search (app/retrieve.py) over the       *)
(* in-memory store's dense order or its reciprocal-rank fusion with the    *)
(* BM25 order (app/vectorstore.py), the cut to the candidates, the         *)
(* reranker, and the scores of benchmark/eval.py.  Milvus fuses by the     *)
(* same formula on its server, which is external.                          *)
(*                                                                         *)
(* Of a collection and a query only the orders are kept: how the store     *)
(* ranks the chunks by cosine and by BM25, how the reranker would rank     *)
(* them by their texts, and which of them are relevant.                    *)
(***************************************************************************)
EXTENDS Naturals, Sequences, SequencesExt, Sorting

CONSTANTS
  Chunks,             \* chunks of the collections
  Requests,           \* requests; see RequestAssumption
  RrfK,               \* settings.rrf_k
  DefaultCandidates,  \* DEFAULT_RERANK_CANDIDATES
  Gain                \* 1 / log2(i + 1) at rank i, scaled to integers, for any k asked for

ASSUME RequestAssumption ==
  \A q \in Requests :
    /\ q.dense \in Seq(Chunks) /\ q.sparse \in Seq(Chunks) /\ q.taste \in Seq(Chunks)
    /\ IsInjective(q.dense) /\ IsInjective(q.sparse)
    /\ ToSet(q.sparse) \subseteq ToSet(q.dense)  \* the dense order has the whole collection
    /\ IsInjective(q.taste) /\ ToSet(q.taste) = ToSet(q.dense)
    /\ q.relevant \subseteq ToSet(q.dense) /\ q.relevant # {}
    /\ q.k \in Nat \ {0}                         \* body.k or settings.retrieval_top_k
    /\ q.candidates \in Nat                      \* 0 is None
    /\ q.hybrid \in BOOLEAN
    /\ q.rerank \in BOOLEAN                      \* asked for, and the reranker is a real one
ASSUME DepthAssumption == RrfK \in Nat /\ DefaultCandidates \in Nat \ {0}
ASSUME GainAssumption ==
  /\ Gain \in Seq(Nat \ {0}) /\ \A q \in Requests : q.k <= Len(Gain)
  /\ \A i \in 2 .. Len(Gain) : Gain[i] < Gain[i - 1]

VARIABLES
  pc,       \* where the request is
  request,  \* the request
  hits,     \* what the store has returned
  answer,   \* what search() returns
  score     \* recall, reciprocal rank and nDCG: <<numerator, denominator>>

vars == <<pc, request, hits, answer, score>>

Smaller(m, n)    == IF m < n THEN m ELSE n
Prefix(s, n)     == SubSeq(s, 1, Smaller(n, Len(s)))
RankIn(x, order) == CHOOSE i \in DOMAIN order : order[i] = x

\* _rrf(): the sum of 1 / (rrf_k + rank) over the orders that have x, as a fraction.
Fraction(x, dense, sparse) ==
  LET a == RrfK + RankIn(x, dense)
      b == RrfK + RankIn(x, sparse)
  IN  IF x \in ToSet(sparse) THEN <<a + b, a * b>> ELSE <<1, a>>

\* Mutation: the second order's score replaces the first's.
FractionOverwritten(x, dense, sparse) ==
  IF x \in ToSet(sparse) THEN <<1, RrfK + RankIn(x, sparse)>> ELSE <<1, RrfK + RankIn(x, dense)>>

RrfScore(x, dense, sparse) == Fraction(x, dense, sparse)

\* Mutation: the two orders one after the other.
Appended(dense, sparse) == dense \o sparse

\* Best first; a stable sort of a dictionary that was filled in the dense order.
Higher(s, t) == s[1] * t[2] > t[1] * s[2]
Outranks(x, y, dense, sparse) ==
  LET s == RrfScore(x, dense, sparse)
      t == RrfScore(y, dense, sparse)
  IN  Higher(s, t) \/ (~Higher(t, s) /\ RankIn(x, dense) < RankIn(y, dense))
Fused(dense, sparse) ==
  Sorted(ToSet(dense),
         {p \in ToSet(dense) \X ToSet(dense) : Outranks(p[1], p[2], dense, sparse)})

StoreOrder(q) == IF q.hybrid THEN Fused(q.dense, q.sparse) ELSE q.dense

\* How deep the reranker may look: candidate_k or DEFAULT_RERANK_CANDIDATES.
Candidates(q) == IF q.candidates = 0 THEN DefaultCandidates ELSE q.candidates

\* Mutation: only as many candidates as results.
DepthK(q) == q.k
Depth(q)  == IF q.rerank THEN Candidates(q) ELSE q.k

\* One request; requests share nothing that they change.
Init ==
  /\ pc = "search"
  /\ request \in Requests
  /\ hits = <<>> /\ answer = <<>> /\ score = <<>>

Search ==
  /\ pc = "search"
  /\ hits' = Prefix(StoreOrder(request), Depth(request))
  /\ pc' = "order"
  /\ UNCHANGED <<request, answer, score>>

Liked(taste) == {p \in ToSet(taste) \X ToSet(taste) : RankIn(p[1], taste) < RankIn(p[2], taste)}

\* The provider is asked for the best top_n of the candidates; they are sorted by score.
Rerank ==
  /\ pc = "order"
  /\ request.rerank
  /\ answer' = Prefix(Sorted(ToSet(hits), Liked(request.taste)), request.k)
  /\ pc' = "score"
  /\ UNCHANGED <<request, hits, score>>

Keep ==
  /\ pc = "order"
  /\ ~request.rerank
  /\ answer' = Prefix(hits, request.k)
  /\ pc' = "score"
  /\ UNCHANGED <<request, hits, score>>

Relevant(ranked) == {i \in DOMAIN ranked : ranked[i] \in request.relevant}

RecallAtK(ranked) == <<Cardinality(ToSet(ranked) \cap request.relevant),
                       Cardinality(request.relevant)>>
MrrAtK(ranked)    == IF Relevant(ranked) = {} THEN <<0, 1>>
                     ELSE <<1, CHOOSE i \in Relevant(ranked) :
                                 \A j \in Relevant(ranked) : i <= j>>
\* The gains of the ranks of S, summed up to each of the first n ranks.
GainTo(S, n)      == LET upTo[i \in 0 .. n] ==
                           IF i = 0 THEN 0 ELSE upTo[i - 1] + (IF i \in S THEN Gain[i] ELSE 0)
                     IN  upTo
NdcgAtK(ranked)   == LET ideal == Smaller(Cardinality(request.relevant), request.k)
                     IN  <<GainTo(Relevant(ranked), Len(ranked))[Len(ranked)],
                           GainTo(1 .. ideal, ideal)[ideal]>>

Score ==
  /\ pc = "score"
  /\ score' = <<RecallAtK(answer), MrrAtK(answer), NdcgAtK(answer)>>
  /\ pc' = "done"
  /\ UNCHANGED <<request, hits, answer>>

Next == Search \/ Rerank \/ Keep \/ Score

Spec == Init /\ [][Next]_vars

--------------------------------------------------------------------------------
(* Properties.                                                                 *)

\* x is above y in an order, or alone in it.
Above(x, y, order) ==
  x \in ToSet(order) /\ (y \in ToSet(order) => RankIn(x, order) < RankIn(y, order))

\* Fusion agrees where its orders agree: a chunk is not found behind, or in place of, one
\* that both retrieval modes rank above it (_rrf() sums, so that a chunk only gains by being
\* in a second order).
FusionRespectsBoth ==
  (pc = "order" /\ request.hybrid) =>
    \A x \in ToSet(request.dense), y \in ToSet(hits) :
      (Above(x, y, request.dense) /\ Above(x, y, request.sparse)) => Above(x, y, hits)

\* "it must be wider than k" (retrieve.py:24): a reranked answer has the k chunks the reranker
\* likes best among the first candidates, in its order, not a new order of the k chunks the
\* store ranks first; and it is shorter than k only if there are fewer candidates.
BestCandidates ==
  (pc = "score" /\ request.rerank) =>
    LET pool == ToSet(Prefix(StoreOrder(request), Candidates(request))) IN
    /\ Len(answer) = Smaller(request.k, Cardinality(pool))
    /\ \A x \in pool, i \in DOMAIN answer :
         RankIn(x, request.taste) < RankIn(answer[i], request.taste)
           => \E j \in 1 .. i - 1 : answer[j] = x

\* recall@k, MRR and nDCG@k are fractions of 1 which agree on whether anything was found, and
\* nDCG is 1 just for an answer that begins with all relevant chunks that k admits.  This rests on search()
\* never returning a chunk twice, fused or reranked.
ScoresAreFractions ==
  score # <<>> =>
    /\ \A i \in 1 .. 3 : score[i][1] <= score[i][2]
    /\ \A i, j \in 1 .. 3 : score[i][1] = 0 => score[j][1] = 0
    /\ score[3][1] = score[3][2]
         <=> Relevant(answer) = 1 .. Smaller(Cardinality(request.relevant), request.k)
=============================================================================
