------------------------------- MODULE Pipeline -------------------------------
(***************************************************************************)
(* What _process() of app/ingest.py makes of a document, call by call: a   *)
(* profile, a context for the chunks, batches of texts to the embedder,    *)
(* entities of a collection, rows of `chunks`.  Several documents are in   *)
(* the pipeline at once, in threads of the worker pool, and share stores   *)
(* with their readers: POST /query, which searches the collection and then *)
(* looks up the texts in Postgres, and the scorer of an ingested batch     *)
(* (benchmark/score_existing.py), which does it the other way round.       *)
(* Queue, statuses and kills are in BulkIngest, what a search ranks in     *)
(* Retrieval, how a text is cut into chunks in Chunking.                   *)
(***************************************************************************)
EXTENDS Naturals, Sequences, FiniteSets

CONSTANTS
  Docs,        \* documents in the pipeline
  MaxPieces,   \* bound: chunks of a document
  EmbedBatch,  \* EMBED_BATCH
  Queries,     \* requests to POST /query
  TopK,        \* k
  Candidates,  \* settings.rerank_candidates
  EmbedModel,  \* the embedder's model
  EmbedDim,    \* the dimension of its vectors
  QueryModel,  \* settings.embedding_model, as it is configured
  DenseDim,    \* settings.dense_dim
  Hybrid,      \* settings.retrieval_mode = "hybrid"
  MaxFaults    \* bound: calls that raise

ContextModes == {"none", "per_chunk", "per_document"}

ASSUME SizeAssumption ==
  /\ MaxPieces \in Nat /\ EmbedBatch \in Nat \ {0}
  /\ TopK \in Nat /\ Candidates \in Nat /\ MaxFaults \in Nat /\ Hybrid \in BOOLEAN

VARIABLES
  mode,      \* context_mode of a document's batch
  pieces,    \* its number of chunks
  run,       \* the run of _process(): its place, texts, vectors and metrics
  status,    \* documents.status
  total,     \* the totals that _process() returned
  stored,    \* entities of the collections
  chunks,    \* rows of `chunks`
  query,     \* requests
  scorer,    \* the run of score_existing
  faults     \* calls that have raised so far

pipeline == <<mode, pieces, run, status, total, stored, chunks, faults>>
vars     == <<mode, pieces, run, status, total, stored, chunks, query, scorer, faults>>

--------------------------------------------------------------------------------
(* Data.  A text is told by its chunk and by the chunks that its context is about.         *)

Id(d, i) == <<d, i>>
Text(d, i, about) == [doc |-> d, index |-> i, about |-> about]

\* enrich_chunk() without an LLM and with one; append_document_context().
Bare(d, i)     == Text(d, i, {})
Situated(d, i) == Text(d, i, {i})
InBlock(d, i)  == Text(d, i, 1 .. pieces[d])

\* The embedder tells texts apart, and charges a token for the chunk, another for a context.
Embedding(text) == [of |-> text]
Tokens(batch) == Len(batch) + Cardinality({i \in DOMAIN batch : batch[i].about # {}})

\* What a provider may answer: the embeddings in any order, each with its index.
Orders(n) == {p \in [1 .. n -> 1 .. n] : \A i, j \in 1 .. n : p[i] = p[j] => i = j}
Response(batch, p) ==
  [i \in DOMAIN batch |-> [index |-> p[i], embedding |-> Embedding(batch[p[i]])]]

\* Mutation: the answer is taken as it comes.
AsReturned(rows) == [i \in DOMAIN rows |-> rows[i].embedding]
\* embed() sorts the answer by index.
InOrder(rows) ==
  [i \in DOMAIN rows |->
    LET j == CHOOSE j \in DOMAIN rows : rows[j].index = i IN rows[j].embedding]

CollectionFor(model, dim, context, hybrid) ==
  [model |-> model, dim |-> dim, context |-> context, hybrid |-> hybrid]

\* The collection that documents of a context mode are stored in, the one that a query for the
\* mode reads, which may ask for either retrieval mode, and the one that is scored for it.
Filled(m)          == CollectionFor(EmbedModel, EmbedDim, m, Hybrid)
Queried(m, hybrid) == CollectionFor(QueryModel, DenseDim, m, hybrid)
ScoredName(m)      == CollectionFor(EmbedModel, DenseDim, m, FALSE)

Names == {Filled(m) : m \in ContextModes} \cup {ScoredName(m) : m \in ContextModes}
         \cup {Queried(m, h) : m \in ContextModes, h \in BOOLEAN}

NoTotals == [llm |-> 0, embed |-> 0]

Init ==
  /\ mode \in [Docs -> ContextModes] /\ pieces \in [Docs -> 1 .. MaxPieces]
  /\ run = [d \in Docs |-> [pc |-> "profile", texts |-> << >>, vectors |-> << >>,
                            sent |-> 0, llm |-> 0, embed |-> 0]]
  /\ status = [d \in Docs |-> "processing"]
  /\ total = [d \in Docs |-> NoTotals]
  /\ stored = [n \in Names |-> {}]
  /\ chunks = {}
  /\ query = [q \in Queries |-> [pc |-> "new"]]
  /\ scorer = [pc |-> "new"]
  /\ faults = 0

--------------------------------------------------------------------------------
(* The pipeline.                                                               *)

Go(d, from, to)  == run[d].pc = from /\ run' = [run EXCEPT ![d].pc = to]
TablesUnchanged  == UNCHANGED <<mode, pieces, status, total, stored, chunks, faults>>
ReadersUnchanged == UNCHANGED <<query, scorer>>

\* profile_document(): one call, or none in the control.
Profile(d) ==
  /\ run[d].pc = "profile"
  /\ run' = [run EXCEPT ![d].pc = "context", ![d].llm = IF mode[d] = "none" THEN @ ELSE @ + 1]
  /\ TablesUnchanged /\ ReadersUnchanged

EnrichBare(d) ==
  /\ run[d].pc = "context" /\ mode[d] = "none"
  /\ run' = [run EXCEPT ![d].pc = "embed",
                        ![d].texts = [i \in 1 .. pieces[d] |-> Bare(d, i)]]
  /\ TablesUnchanged /\ ReadersUnchanged

\* One call for each chunk.
EnrichChunk(d) ==
  LET i == Len(run[d].texts) + 1 IN
  /\ run[d].pc = "context" /\ mode[d] = "per_chunk"
  /\ run' = [run EXCEPT ![d].pc = IF i = pieces[d] THEN "embed" ELSE @,
                        ![d].texts = Append(@, Situated(d, i)),
                        ![d].llm = @ + 1]
  /\ TablesUnchanged /\ ReadersUnchanged

\* Mutation: the block's usage is attributed to every chunk.
EnrichDocumentPerChunk(d) ==
  /\ run[d].pc = "context" /\ mode[d] = "per_document"
  /\ run' = [run EXCEPT ![d].pc = "embed",
                        ![d].texts = [i \in 1 .. pieces[d] |-> InBlock(d, i)],
                        ![d].llm = @ + pieces[d]]
  /\ TablesUnchanged /\ ReadersUnchanged

\* One call for the document, whose block is put before every chunk.
EnrichDocument(d) ==
  /\ run[d].pc = "context" /\ mode[d] = "per_document"
  /\ run' = [run EXCEPT ![d].pc = "embed",
                        ![d].texts = [i \in 1 .. pieces[d] |-> InBlock(d, i)],
                        ![d].llm = @ + 1]
  /\ TablesUnchanged /\ ReadersUnchanged

\* The slice of the texts that the next call embeds; it is short at the end.
NextBatch(d) ==
  LET texts == run[d].texts
      last  == run[d].sent + EmbedBatch
  IN  SubSeq(texts, run[d].sent + 1, IF last < Len(texts) THEN last ELSE Len(texts))

\* Mutation: each batch's vectors replace the ones before.
EmbedReplacing(d) ==
  LET batch == NextBatch(d) IN
  /\ run[d].pc = "embed" /\ run[d].sent < Len(run[d].texts)
  /\ \E p \in Orders(Len(batch)) :
       run' = [run EXCEPT ![d].vectors = InOrder(Response(batch, p)),
                          ![d].sent = @ + EmbedBatch,
                          ![d].embed = @ + Tokens(batch)]
  /\ TablesUnchanged /\ ReadersUnchanged

Embed(d) ==
  LET batch == NextBatch(d) IN
  /\ run[d].pc = "embed" /\ run[d].sent < Len(run[d].texts)
  /\ \E p \in Orders(Len(batch)) :
       run' = [run EXCEPT ![d].vectors = @ \o InOrder(Response(batch, p)),
                          ![d].sent = @ + EmbedBatch,
                          ![d].embed = @ + Tokens(batch)]
  /\ TablesUnchanged /\ ReadersUnchanged

\* upsert() zips ids, vectors and texts: it stops at the end of the shortest.
Entities(d) ==
  {[id |-> Id(d, i), vector |-> run[d].vectors[i], text |-> run[d].texts[i]] :
     i \in DOMAIN run[d].texts \cap DOMAIN run[d].vectors}

\* Rows or entities replace those of the same id.
Replaced(old, new) == {x \in old : \A y \in new : x.id # y.id} \cup new

Upsert(d) ==
  /\ Go(d, "embed", "persist") /\ run[d].sent >= Len(run[d].texts)
  /\ stored' = [stored EXCEPT ![Filled(mode[d])] = Replaced(@, Entities(d))]
  /\ UNCHANGED <<mode, pieces, status, total, chunks, faults>> /\ ReadersUnchanged

\* insert_many(), in one transaction.
Persist(d) ==
  /\ Go(d, "persist", "finish")
  /\ chunks' = Replaced(chunks, {[id |-> Id(d, i), text |-> run[d].texts[i]] :
                                   i \in DOMAIN run[d].texts})
  /\ UNCHANGED <<mode, pieces, status, total, stored, faults>> /\ ReadersUnchanged

\* Mutation: the rows of the chunks are not waited for.
SetReadyEarly(d) ==
  /\ Go(d, "persist", "done")
  /\ status' = [status EXCEPT ![d] = "ready"]
  /\ total' = [total EXCEPT ![d] = [llm |-> run[d].llm, embed |-> run[d].embed]]
  /\ UNCHANGED <<mode, pieces, stored, chunks, faults>> /\ ReadersUnchanged

SetReady(d) ==
  /\ Go(d, "finish", "done")
  /\ status' = [status EXCEPT ![d] = "ready"]
  /\ total' = [total EXCEPT ![d] = [llm |-> run[d].llm, embed |-> run[d].embed]]
  /\ UNCHANGED <<mode, pieces, stored, chunks, faults>> /\ ReadersUnchanged

\* Any call may raise: the document fails, without totals and with what it has stored.
Raises(d) ==
  /\ run[d].pc # "done" /\ faults < MaxFaults
  /\ faults' = faults + 1
  /\ run' = [run EXCEPT ![d].pc = "done"]
  /\ status' = [status EXCEPT ![d] = "failed"]
  /\ UNCHANGED <<mode, pieces, total, stored, chunks>> /\ ReadersUnchanged

Process(d) ==
  \/ Profile(d) \/ EnrichBare(d) \/ EnrichChunk(d) \/ EnrichDocument(d) \/ Embed(d)
  \/ Upsert(d) \/ Persist(d) \/ SetReady(d) \/ Raises(d)

--------------------------------------------------------------------------------
(* POST /query.                                                                *)

Found(table) == {x.id : x \in table}
Sized(n, S)  == {H \in SUBSET S : Cardinality(H) = IF n < Cardinality(S) THEN n ELSE Cardinality(S)}

\* What a search may be answered from: a dense one asks for strong consistency, a hybrid one
\* may miss what was just upserted.
Visible(n) == IF n.hybrid THEN SUBSET stored[n] ELSE {stored[n]}

\* The search, whatever the similarities are; a collection that is missing has nothing.
\* `ready` is history: what the service had announced by then.
Search(q) ==
  /\ query[q].pc = "new"
  /\ \E m \in ContextModes, hybrid, rerank \in BOOLEAN :
     \E entities \in Visible(Queried(m, hybrid)) :
     \E hits \in Sized(IF rerank THEN Candidates ELSE TopK, Found(entities)) :
       query' = [query EXCEPT ![q] =
                  [pc |-> "resolve", hits |-> hits, left |-> hits, found |-> {}, seen |-> {},
                   ready |-> {d \in Docs : status[d] = "ready"}]]
  /\ UNCHANGED pipeline /\ UNCHANGED scorer

\* get_by_ids(): a statement for each id, and each sees what is committed by then.
GetRow(q) ==
  /\ query[q].pc \in {"resolve", "cite"}
  /\ \E id \in query[q].left :
       query' = [query EXCEPT ![q].left = @ \ {id},
                              ![q].found = @ \cup ({id} \cap Found(chunks))]
  /\ UNCHANGED pipeline /\ UNCHANGED scorer

\* The reranker's choice among the candidates, or the first k; then the rows are read again.
Rank(q) ==
  /\ query[q].pc = "resolve" /\ query[q].left = {}
  /\ \E kept \in Sized(TopK, query[q].hits) :
       query' = [query EXCEPT ![q].pc = "cite", ![q].hits = kept, ![q].left = kept,
                              ![q].seen = query[q].found, ![q].found = {}]
  /\ UNCHANGED pipeline /\ UNCHANGED scorer

\* The answer has been put together.
Answered(q) == query[q].pc = "cite" /\ query[q].left = {}

--------------------------------------------------------------------------------
(* score_existing.                                                             *)

\* The ready documents of a batch, which has one context mode; the command line names the
\* context mode to score.
ListBatch ==
  /\ scorer.pc = "new"
  /\ \E batch, m \in ContextModes :
     LET docs == {d \in Docs : mode[d] = batch /\ status[d] = "ready"} IN
       scorer' = [pc |-> "list", batch |-> batch, mode |-> m, docs |-> docs, left |-> docs,
                  gold |-> {}, searched |-> {}]
  /\ UNCHANGED pipeline /\ UNCHANGED query

\* Any chunk may be relevant.
ListChunks ==
  /\ scorer.pc = "list"
  /\ \E d \in scorer.left :
       scorer' = [scorer EXCEPT !.left = @ \ {d},
                                !.gold = @ \cup {id \in Found(chunks) : id[1] = d}]
  /\ UNCHANGED pipeline /\ UNCHANGED query

Score ==
  /\ scorer.pc = "list" /\ scorer.left = {}
  /\ scorer' = [scorer EXCEPT !.pc = "scored", !.searched = Found(stored[ScoredName(scorer.mode)])]
  /\ UNCHANGED pipeline /\ UNCHANGED query

Next ==
  \/ \E d \in Docs : Process(d)
  \/ \E q \in Queries : Search(q) \/ GetRow(q) \/ Rank(q)
  \/ ListBatch \/ ListChunks \/ Score

Spec == Init /\ [][Next]_vars

--------------------------------------------------------------------------------
(* Properties.                                                                 *)

\* Batches, their answers and three lists that are zipped stay aligned: every entity is the
\* embedding of its own chunk, with the context of its collection's mode, and Postgres
\* cites the text that was embedded.
StoresAgree ==
  \A n \in Names : \A e \in stored[n] :
    LET d == e.id[1]
        i == e.id[2]
    IN  /\ n = Filled(mode[d])
        /\ e.text = CASE n.context = "none"         -> Bare(d, i)
                      [] n.context = "per_chunk"    -> Situated(d, i)
                      [] n.context = "per_document" -> InBlock(d, i)
        /\ e.vector = Embedding(e.text)
        /\ \A row \in chunks : row.id = e.id => row.text = e.text

\* "trades N calls/doc for ~1" (contextual.py:23), in the totals of a ready document: what it
\* is billed is the calls its mode needs, each once, and the tokens of all its chunks.
TotalsAreTheCalls ==
  \A d \in Docs : status[d] = "ready" =>
    total[d] = CASE mode[d] = "none"         -> [llm |-> 0, embed |-> pieces[d]]
                 [] mode[d] = "per_chunk"    -> [llm |-> 1 + pieces[d], embed |-> 2 * pieces[d]]
                 [] mode[d] = "per_document" -> [llm |-> 2, embed |-> 2 * pieces[d]]

\* An answer cites the text of every hit of a document that was ready at the search, and of
\* every hit whose text the reranker was given.  Others may have none: their document is
\* between upsert and persist, or has failed there and stays searchable.
AnswersAreCited ==
  \A q \in Queries : Answered(q) =>
    \A id \in query[q].hits : (id[1] \in query[q].ready \/ id \in query[q].seen)
                                => id \in query[q].found

\* "This scorer queries that store directly" (score_existing.py:5), as far as it holds: every
\* chunk of the batch's ready documents is among the labels, and is in the collection that is
\* scored exactly if the two names agree.  They do not if the batch has another context mode,
\* in a hybrid deployment, or if settings.dense_dim is not the dimension of the vectors: then
\* every label is scored as missed.
GoldIsSearchable ==
  scorer.pc = "scored" =>
    \A d \in scorer.docs : \A i \in 1 .. pieces[d] :
      /\ Id(d, i) \in scorer.gold
      /\ Id(d, i) \in scorer.searched <=> ScoredName(scorer.mode) = Filled(scorer.batch)
=============================================================================
