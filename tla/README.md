# A TLA+ verification of the contextual-RAG backend

The backend (`src/backend`) ingests documents for retrieval with contextual
embeddings: it stores an uploaded file, profiles and chunks its text, enriches and
embeds the chunks, writes them to Milvus and Postgres, and answers queries. This
directory holds TLA+ models of its concurrent core, the TLC configurations that
check them, and TLAPS proofs of what matters most. `PROJECT.json` is the index: which
definition models which lines, which run checks what, which hazards are covered.

    tlc -workers 2 -config MCBulkIngest_safety.cfg MCBulkIngest
    tlapm BulkIngestProofs.tla

## 1. Inventory

| Part | State | Operations | What is hard |
|---|---|---|---|
| Bulk upload (`app/routers/batches.py`) | `documents`, `batches`, blobs, the queue | create batch, add document (look-up, dedup, blob put, row create, bump, enqueue), summary | check-then-insert without a unique constraint; a handler dying between two stores; backpressure |
| Single upload (`app/routers/documents.py`) | the same tables | the whole pipeline inline, on the event loop | everything else waits for it |
| Worker pool (`app/worker.py`) | `asyncio.Queue`, worker tasks, a thread pool | start, enqueue, take, run, report, drain, stop | `task_done` accounting, drain against in-flight jobs, a queue lost with the process |
| Pipeline (`app/ingest.py`) | three stores written in turn, the status | `ingest`, `process_existing`, `_process` | which failures are caught, `ready` before the metrics |
| Enrichment and providers (`app/contextual.py`, `app/profile.py`, `app/embeddings.py`, `app/llm.py`) | none; texts, vectors and usage pass through | profile, situate a chunk, describe a document, embed a batch | batches and their answers stay aligned with the chunks, usage is counted once |
| Query endpoint (`app/routers/query.py`) | none | search, then look the texts up | two stores read at two moments, documents in between |
| Tables (`app/repository.py`, migrations) | `documents`, `batches`, `chunks`, `benchmark_runs`, `eval_runs` | one commit per call; `summary()` reads thrice | an answer made of three moments; a wall time made of stamps |
| Doubles of the tables (`InMemory*` in `app/repository.py`, used by the smoke scripts) | dictionaries and lists | the same calls | orders, limits and fallbacks that must be those of Postgres |
| Polling client (`scripts/e2e_bulk.py`) | what it has seen | upload all, poll, report | stale totals, a time-out with partial state |
| Vector store (`app/vectorstore.py`) | Milvus collections; the set `_ready` and a lock in each store object | `ensure_collection`, upsert, search, count, drop | double-checked locking, failures inside the lock, a second store object beside the first, `drop` beside users, hybrid searches that lag |
| Startup and shutdown (`app/main.py`) | the service objects | pre-warm, start pool, drain | what the pre-warm covers |
| Chunker (`app/chunk.py`) | none | sections, paragraphs, sentences, hard cut | sizes at the boundary |
| Retrieval (`app/retrieve.py`, `app/reranker.py`) | none | dense or hybrid search, RRF, rerank | candidate depth, ties |
| Collection names (`collection_for`, `query.py`, `benchmark/runner.py`) | none | a name from model, dimension, mode | writers and readers that disagree, systems that share |
| Evaluation (`benchmark/eval.py`) | one collection per combination | ingest, score, drop | sweeps at once, a failure between ingest and drop |
| Scorer of a batch (`benchmark/score_existing.py`) | none | list ready documents, label their chunks, search, score | labels from one store, hits from another, which it names by itself |
| Extraction, hashing, authentication, configuration, generators | none of their own | calls to libraries and services | they appear as calls that may raise |

**How they interact.** A handler writes blob, row and total, and puts a job on the
queue; a worker task takes it and runs its blocking calls in a thread, which write the
vector store, the chunks table and the row; the summary reads the rows while all this
goes on. Handlers and worker tasks share one event loop, threads run beside it.

**What makes it correct.** Uploads of the same bytes are ingested once; a row is owned
by one actor at a time and never lost without a failure; `ready` means complete; a
final status stays; the totals a poller compares cannot make it stop too early; a drain
waits for exactly the work there is; the threads of one store never clash over creating a
collection, and it is usable by whoever was told so; chunks lose nothing and keep their size; each vector is that of its
own text, under the id that its row has; an answer cites what it found; what is scored
is the corpus that was meant; the doubles answer what Postgres may, but for what is named;
the wall time of a batch rests when its rows do, and falls by no more than one upload takes.
Where the code promises less than that, the property says how far it goes.

## 2. The modules

### BulkIngest
The two upload endpoints, the pool and the pipeline. An upload request `u` is also the
name of the row it creates: each handler creates one row at most.

*Interleaving.* The handlers are coroutines whose store calls are synchronous, so that
a handler keeps the loop from one `await` to the next. `handler[u]` is its program
counter; `OnLoop` are the places between two awaits; whatever needs the loop (another
handler, a worker task taking or reporting a job) waits for `LoopFree`. The threads'
steps interleave with everything. That is exactly the atomicity dedup relies on: the
mutant that frees the loop there breaks `AtMostOneOriginal`. A single upload runs the
pipeline inline: the runner `EventLoop`, beside the runners `Workers`.

| Code | Actions |
|---|---|
| `create_batch` | `CreateBatch` |
| `add_document`, `upload_document` + `ingest()` up to the row | `Receive`, `Lookup`, `PutBlob`, `CreateRow`, `CreateDuplicateRow`, `BumpTotal`, `Enqueue`, `BlockOnQueue`, `HandlerRaises` |
| `_worker`, `_run_blocking` | `Get`, `ReadBlob`, `MarkProcessing`, `Record`, `JobRaises`, `TaskDone` |
| `_process` | `Profile`, `Upsert`, `InsertChunks`, `SetReady`, `StageRaises`; its caller's except clause: `SetFailed`, `InlineRaises` |
| `drain_and_stop`, lifespan | `BeginDrain`, `JoinReturns`, `InterruptJoin`, `ExecutorShutdown`, `Restart` |
| the process dies | `Kill` |

*Faults.* A store or provider call either takes effect and returns, or raises with no
effect (`MaxFaults` of them); a kill or an interrupted drain strikes `MaxKills` times.

*Abstractions.* Contents are compared by hash, hence equal or different. What profiling,
chunking, enrichment and embedding compute is not there, what they store is: the sets
`profiled`, `vectors`, `chunks`, `metered`. A lookup of an existing row ignores which
one it is. A call that raises after its commit was sent is not modelled.

### DocLifecycle
What the service promises of one row, without handlers, queue or workers: statuses in
their order, `ready` only over a complete document, `duplicate` only beside another row
of the same bytes, and every row settled in the end unless stranded. `BulkIngest`
implements it: `ImplementsLifecycle` maps `phase` to the status, `complete` to the three
stores and `stranded` to the unsettled rows nobody owns.

### BatchProgress
Extends BulkIngest with `GET /batches/{id}` and the client of `e2e_bulk.py`. The
endpoint runs in a thread and reads the total, the aggregate and the list in three
statements; an aggregate is kept as the rows it was taken over. The client waits for
all its uploads, polls until as many rows are terminal as the total says or it gives
up, then reports the next summary. One request is open at a time.

### EnsureCollection
`MilvusStore.ensure_collection` at the grain of its reads of `_ready`, the lock and the
server calls, and the lifespan's pre-warm. Milvus is external: it keeps collections
across restarts of the service, refuses to create one that exists, and may raise at any
call, a create with or without its effect.

Lock and `_ready` belong to a store object, and the service's is not the only one:
`run_combo` (`benchmark/runner.py:33`) builds one for each combination, in the service
(`POST /benchmark`) or in a process of its own, and its collections may be the service's.
`Stores` are the service's (named after the lifespan, `Main`) and one for each benchmark;
`StoreOf` tells whose a caller uses, and `maker` remembers who has created each collection.
A restart ends the benchmarks that ran inside the service and leaves those of the command
line. A collection is told by its dimension, context mode and layout; the deployment's
retrieval mode may change with a restart, a benchmark's collections are always dense.

| Code | Actions |
|---|---|
| who calls, and for which collection: lifespan, `_process`, `run_combo` | `Call` (with `MayAsk`) |
| `if name in self._ready` outside and inside of the lock | `FastCheck`, `Recheck` |
| `with self._lock` | `Acquire`; released in `Recheck`, `CreateCollection`, `AddReady`, `ServerRaises` |
| the server calls | `HasCollection`, `CreateCollection`, `LoadCollection`, `ServerRaises` |
| `_ready.add`, the return, what the caller does then | `AddReady`, `Use`, `Abandon` |
| a new process | `Restart` |

### Chunking
`chunk_text`, `_split_to_size` and `_split_sentences`, one action per round of each
loop. A text is a sequence of sections of paragraphs of sentences, of which only
lengths are kept. The regular expressions that find the structure are not modelled,
the arithmetic on `len()` is.

### EvalSweep
Who shares the collections of one Milvus server. A sweep (`run_eval`) goes through its
variants (combination, retrieval mode, reranked or not), and for each drops the
collection, ingests the gold files without dedup, searches and inserts a row of
`eval_runs`; `POST /eval/run` is a plain function, run in a thread, and the command line
is a process, so sweeps overlap. An element of `Sweeps` is one execution: a second one
that starts after the first is over is a re-run. Beside them `BenchmarkCombo` ingests
combination after combination, and `Upload` stands for an upload of the service, which
BulkIngest has in detail. A collection's name is the record of what `collection_for()`
puts into it, with the suffix; its content is the set of rows whose vectors it holds.
`Expected` is the name a sweep drops, `Target` the one it ingests into: they differ when a
combination leaves its dimension open and the provider's is not the deployment's.
`UploadName` is where an upload goes, `QueryName` what `POST /query` reads: the first from the
embedder, which completes the model's name and returns vectors of some dimension, the second
from the settings as they are. `SettingsAgree` says when these are the same; nothing in the
code sees to it. `Visible` is what a search may be answered from: a dense one asks for strong
consistency (`vectorstore.py:184`) and sees all, a hybrid one (201) may miss any of it.

| Code | Actions |
|---|---|
| `POST /eval/run`, loops of `run_eval` | `Start`, `Advance` and `End` (inside the others), `Skip` |
| `_score_combo` | `Drop`, `Search`, `Insert` |
| `_ingest_corpus` with `ingest()` | `CreateRow`, `Ensure`, `Make`, `Upsert`, `Finish`, `Fail` |
| what raises, and where it is caught | `IngestRaises`, `VariantRaises`, `InsertRaises`; `Kill` |
| `run_matrix` | `BenchmarkCombo` |

`drop()` is one step here: a drop that finds nothing and one that removes nothing are the
same. `beside` is a history variable: the sweeps that have overlapped another.

### Sorting
What `sorted(...)` and `ORDER BY` do: a set in the order of a relation, as a sequence.
`Retrieval` and `Tables` share it. It is defined by counting what is below an element,
without recursion or folds, so that it can be proved about.

### Retrieval
`RetrievalService.search` with the in-memory store's order or fusion, the cut to the
candidates, the reranker, and the three scores. Similarities are not computed: a request
carries the dense order, the BM25 order (of the chunks with a positive score), the order
the reranker would choose and the relevant chunks. Fractions are compared exactly.

### Pipeline
What `_process` makes of a document, below the grain of BulkIngest: the calls to the LLM
and the embedder one by one, the texts, vectors, entities and rows, and the two readers
that combine stores: `POST /query` and `score_existing`.

| Code | Actions |
|---|---|
| `profile_document` | `Profile` |
| enrichment in the three context modes | `EnrichBare`, `EnrichChunk`, `EnrichDocument` |
| the loop of batches, `LiteLLMEmbedder.embed` | `Embed` (with `NextBatch`, `Response`, `InOrder`) |
| `upsert`, `insert_many`, the end of `_process` | `Upsert`, `Persist`, `SetReady` |
| what raises | `Raises` |
| `query`, `RetrievalService.search`, `get_by_ids` | `Search`, `GetRow`, `Rank`, `GetRow` again, `Answered` |
| `score_existing` | `ListBatch`, `ListChunks`, `Score` |

*Abstractions.* A text is told by its chunk and by the chunks its context is about: none
(the bare chunk), itself (a situating sentence) or all (the document's block). The
embedder tells texts apart and answers a batch in any order, each vector with its index.
An LLM call costs one, a text one token and a context another, which is enough to see a
call counted twice or dropped. `EnrichBare` is one step, as the control makes no
call. Which chunks a search prefers is left open; what a hybrid one may miss is not
(`Visible`). Collections have the names that each party gives them: `Filled` for the
pipeline, `Queried` for a request, `ScoredName` for the scorer. The scorer's searches are
one step: they are dense, and nothing that they read is ever removed, as the sweeps that drop
collections use other names (EvalSweep).

What the two readers may count on is weaker than one might think. A document that is
between upsert and persist, or has failed there, is found by queries, and its hits have
neither text nor source location: `AnswersAreCited` promises citations for documents
that were ready at the search. The scorer "queries that store directly"
(`score_existing.py:5`), but names it as dense, by `settings.dense_dim` and the context mode
of its command line (76-77), where `_process` uses the retrieval mode, the vectors' dimension
and the batch's mode: `GoldIsSearchable` says that a label can be found exactly if the two
names are one. In a hybrid deployment they never are, and every label counts as a miss.

### Tables
The tables and their doubles, side by side: `tab` is Postgres, sets of rows, `mem` the
doubles, rows in the order they were put in. Each method of a repository is an operator
on the one (`DbList`) or the other (`MemList`); each call of a caller applies both, so
that what the reading methods answer can be compared in every state that handlers,
workers, a benchmark and a sweep lead to. `place` says what each row's handler or worker
does next.

| Code | Actions |
|---|---|
| `create_batch`, `add_document` (or the loop of `smoke_bulk.py`) | `CreateBatch`, `Upload`, `Bump` |
| `ingest()` up to the row | `Ingest` |
| `process_existing`, `_process`, `_run_blocking` | `MarkProcessing`, `UpdateProfile`, `InsertChunks`, `SetReady`, `Fail`, `SetResult` |
| `run_matrix`, `run_eval` | `RecordBenchmark`, `RecordEval` |
| `GET /batches/{id}` | `PollBatch` (the batch's row), `PollAnswer` (the aggregate and the answer) |

*The clock.* `now` is one clock for service and database, and goes on between any two steps.
`now()` of Postgres is the start of a transaction, which others see when it commits: a write
is stamped up to `CommitTime` before it takes effect, never before the previous write of the
same actor. The uploads follow each other, so that their stamps do; rows of single ingests, of
benchmarks and of sweeps are created in threads and may be stamped in any order, or alike.
`create` and `bump_total` of a handler are two transactions, the second of which may wait for
a connection: no other handler runs between them (`LoopFree`), but threads do, a poll of the
same batch among them, and up to `BumpTime` passes from the start of the one to the end of
the other. A handler killed between the two is in BulkIngest only.

*Answers.* `ORDER BY created_at` has no tie-break: `Oldest` and `Latest` are the sets of the
orders that Postgres may return, and so are `DbList`, `DbFind`, `DbBenchmarks`, `DbEvals` and
`DbSummary`. A double has one answer, which is to be among them.

*Abstractions.* An id is the place in the order of creation, for the uuid and for the
double's `doc-N`; of a row's metrics only the chunk count is kept, of a run which document
it is about and how many chunks it had; every document has the same number of chunks. A stamp
is above 0, which stands for NULL. The doubles are given the stamps of Postgres, so that wall
times can be compared. Left out: the conflict of two inserts of one chunk, which no caller
causes (`insert_many` runs once per document) and the double would not resolve.

*Where the doubles differ.* They do not quite "mirror the Postgres GROUP BY aggregate"
(`repository.py:517`), and `DoublesAgree` names each difference, so that what it leaves is
all there is:

 - a row of a double has its `updated_at`, which `_DOC_COLS` does not select; a run has no
   `created_at`;
 - lists, and the row that `find_by_file_hash` returns, are in the order of insertion, which
   is an order of the stamps only if these follow it (`InTurn`); whether a row is found does
   not depend on it, nor does the order of a batch's documents;
 - a limit of 0 means no limit for lists of runs (`self.runs[-0:]`), none in Postgres; no
   router passes it;
 - for a row without `updated_at`, a `duplicate` or one still queued, Postgres falls back to
   the row's creation, the double to the batch's: its wall time may be shorter, and is the
   same once every row has been written to again.

*What the code promises of the wall time, and what holds.* "A finished one is pinned to its
last transition, so it's stable on every re-fetch" (`repository.py:279`) is not true of every
batch that counts as finished: `set_result()` stamps a terminal row once more, and a batch
whose uploads are all terminal is finished until the next one is bumped. `ElapsedPinned`
is what holds: once nobody has anything left to write, the answer stays. Nor does the reported
time only grow: a poll between `create` and `bump_total` of a duplicate finds the batch
running, the next one finds it finished at the stamp of the duplicate's row, which is older.
`ElapsedNeverFalls` bounds the fall by `BumpTime`, that is by what one upload's two
statements take. With the double's fallback in Postgres it would fall by as much as the batch
is old: that mutant breaks it.

The `MC*` modules give the constants small values; the configuration files name them.

## 3. The runs

| Run | Question | Bounds, and why they are enough |
|---|---|---|
| `bulk_safety` | dedup, ownership, accounting, drain, status order | 3 uploads of 2 contents (a pair of duplicates and a third party), 2 workers, a queue of 1 (a full queue needs one job running, one queued, one waiting), 1 raised call, 1 kill. Uploads are symmetric |
| `bulk_liveness` | uploads answered, rows settled, drains end, refinement | 2 uploads, concurrency 0 (the clamp), queue of 1, 2 raised calls (a pipeline that fails and whose `failed` cannot be written), 1 kill; no symmetry |
| `progress` | is leaving the polling loop sound | 2 uploads, 1 batch, 1 worker, 1 raised call, 1 kill or interrupted drain |
| `ensure` | double-checked locking, in one store and beside another | 2 threads (one waits, one creates) and the lifespan on one store, 1 benchmark on its own, 2 context modes of both layouts, 1 failing call, restarts at will. `DefaultIsWarm` and `OwnCreatesNeverClash` need two callers of a store, `UseIsSafe` a creator outside of it as well |
| `chunking` | sizes, losses, and that each round consumes text | sentences of 1, 2, 6, 7, 12 with sizes 4 and 6: below, at and beyond both, at twice the larger; up to 3 paragraphs of up to 2 sentences, or two sections |
| `sweeps` | what a sweep scores, what it takes from others | 2 sweeps (a re-run, or two at once) of 2 combinations that share model, dimension and mode, one with its dimension left open; 2 gold files (the second one goes by the stale `_ready`), an upload of a gold file or of another one, a benchmark, 1 raised call, kills at will. The retrieval mode is hybrid, whose searches may miss anything: a dense one is the case that they miss nothing, and that it then sees the whole corpus is proved. No reranking: a further variant that shares the collection is one more re-run, one that does not is one more combination. The settings agree; what happens if they do not is proved, and needs no interleaving. Sweeps are symmetric |
| `retrieval` | fusion, candidates, scores | collections of up to 4 chunks in every pair of orders, k of 1, 2 and 5 and candidates of 1, 3 and the default of 2: fewer, as many and more than there are |
| `pipeline` | alignment of the stores, totals, citations, labels | 2 documents of 1 to 3 chunks in any of the modes, batches of 2 (one full, one short, one of each), 1 raised call, 1 query of either retrieval mode with 1 result of 1 or 2 candidates, 1 scorer of any context mode. The deployment is dense and its settings agree, so that the scorer may be right; the other cases only change names, and the theorem has them all. Documents are symmetric |
| `tables` | do the doubles answer as Postgres may; does the wall time rest, and how far may it fall | 2 rows, in the batch or outside of it (one of each for what must be filtered out, two of the batch for what must be ordered, counted and limited), 2 files or the same, 2 chunks each, lists limited to 1 of 2, a clock of 3 with 1 unit for a commit and 1 from `create` to the end of `bump_total` (a fall by more than that needs 2 units); longer clocks and waits are proved. Files are symmetric |

Three runs are expected to fail; each refutes one sentence of the repository:

| Run | The sentence | What happens |
|---|---|---|
| `progress_final` | "Final summary incl. per-doc list (failures + token totals)" (`e2e_bulk.py:177`) | `ready` is committed before the metrics: the client stops polling and reports a ready document without chunks, tokens and cost |
| `chunking_size` | "so each piece <= MAX_CHARS" (`chunk.py:67`) | an oversized sentence followed by another is never cut; `SizesAreKept` says that this is the only way |
| `benchmark_shared` | "Each combo gets its own document row + Milvus collection so vectors stay isolated" (`runner.py:3`) | the name has no LLM in it: haiku and sonnet with voyage-law-2 go into one collection, which is the service's own in a default deployment |

Deadlock is checked where the models can always go on (a finished instance can still be
killed, restarted or drained; the chunker stutters at its end). It is not in `sweeps`,
`benchmark_shared`, `retrieval`, `pipeline` and `tables`, where each sweep, benchmark,
request or document is run once.

Two more comments say more than the code does. "A failure marks the row `failed` and
returns a failed IngestResult rather than raising" (`ingest.py:163`): the two status writes
themselves are outside the try block, so that a row stays `queued` or `processing` when one
of them raises; `PoisonIsOwned` and `StrandedHasCause` say what holds of the others. And
"bulk worker threads always hit the ensure_collection fast path" (`main.py:93`): the pre-warm
covers the collection of `settings.context_mode`; a batch with another mode has its
collection created by the workers. Among these the lock keeps order (`OwnCreatesNeverClash`),
but it is the lock of one store: `POST /benchmark` creates collections through others, so that
between a worker's `has_collection` and its `create_collection` the collection may appear.
The one that comes second raises, and its document is `failed` (`CreateCollection`,
`Abandon`). `DefaultIsWarm` is what holds for every job: the pre-warmed collection is never
created again.

`ScoresOwnCorpus` has two premises, needs both, and claims the whole corpus of dense variants
only: a hybrid search asks for no strong consistency, and the sweep searches right after its
upserts, so that a hybrid score may come from part of the corpus. Without `beside`, TLC finds two
sweeps that drop and fill one collection: one of them searches the other's corpus, or an
empty collection, and persists the score. Without `DimKnown`, TLC finds a re-run that
searches the corpus of the run before it beside its own, because it has dropped a
collection by another name. The default matrix declares every dimension, and nothing
keeps two requests from overlapping.

**Fairness.** Weak fairness of each handler, each worker, the inline pipeline and the
shutdown sequence: their calls return or raise, and the event loop serves every ready
callback. A step of a handler that waits at a full queue is enabled whenever the queue
has room; asyncio wakes putters in order, which weak fairness does not claim, so that
the liveness result does not depend on it. Nothing obliges clients to send, operators
to stop or restart, or failures to happen. For `ensure_collection`: each call returns
or raises, and a lock that stays free is taken.

## 4. The proofs

| Module | Theorems | Invariant they rest on |
|---|---|---|
| `BulkIngestProofs` | `TypeCorrect`, `AccountingCorrect` | `Accounting`: types, the count of unfinished jobs, what a process that is not serving or is down has left. Types and count need each other: the count is a natural number only because it counts what is queued or held |
| (ownership) | `OwnerIsUnique`, `TerminalIsFinal` | `Owners`: one handler at most between two awaits; where a handler, a queued job or a runner is tells the status of its row; no two of them share a row. `StatusSteps` reads the order of the statuses off it, with who moves each |
| (losses) | `NoneIsLost`, `DrainIsComplete`, `MetricsAreRight`, `PoisonIsMarked` | `Settling`: the blob is stored before the row, a pool whose join returned is idle. `HandlerPassesOn` and `RunnerPassesOn`: each step settles its document or leaves it an owner |
| (content) | `DedupIsAtomic`, `DuplicatesPointSomewhere`, `ReadyRowsAreComplete`, `TotalsAreRight` | `Content`: a handler about to insert has still no row of its bytes (`Fresh`), or still has one (`DupPending`); what a runner has stored so far; the rows past their bump are those the total counts |
| (refinement) | `RefinesLifecycle` | all of the above. Stranded rows stay so, and a step that changes a status or a store strands nobody; each step is then one row's step, a stranding, or a stutter |
| `BatchProgressProofs` | `Implements`, `ListsAreNewer`, `TotalsLagLittle`, `LoopEndsSettled` | every step with a client is a step of BulkIngest or leaves its rows alone (`Implements`), so that its invariants and `StatusSteps` hold here too. On them rests what each of the three reads of a poll has seen: the row of the batch is older than the counts, the counts older than the list, and rows only ever move on |
| `ChunkingProofs` | `SizesAlwaysKept`, `TextIsConserved`, `AlwaysAdvances` | the length of what is being built is that of its parts, each within the size or alone; the text given out, held and waiting adds up to the text put in. The sums along sequences are by induction (see below). `AlwaysAdvances` is the descent by which every text is split in finitely many rounds: section, paragraph, sentence and the rest of the hard cut (the `while` of `chunk.py:106`) move lexicographically, each within the bounds of the text |
| `RetrievalProofs` | `FusionAgrees`, `RerankedAreBest`, `ScoresStayFractions` | an answer sorted by a strict order has the rank of each thing that the order gives it (`Ranks`), so that a thing above another in both lists is above it when the lists are fused; the prefix of the reranked that is kept holds nothing worse than what is left out; the gain of an order is at most that of the best one, place by place (`GainsBounded`) |
| `TablesProofs` | `TablesCorrect`, `DoublesAlwaysAgree` | `TableInv`: the tables hold exactly the rows of the doubles, ids are places, the stamps of uploads follow the insertions, and what a handler or worker is about to do tells what its row and its chunks are. `WholeIsOldest` and `OnlyIsOldest`: rows put in by their stamps, or a batch's among them, are in an order that Postgres may return. `OrderedIsSorted`: a sequence that a relation orders strictly is what sorting its entries gives |
| (wall time) | `WallTimesBacked`, `ElapsedRests`, `ElapsedHolds` | `WallInv`: a batch's total counts the rows that were bumped (`Totals`); what a client was told of a batch at rest is what its rows still say (`Pinned`); what a client was told is backed by a stamp of the batch, or the batch is unfinished (`Timed`). A step that settles a row leaves a stamp no older than a commit takes, one that counts a row a stamp no older than `BumpTime` (`Recent`): the clock runs between the two statements of an upload |
| `EnsureCollectionProofs` | `TypeCorrect`, `CreationIsSerialized`, `FastPathIsSafe`, `PrewarmHolds` | `IInv`: the lock of each store excludes its callers, `_ready` holds only usable collections, and a caller's place tells what it knows of its collection: one about to create it knows that its own store has not. `Warm` adds what start-up has done |
| `EvalSweepProofs` | `TypeCorrect`, `UploadsStay`, `CombosStayApart`, `ScoredInFull`, `ScoredOnItsOwn`, `NoneSkippedForNothing` | `Shared`: rows of sweeps are in collections with their combination's suffix, so that no drop meets an upload. `Scored`: the files before the current one are ready, and a sweep is past what it has scored. `Alone`: of two sweeps at once both are in the history; the collection of one that is alone holds exactly the files stored so far (`HasOwn`), of which a search answers all or, if hybrid, some. `Blamed`: a sweep that is alone finds its collection as it has left it, so that only a call can fail it, and the variants it has missed are no more than the calls that raised |
| `PipelineProofs` | `PipelineCorrect`, `StoresAlwaysAgree`, `TotalsAlwaysTheCalls`, `ReadersCorrect`, `AnswersAlwaysCited`, `GoldAlwaysSearchable` | `PipelineInv`: where a run is tells the length of its lists and what it was charged, each text and vector is that of its own chunk, the stores hold nothing else, and a ready document is whole in both. `SortedAnswer` (sorting a permuted answer by index undoes the permutation) and `BatchHolds` (a batch is the slice after those sent) carry the alignment through `Embed`. `ReadersInv`: what a request or the scorer has read is not taken away (`ReadStays`), so that hits of ready documents have rows, and labels have entities in the collection of their own mode: the scorer finds them if that is the one it names |

The theorems hold for any sets of uploads, contents, batches, threads and collections,
any integer settings (zero and negative concurrency or queue size included), documents of
any number of chunks, lists with any limit, clocks, commits and waits of any length,
embedding batches of any size above zero, any number of queries and
any number of faults and kills. They assume what the modules' `ASSUME`s say:
`ConfigAssumption`, `BoundsAssumption`, `NoneAssumption` and `FiniteAssumption` (finitely
many uploads, needed only to count a batch's rows) of BulkIngest; `WatchedAssumption` of
BatchProgress (the watched batch is a batch); `SizeAssumption` and `TextAssumption` of
Chunking (any texts and any sizes); `RequestAssumption`, `DepthAssumption` and
`GainAssumption` of Retrieval (the orders of the two searches are of distinct chunks, a
depth is a number, a gain falls with the place); `ThreadAssumption`, `DefaultAssumption` and
`BoundAssumption` of EnsureCollection (callers have names of their own, the default is a
context mode); `MatrixAssumption` and `NamesAssumption` of EvalSweep (a matrix, modes and
rerankings that are not empty; executions have names of their own); `SizeAssumption` of
Pipeline (its bounds are numbers, a batch is not empty); `BoundAssumption` and
`NoneAssumption` of Tables (its bounds are numbers, a document has a chunk, `BumpTime` holds a
commit, no batch is the NULL of `batch_id`). Nothing is assumed of how the settings of a
deployment fit each other: model name, dimension and retrieval mode are any.

Every invariant and every action property of the passing runs is a theorem. The type
invariants, the count of unfinished jobs (`UnfinishedCounts`) and the other inductive
invariants are proved and in no run; TLC found them consistent on small instances before
they were proved. Model-checked only:

 - the liveness properties `UploadsAnswered`, `RowsSettle`, `DrainEnds`, `PollingEnds` and
   `EnsureEnds`, as fairness is out of the prover's reach;
 - that the chunker ends: its steps descend (`AlwaysAdvances`), the conclusion is an argument
   in words;
 - the liveness half of `ImplementsLifecycle` (`RefinesLifecycle` is its safety part);
 - the three statements that are refuted.

**Induction.** Chunking sums lengths along sequences, Retrieval sums gains over the places
of an answer, Tables filters and sorts sequences. What their proofs need by induction is
stated of a set: the numbers that violate a claim, if there are any, have a least element
(lemma `Least`, from the library's `NatLessThanWellFounded` and `WFMin`), which the claim
about its predecessor rules out. No theorem with an operator parameter is used.

**What the proofs turned up.** Tables had to say that a stamp is never 0: with a clock that
starts at 0, a row of the first instant looks like one without a stamp. And a wall time is
pinned only because the total is right: a summary reads it before the aggregate, and two
summaries of the same rows agree because the total of a batch at rest is their number
(`Totals`), which a lost bump would break.

## 5. What is not modelled

 - Two processes on one database: the compose file starts one.
 - The connection pool's limit: an exhausted pool is a call that raises.
 - The keyless mode, where each variant of a sweep has a store of its own.
 - That an upload of a sample is a `duplicate` of a sweep's or a benchmark's row, and so
   never becomes searchable: the model has it (`Upload` asks every row), no property
   judges it.
 - The tables `users` and `actions`: no migration creates them and nothing in `src/` calls
   their repositories, so that there is no caller to model.
 - What the properties allow and the code does: a raised call outside of the try block, a
   kill or an interrupted join strand a row for good (`StrandedHasCause`, `RowsSettle` and
   `DocLifecycle` take them as causes); a polling client that times out reports a partial
   state (`PollingEnds` counts it as an end); a drop between the ingest and the searches of
   another sweep is scored (`ScoresOwnCorpus` excludes overlapping sweeps).
 - Clocks that differ: service and database run on one machine in the compose file.
 - Providers, extraction, hashing, authentication, configuration, generators, the other
   smoke scripts: libraries, wiring or fixtures (see `components` in `PROJECT.json`).
 - A re-upload after a failed ingest is a `duplicate` for ever, and so is one with
   another context mode: the model has it (`HasRow` ignores the status), no property
   judges it.

## 6. Plan

Done: the core (BulkIngest, DocLifecycle), its readers (BatchProgress), the collection
protocol, the chunker, the shared collections (EvalSweep), the read path (Retrieval), the
pipeline's data with its readers (Pipeline), the tables with their doubles and stamps
(Tables), and the proofs of section 4, which cover the safety properties of every run. Next:

 1. **Refinement**: Pipeline's run of a document implements BulkIngest's four stages
    (`Profile`, `Upsert`, `InsertChunks`, `SetReady`).
 2. **Shared lemmas**: `RetrievalProofs` and `TablesProofs` both prove that a strict total
    order gives each element a place of its own; the lemma belongs beside `Sorting`.
 3. **Scoring**: the scores of Retrieval over what the searches of EvalSweep may miss, for a
    bound on how far a hybrid score can be from that of the whole corpus.
