------------------------------ MODULE BulkIngest ------------------------------
(***************************************************************************)
(* The two upload endpoints, the in-process worker pool behind the bulk    *)
(* one, and the ingest pipeline both run (app/routers/batches.py,          *)
(* app/routers/documents.py, app/worker.py, app/ingest.py).                *)
(*                                                                         *)
(* Three kinds of actor share the documents table:                         *)
(*  - request handlers, coroutines of one event loop.  Their store calls   *)
(*    are synchronous, so a handler keeps the loop from one await to the   *)
(*    next: no other handler and no worker task runs in between, but       *)
(*    executor threads do;                                                 *)
(*  - worker tasks, which take a job and report it done on the event loop; *)
(*  - executor threads, which run the job's blocking calls one by one.     *)
(* A single-document upload runs the whole pipeline inline, holding the    *)
(* loop throughout: it is the runner EventLoop below.                      *)
(*                                                                         *)
(* A store call either takes effect and returns, or raises with no effect. *)
(***************************************************************************)
EXTENDS Integers, Sequences, FiniteSets

CONSTANTS
  Uploads,      \* upload requests; the row a request creates bears its name
  Files,        \* file contents, told apart by their byte hash
  Batches,      \* ids that POST /batches can return
  None,         \* "no job", and the batch of a single-document upload
  Concurrency,  \* settings.bulk_ingest_concurrency
  QueueMax,     \* settings.bulk_ingest_queue_max
  MaxFaults,    \* bound: calls that raise
  MaxKills      \* bound: hard kills and interrupted drains

ASSUME ConfigAssumption == Concurrency \in Int /\ QueueMax \in Int
ASSUME BoundsAssumption == MaxFaults \in Nat /\ MaxKills \in Nat
ASSUME NoneAssumption   == None \notin Uploads /\ None \notin Batches
ASSUME FiniteAssumption == IsFiniteSet(Uploads)

VARIABLES
  request,     \* what each client sends: its content, batch and dedup flag
  handler,     \* where each request's handler is
  batches,     \* rows of the batches table
  total,       \* batches.total
  blobs,       \* originals in the blob store
  status,      \* documents.status, "absent" before the row is created
  profiled,    \* rows with summary and content_hash
  vectors,     \* rows whose chunks are in the vector store
  chunks,      \* rows whose chunks are in the chunks table
  metered,     \* rows with chunk_count, tokens and cost
  mode,        \* the service's lifecycle
  queue,       \* asyncio.Queue of jobs
  unfinished,  \* the queue's count of jobs not yet task_done()
  stage,       \* where each runner is in its job
  job,         \* the document each runner works on
  faults,      \* calls that have raised so far
  kills        \* hard kills and interrupted drains so far

rowData == <<profiled, vectors, chunks, metered>>
stored  == <<batches, total, blobs, status, rowData>>
pool    == <<queue, unfinished>>
runners == <<stage, job>>
bounded == <<faults, kills>>
vars    == <<request, handler, stored, mode, pool, runners, bounded>>

\* Mutation: max(1, concurrency) is forgotten.
WorkersUnclamped == 1 .. Concurrency

Workers   == 1 .. (IF Concurrency > 1 THEN Concurrency ELSE 1)
EventLoop == 0
Runners   == Workers \cup {EventLoop}

Single(u) == request[u].batch = None
Status    == {"absent", "queued", "duplicate", "processing", "ready", "failed"}
Terminal  == {"ready", "failed", "duplicate"}
Unsettled == {"queued", "processing"}

\* Where a handler is.  Between two awaits it is at a place of OnLoop.
OnLoop    == {"put", "create", "bump", "dupCreate", "dupBump", "enqueue", "ingest"}
Awaiting  == {"reading", "waiting"}
Answered  == {"done", "rejected", "error", "aborted"}
HandlerPC == {"new"} \cup OnLoop \cup Awaiting \cup Answered

\* Where a runner is.  InTry is the body of process_existing()'s try block.
InTry   == {"profile", "upsert", "chunks", "ready"}
Working == InTry \cup {"blob", "mark", "except", "recordReady", "recordFailed"}
StagePC == Working \cup {"idle", "finished"}

\* Mutation: the handler awaits between its lookup and its insert.
LoopAlwaysFree == TRUE

LoopFree == \A u \in Uploads : handler[u] \notin OnLoop
Running  == mode \in {"serving", "draining"}
Full     == QueueMax > 0 /\ Len(queue) >= QueueMax
Queued   == {queue[i] : i \in 1 .. Len(queue)}

Init ==
  /\ request \in [Uploads -> [file : Files, batch : Batches \cup {None}, dedup : BOOLEAN]]
  /\ \A u \in Uploads : Single(u) => request[u].dedup
  /\ handler = [u \in Uploads |-> "new"]
  /\ batches = {}
  /\ total = [b \in Batches |-> 0]
  /\ blobs = {}
  /\ status = [u \in Uploads |-> "absent"]
  /\ profiled = {} /\ vectors = {} /\ chunks = {} /\ metered = {}
  /\ mode = "serving"
  /\ queue = <<>> /\ unfinished = 0
  /\ stage = [r \in Runners |-> "idle"]
  /\ job = [r \in Runners |-> None]
  /\ faults = 0 /\ kills = 0

-----------------------------------------------------------------------------
(* Request handlers. *)

Go(u, pc) == handler' = [handler EXCEPT ![u] = pc]

CreateBatch(b) ==
  /\ mode = "serving"
  /\ b \notin batches
  /\ batches' = batches \cup {b}
  /\ UNCHANGED <<request, handler, total, blobs, status, rowData, mode, pool, runners, bounded>>

\* The handler looks its batch up (404 if unknown), then awaits the file's bytes.
Receive(u) ==
  /\ mode = "serving" /\ LoopFree
  /\ handler[u] = "new"
  /\ Go(u, IF Single(u) \/ request[u].batch \in batches THEN "reading" ELSE "rejected")
  /\ UNCHANGED <<request, stored, mode, pool, runners, bounded>>

\* Mutation: dedup asks the blob store instead of the documents table.
HasBlob(u) == request[u].file \in blobs

\* find_by_file_hash() returns the oldest row with these bytes, whatever its status.
HasRow(u) == \E v \in Uploads : status[v] # "absent" /\ request[v].file = request[u].file

Lookup(u) ==
  /\ handler[u] = "reading" /\ LoopFree
  /\ Go(u, IF ~(request[u].dedup /\ HasRow(u)) THEN "put"
           ELSE IF Single(u) THEN "done" ELSE "dupCreate")
  /\ UNCHANGED <<request, stored, mode, pool, runners, bounded>>

PutBlob(u) ==
  /\ handler[u] = "put"
  /\ blobs' = blobs \cup {request[u].file}
  /\ Go(u, "create")
  /\ UNCHANGED <<request, batches, total, status, rowData, mode, pool, runners, bounded>>

\* The bulk endpoint leaves the row queued; the single one starts on it at once.
CreateRow(u) ==
  /\ handler[u] = "create"
  /\ status' = [status EXCEPT ![u] = IF Single(u) THEN "processing" ELSE "queued"]
  /\ Go(u, IF Single(u) THEN "ingest" ELSE "bump")
  /\ stage' = [stage EXCEPT ![EventLoop] = IF Single(u) THEN "profile" ELSE @]
  /\ job' = [job EXCEPT ![EventLoop] = IF Single(u) THEN u ELSE @]
  /\ UNCHANGED <<request, batches, total, blobs, rowData, mode, pool, bounded>>

InsertDuplicate(u, then) ==
  /\ handler[u] = "dupCreate"
  /\ status' = [status EXCEPT ![u] = "duplicate"]
  /\ Go(u, then)
  /\ UNCHANGED <<request, batches, total, blobs, rowData, mode, pool, runners, bounded>>

\* Mutation: the duplicate branch forgets bump_total().
CreateUncountedDuplicate(u) == InsertDuplicate(u, "done")
CreateDuplicateRow(u) == InsertDuplicate(u, "dupBump")

Bump(u, n) ==
  /\ handler[u] \in {"bump", "dupBump"}
  /\ total' = [total EXCEPT ![request[u].batch] = @ + n]
  /\ Go(u, IF handler[u] = "bump" THEN "enqueue" ELSE "done")
  /\ UNCHANGED <<request, batches, blobs, status, rowData, mode, pool, runners, bounded>>

BumpTotal(u) == Bump(u, 1)

Put(u) ==
  /\ ~Full
  /\ queue' = Append(queue, u)
  /\ unfinished' = unfinished + 1
  /\ Go(u, "done")
  /\ UNCHANGED <<request, stored, mode, runners, bounded>>

\* Mutation: a blocked putter is never woken.
EnqueueAtOnce(u) == handler[u] = "enqueue" /\ Put(u)

\* queue.put(): immediate if there is room, else the handler gives the loop up and waits.
Enqueue(u) ==
  /\ handler[u] = "enqueue" \/ (handler[u] = "waiting" /\ LoopFree)
  /\ Put(u)

FindFull(u, then) ==
  /\ handler[u] = "enqueue"
  /\ Full
  /\ Go(u, then)
  /\ UNCHANGED <<request, stored, mode, pool, runners, bounded>>

\* Mutation: put_nowait(), with QueueFull swallowed.
DropWhenFull(u) == FindFull(u, "done")
BlockOnQueue(u) == FindFull(u, "waiting")

\* A store call of the handler raises: the client gets a 500.
HandlerRaises(u) ==
  /\ faults < MaxFaults
  /\ \/ handler[u] = "reading" /\ LoopFree
     \/ handler[u] \in {"put", "create", "bump", "dupCreate", "dupBump"}
  /\ Go(u, "error")
  /\ faults' = faults + 1
  /\ UNCHANGED <<request, stored, mode, pool, runners, kills>>

-----------------------------------------------------------------------------
(* Worker tasks and the jobs they run. *)

Enter(r, next) == stage' = [stage EXCEPT ![r] = next]

Take(w, rest) ==
  /\ Running /\ LoopFree
  /\ stage[w] = "idle" /\ queue # <<>>
  /\ job' = [job EXCEPT ![w] = Head(queue)]
  /\ queue' = rest
  /\ Enter(w, "blob")
  /\ UNCHANGED <<request, handler, stored, mode, unfinished, bounded>>

\* Mutation: the job stays in the queue while it runs.
GetWithoutRemoving(w) == Take(w, queue)
Get(w) == Take(w, Tail(queue))

\* A missing original raises like any other failure of the read.
ReadBlob(w) ==
  /\ stage[w] = "blob"
  /\ Enter(w, IF request[job[w]].file \in blobs THEN "mark" ELSE "finished")
  /\ UNCHANGED <<request, handler, stored, mode, pool, job, bounded>>

MarkProcessing(w) ==
  /\ stage[w] = "mark"
  /\ status' = [status EXCEPT ![job[w]] = "processing"]
  /\ Enter(w, "profile")
  /\ UNCHANGED <<request, handler, batches, total, blobs, rowData, mode, pool, job, bounded>>

\* The pipeline stores in three places, one after the other.
Store(r, next) ==
  /\ Enter(r, next)
  /\ UNCHANGED <<request, handler, batches, total, blobs, status, metered, mode, pool, job, bounded>>

\* Extraction, the profile call and update_profile().
Profile(r) ==
  /\ stage[r] = "profile"
  /\ profiled' = profiled \cup {job[r]}
  /\ Store(r, "upsert")
  /\ UNCHANGED <<vectors, chunks>>

UpsertThen(r, next) ==
  /\ stage[r] = "upsert"
  /\ vectors' = vectors \cup {job[r]}
  /\ Store(r, next)
  /\ UNCHANGED <<profiled, chunks>>

\* Mutation: persist_chunks is off.
UpsertOnly(r) == UpsertThen(r, "ready")

\* Chunking, enrichment and embedding, which store nothing, then the vector upsert.
Upsert(r) == UpsertThen(r, "chunks")

InsertChunks(r) ==
  /\ stage[r] = "chunks"
  /\ chunks' = chunks \cup {job[r]}
  /\ Store(r, "ready")
  /\ UNCHANGED <<profiled, vectors>>

\* The final status.  ingest() then answers its request, while process_existing()
\* returns a result for set_result().
Settle(r, outcome, next) ==
  /\ status' = [status EXCEPT ![job[r]] = outcome]
  /\ IF r = EventLoop
       THEN Enter(r, "idle") /\ job' = [job EXCEPT ![r] = None] /\ Go(job[r], "done")
       ELSE Enter(r, next) /\ UNCHANGED <<job, handler>>
  /\ UNCHANGED <<request, batches, total, blobs, rowData, mode, pool, bounded>>

SetReady(r)  == stage[r] = "ready" /\ Settle(r, "ready", "recordReady")
SetFailed(r) == stage[r] = "except" /\ Settle(r, "failed", "recordFailed")

Write(w, outcome, withMetrics) ==
  /\ stage[w] \in {"recordReady", "recordFailed"}
  /\ status' = [status EXCEPT ![job[w]] = outcome]
  /\ metered' = IF withMetrics THEN metered \cup {job[w]} ELSE metered
  /\ Enter(w, "finished")
  /\ UNCHANGED <<request, handler, batches, total, blobs, profiled, vectors, chunks, mode,
                 pool, job, bounded>>

Outcome(w) == IF stage[w] = "recordReady" THEN "ready" ELSE "failed"

\* Mutation: set_result() says ready whatever the result.
RecordReady(w) == Write(w, "ready", Outcome(w) = "ready")
\* Mutation: a failed ingest reports the metrics it had gathered.
RecordMetrics(w) == Write(w, Outcome(w), TRUE)

\* Mutation: set_result() is called without the metrics.
RecordStatus(w) == Write(w, Outcome(w), FALSE)

\* set_result(): the status once more, and the metrics, which are zero on failure.
Record(w) == Write(w, Outcome(w), Outcome(w) = "ready")

Raise(r, next) ==
  /\ faults < MaxFaults
  /\ Enter(r, next)
  /\ faults' = faults + 1
  /\ UNCHANGED <<request, handler, stored, mode, pool, job, kills>>

\* Mutation: process_existing() loses its except clause.
StageRaisesUncaught(r) ==
  stage[r] \in InTry /\ Raise(r, IF r = EventLoop THEN "except" ELSE "finished")

\* Anything in the try block raises, a document without text included.
StageRaises(r) == stage[r] \in InTry /\ Raise(r, "except")

\* Mutation: task_done() is not in a finally clause.
JobRaisesUnreported(w) == stage[w] \in Working \ InTry /\ Raise(w, "idle")

\* A call outside the try block raises: the worker logs it and goes on.
JobRaises(w) == stage[w] \in Working \ InTry /\ Raise(w, "finished")

\* set_status("failed") raises in the single upload's except clause: a 500.
InlineRaises ==
  /\ faults < MaxFaults
  /\ stage[EventLoop] = "except"
  /\ Go(job[EventLoop], "error")
  /\ Enter(EventLoop, "idle")
  /\ job' = [job EXCEPT ![EventLoop] = None]
  /\ faults' = faults + 1
  /\ UNCHANGED <<request, stored, mode, pool, kills>>

Report(w, times) ==
  /\ Running /\ LoopFree
  /\ stage[w] = "finished"
  /\ unfinished' = unfinished - times
  /\ Enter(w, "idle")
  /\ job' = [job EXCEPT ![w] = None]
  /\ UNCHANGED <<request, handler, stored, mode, queue, bounded>>

TaskDone(w) == Report(w, 1)

-----------------------------------------------------------------------------
(* Shutdown, crash and restart. *)

\* The server stops accepting, lets open requests end, then leaves the lifespan.
BeginDrain ==
  /\ mode = "serving"
  /\ \A u \in Uploads : handler[u] \in Answered \cup {"new"}
  /\ mode' = "draining"
  /\ UNCHANGED <<request, handler, stored, pool, runners, bounded>>

StopWorkers ==
  /\ mode = "draining"
  /\ mode' = "stopping"
  /\ UNCHANGED <<request, handler, stored, queue, job, faults>>

\* Mutation: drain waits for the queue to be empty, not for its jobs.
JoinReturnsWhenEmpty == queue = <<>> /\ StopWorkers /\ UNCHANGED <<unfinished, stage, kills>>

JoinReturns == unfinished = 0 /\ StopWorkers /\ UNCHANGED <<unfinished, stage, kills>>

\* queue.join() itself is cancelled.  The finally clause cancels the worker tasks,
\* each of which reports its job done; a thread that has begun runs on, a job that
\* no thread has picked up yet is dropped.
InterruptJoin ==
  /\ StopWorkers
  /\ kills < MaxKills
  /\ \E dropped \in SUBSET {w \in Workers : stage[w] = "blob"} :
       stage' = [r \in Runners |-> IF r \in dropped THEN "finished" ELSE stage[r]]
  /\ unfinished' = unfinished - Cardinality({w \in Workers : stage[w] # "idle"})
  /\ kills' = kills + 1

\* What a process loses when it ends: its queue, its tasks and its threads.
LoseProcess ==
  /\ mode' = "down"
  /\ queue' = <<>> /\ unfinished' = 0
  /\ stage' = [r \in Runners |-> "idle"]
  /\ job' = [r \in Runners |-> None]

\* executor.shutdown(wait=True) returns and the process exits.
ExecutorShutdown ==
  /\ mode = "stopping"
  /\ \A w \in Workers : stage[w] \notin Working
  /\ LoseProcess
  /\ UNCHANGED <<request, handler, stored, bounded>>

Kill ==
  /\ mode # "down"
  /\ kills < MaxKills
  /\ LoseProcess
  /\ handler' = [u \in Uploads |->
       IF handler[u] \in Answered \cup {"new"} THEN handler[u] ELSE "aborted"]
  /\ kills' = kills + 1
  /\ UNCHANGED <<request, stored, faults>>

\* Startup applies the migrations and starts an empty pool: nothing is requeued.
Restart ==
  /\ mode = "down"
  /\ mode' = "serving"
  /\ UNCHANGED <<request, handler, stored, pool, runners, bounded>>

-----------------------------------------------------------------------------
HandlerStep(u) ==
  \/ Lookup(u) \/ PutBlob(u) \/ CreateRow(u) \/ CreateDuplicateRow(u)
  \/ BumpTotal(u) \/ Enqueue(u) \/ BlockOnQueue(u) \/ HandlerRaises(u)

PipelineStep(r) ==
  \/ Profile(r) \/ Upsert(r) \/ InsertChunks(r) \/ SetReady(r)
  \/ SetFailed(r) \/ StageRaises(r)

WorkerStep(w) ==
  \/ Get(w) \/ ReadBlob(w) \/ MarkProcessing(w) \/ PipelineStep(w)
  \/ Record(w) \/ JobRaises(w) \/ TaskDone(w)

InlineStep == PipelineStep(EventLoop) \/ InlineRaises

Shutdown == JoinReturns \/ ExecutorShutdown

Next ==
  \/ \E b \in Batches : CreateBatch(b)
  \/ \E u \in Uploads : Receive(u) \/ HandlerStep(u)
  \/ \E w \in Workers : WorkerStep(w)
  \/ InlineStep
  \/ BeginDrain \/ Shutdown
  \/ InterruptJoin \/ Kill \/ Restart

\* Handlers, threads and the shutdown sequence make progress: each call of theirs
\* returns or raises, and the loop serves every ready callback.  Clients, operators
\* and failures owe nothing.
Fairness ==
  /\ \A u \in Uploads : WF_vars(HandlerStep(u))
  /\ \A w \in Workers : WF_vars(WorkerStep(w))
  /\ WF_vars(InlineStep)
  /\ WF_vars(Shutdown)

Spec     == Init /\ [][Next]_vars
FairSpec == Spec /\ Fairness

-----------------------------------------------------------------------------
(* What the properties speak of. *)

\* A row that a handler is about to enqueue, that is queued, or that a thread works on.
Owned(u) ==
  \/ handler[u] \in {"bump", "enqueue", "waiting"}
  \/ u \in Queued
  \/ \E r \in Runners : job[r] = u /\ stage[r] \in Working

\* A row that promises an ingest nobody will run.
Stranded(u) == status[u] \in Unsettled /\ ~Owned(u)

Undisturbed == faults = 0 /\ kills = 0

TypeOK ==
  /\ request \in [Uploads -> [file : Files, batch : Batches \cup {None}, dedup : BOOLEAN]]
  /\ handler \in [Uploads -> HandlerPC]
  /\ batches \subseteq Batches
  /\ total \in [Batches -> Nat]
  /\ blobs \subseteq Files
  /\ status \in [Uploads -> Status]
  /\ profiled \subseteq Uploads /\ vectors \subseteq Uploads
  /\ chunks \subseteq Uploads /\ metered \subseteq Uploads
  /\ mode \in {"serving", "draining", "stopping", "down"}
  /\ queue \in Seq(Uploads)
  /\ unfinished \in Nat
  /\ stage \in [Runners -> StagePC]
  /\ job \in [Runners -> Uploads \cup {None}]
  /\ faults \in 0 .. MaxFaults
  /\ kills \in 0 .. MaxKills

-----------------------------------------------------------------------------
(* Safety. *)

\* Dedup is a check, then an insert in a later statement, on a table without a
\* uniqueness constraint.  Of the uploads of the same bytes that ask for dedup, through
\* either endpoint and whatever the threads do meanwhile, one at most is ingested.
AtMostOneOriginal ==
  \A u, v \in Uploads :
    /\ u # v
    /\ request[u].file = request[v].file
    /\ request[u].dedup /\ request[v].dedup
    /\ status[u] # "absent" /\ status[v] # "absent"
    => "duplicate" \in {status[u], status[v]}

\* A row marked duplicate is never the only one with its bytes: some other row stands
\* for the content, and that row is not itself a duplicate.
DuplicateHasOriginal ==
  \A u \in Uploads : status[u] = "duplicate" =>
    \E v \in Uploads : /\ request[v].file = request[u].file
                       /\ status[v] \notin {"absent", "duplicate"}

\* No document is worked on twice: a row is in the queue once at most, with one runner
\* at most, never in both, and not while its handler has still to enqueue it.
OneOwner ==
  /\ \A i, j \in 1 .. Len(queue) : queue[i] = queue[j] => i = j
  /\ \A r, s \in Runners : job[r] = job[s] /\ job[r] # None => r = s
  /\ \A u \in Uploads : handler[u] \in {"bump", "enqueue", "waiting"} =>
       u \notin Queued /\ \A r \in Runners : job[r] # u
  /\ \A r \in Runners : job[r] \notin Queued

\* A row says ready only when all that a query of it needs is stored: its profile, its
\* vectors and the chunk rows that resolve them to text.
ReadyIsComplete ==
  \A u \in Uploads : status[u] = "ready" => u \in profiled \cap vectors \cap chunks

\* Chunk counts and costs belong to ready rows alone, and a ready row of a batch that
\* lacks them is one a thread is about to write them to, unless a call has raised or
\* the process was killed.
MetricsFollowStatus ==
  \A u \in Uploads :
    /\ u \in metered => status[u] = "ready"
    /\ status[u] = "ready" /\ ~Single(u) /\ Undisturbed =>
         u \in metered \/ \E w \in Workers : job[w] = u /\ stage[w] = "recordReady"

\* queue.join() waits for exactly the jobs queued or held by a worker, so that it can
\* neither return early nor hang.
UnfinishedCounts ==
  Running => unfinished = Len(queue) + Cardinality({w \in Workers : stage[w] # "idle"})

\* batches.total, which a poller waits for, never promises more rows than exist; it is
\* behind only by the uploads between their insert and their bump, or that raised or
\* died there.
TotalFollowsRows ==
  \A b \in Batches :
    LET rows   == {u \in Uploads : request[u].batch = b /\ status[u] # "absent"}
        behind == {u \in rows : handler[u] \in {"bump", "dupBump"}}
    IN /\ total[b] <= Cardinality(rows)
       /\ Undisturbed => total[b] = Cardinality(rows) - Cardinality(behind)

\* drain_and_stop() "joins the queue so in-flight + queued work finishes": once join()
\* has returned no row is still to be worked on, and without a raised call none is
\* left unsettled.
DrainFinishesWork ==
  mode = "stopping" /\ kills = 0 =>
    \A u \in Uploads : /\ ~Owned(u)
                       /\ faults = 0 => status[u] \notin Unsettled

\* Nothing but a raised call or a kill leaves a row that nobody will ingest.
StrandedHasCause == Undisturbed => \A u \in Uploads : ~Stranded(u)

-----------------------------------------------------------------------------
(* Steps. *)

\* A row that has reached a final status keeps it: neither set_result(), which writes
\* the status a second time, nor a later upload or a restart moves it.
TerminalStable ==
  [][\A u \in Uploads : status[u] \in Terminal => status'[u] = status[u]]_vars

\* A document that makes its ingest raise is marked failed: no exception of the try
\* block costs a row its owner, so only failures of the blob read and of the status
\* writes themselves, or the end of the process, strand one.
PoisonIsOwned ==
  [][\A r \in Runners, u \in Uploads :
       stage[r] \in InTry /\ job[r] = u /\ mode' # "down" =>
         (Owned(u) \/ status[u] \in Terminal)']_vars

-----------------------------------------------------------------------------
(* Liveness, under Fairness. *)

\* Backpressure delays an upload and never loses it: every request the loop has begun
\* to serve is answered or dies with the process.
UploadsAnswered ==
  \A u \in Uploads : (handler[u] \in OnLoop \cup Awaiting) ~> (handler[u] \in Answered)

\* Every row reaches a final status, or is stranded by a failure.
RowsSettle ==
  \A u \in Uploads :
    (status[u] \in Unsettled) ~> (status[u] \in Terminal \/ Stranded(u))

\* A drain ends, however many of the jobs it waits for fail.
DrainEnds == (mode = "draining") ~> (mode = "down")

-----------------------------------------------------------------------------
(* Refinement. *)

Lifecycle == INSTANCE DocLifecycle WITH
  Docs     <- Uploads,
  content  <- [u \in Uploads |-> request[u].file],
  phase    <- status,
  complete <- profiled \cap vectors \cap chunks,
  stranded <- {u \in Uploads : Stranded(u)}

\* Seen as rows alone, the service keeps the promise of DocLifecycle, its liveness
\* included: handlers, queue, workers, failures, drains and restarts are one way to do it.
ImplementsLifecycle == Lifecycle!FairSpec
=============================================================================
