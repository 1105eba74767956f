-------------------------- MODULE BulkIngestProofs ---------------------------
(***************************************************************************)
(* Types, accounting and ownership in BulkIngest, what becomes of its      *)
(* rows, and that it implements DocLifecycle, for any uploads, any         *)
(* configuration and any number of faults and kills.                       *)
(*                                                                         *)
(* The count of unfinished jobs is a natural number only because it counts *)
(* what is queued or held by a worker, so that types and accounting need   *)
(* each other, and both need to know what a stopped process has left.      *)
(***************************************************************************)
EXTENDS BulkIngest, FiniteSetTheorems, SequenceTheorems, TLAPS

\* The workers that hold a job of the queue.
Busy == {w \in Workers : stage[w] # "idle"}

\* Only a serving process has requests in flight.
Quiet == mode # "serving" => \A u \in Uploads : handler[u] \in Answered \cup {"new"}

\* A process that is down has nothing.
Empty == mode = "down" => queue = <<>> /\ unfinished = 0 /\ Busy = {}

\* A runner is somewhere in a job exactly when it has one.
Employed == \A r \in Runners : stage[r] # "idle" <=> job[r] # None

Accounting == TypeOK /\ UnfinishedCounts /\ Quiet /\ Empty /\ Employed

-----------------------------------------------------------------------------
\* The workers are threads 1 to n; the event loop is none of them.
LEMMA WorkersFinite ==
  /\ IsFiniteSet(Workers)
  /\ EventLoop \notin Workers /\ EventLoop \in Runners
  /\ Workers \subseteq Runners
<1>1. IsFiniteSet(Workers)
  BY ConfigAssumption, FS_Interval DEF Workers
<1>2. EventLoop \notin Workers
  BY ConfigAssumption DEF Workers, EventLoop
<1>3. QED
  BY <1>1, <1>2 DEF Runners

\* Their busy ones can be counted.
LEMMA BusyFinite ==
  /\ IsFiniteSet(Busy)
  /\ Cardinality(Busy) \in Nat
<1>1. Busy \in SUBSET Workers
  BY DEF Busy
<1>2. IsFiniteSet(Busy)
  BY <1>1, WorkersFinite, FS_Subset
<1>3. QED
  BY <1>2, FS_CardinalityType

\* A step that moves neither the queue nor a worker in or out of its idle place keeps
\* the accounting.
LEMMA CountsKept ==
  ASSUME Accounting,
         UNCHANGED <<queue, unfinished>>,
         Busy' = Busy,
         mode' = mode \/ mode' = "stopping"
  PROVE  UnfinishedCounts' /\ Empty' /\ unfinished' \in Nat
BY DEF Accounting, TypeOK, UnfinishedCounts, Busy, Empty, Running

-----------------------------------------------------------------------------
\* A step of a request handler.
LEMMA HandlerKeepsAccounting ==
  ASSUME Accounting, NEW u \in Uploads, Receive(u) \/ HandlerStep(u)
  PROVE  Accounting'
<1> USE NoneAssumption, BoundsAssumption, WorkersFinite
    DEF Accounting, Go, stored, rowData, pool, runners, bounded
<1>1. CASE Receive(u)
  <2>1. Busy' = Busy
    BY <1>1 DEF Receive, Busy
  <2>2. TypeOK'
    BY <1>1 DEF Receive, TypeOK, HandlerPC, Awaiting, Answered
  <2>3. Quiet' /\ Employed'
    BY <1>1 DEF Receive, Quiet, Employed
  <2>4. QED
    BY <1>1, <2>1, <2>2, <2>3, CountsKept DEF Receive
<1>2. CASE Lookup(u)
  <2>1. Busy' = Busy
    BY <1>2 DEF Lookup, Busy
  <2>2. TypeOK'
    BY <1>2 DEF Lookup, TypeOK, HandlerPC, OnLoop, Answered
  <2>3. Quiet' /\ Employed'
    BY <1>2 DEF Lookup, Quiet, Employed, TypeOK, Answered
  <2>4. QED
    BY <1>2, <2>1, <2>2, <2>3, CountsKept DEF Lookup
<1>3. CASE PutBlob(u)
  <2>1. Busy' = Busy
    BY <1>3 DEF PutBlob, Busy
  <2>2. TypeOK'
    BY <1>3 DEF PutBlob, TypeOK, HandlerPC, OnLoop
  <2>3. Quiet' /\ Employed'
    BY <1>3 DEF PutBlob, Quiet, Employed, TypeOK, Answered
  <2>4. QED
    BY <1>3, <2>1, <2>2, <2>3, CountsKept DEF PutBlob
<1>4. CASE CreateRow(u)
  <2>1. Busy' = Busy
    BY <1>4 DEF CreateRow, Busy, TypeOK
  <2>2. TypeOK'
    BY <1>4 DEF CreateRow, TypeOK, HandlerPC, OnLoop, Status, StagePC, Working, InTry
  <2>3. Quiet' /\ Employed'
    BY <1>4 DEF CreateRow, Quiet, Employed, TypeOK, Answered
  <2>4. QED
    BY <1>4, <2>1, <2>2, <2>3, CountsKept DEF CreateRow
<1>5. CASE CreateDuplicateRow(u)
  <2>1. Busy' = Busy
    BY <1>5 DEF CreateDuplicateRow, InsertDuplicate, Busy
  <2>2. TypeOK'
    BY <1>5 DEF CreateDuplicateRow, InsertDuplicate, TypeOK, HandlerPC, OnLoop, Status
  <2>3. Quiet' /\ Employed'
    BY <1>5 DEF CreateDuplicateRow, InsertDuplicate, Quiet, Employed, TypeOK, Answered
  <2>4. QED
    BY <1>5, <2>1, <2>2, <2>3, CountsKept DEF CreateDuplicateRow, InsertDuplicate
<1>6. CASE BumpTotal(u)
  <2>1. Busy' = Busy
    BY <1>6 DEF BumpTotal, Bump, Busy
  <2>2. TypeOK'
    <3>1. total' \in [Batches -> Nat]
      <4>1. total \in [Batches -> Nat]
        BY DEF TypeOK
      <4>2. total' = [total EXCEPT ![request[u].batch] = @ + 1]
        BY <1>6 DEF BumpTotal, Bump
      <4>3. \A b \in Batches : total'[b] = IF b = request[u].batch THEN total[b] + 1 ELSE total[b]
        BY <4>1, <4>2
      <4>4. \A b \in Batches : total'[b] \in Nat
        BY <4>1, <4>3
      <4>5. total' = [b \in Batches |-> total'[b]]
        BY <4>1, <4>2
      <4>6. QED
        BY <4>4, <4>5
    <3>2. handler' \in [Uploads -> HandlerPC]
      BY <1>6 DEF BumpTotal, Bump, TypeOK, HandlerPC, OnLoop, Answered
    <3>3. QED
      BY <1>6, <3>1, <3>2 DEF BumpTotal, Bump, TypeOK
  <2>3. Quiet' /\ Employed'
    BY <1>6 DEF BumpTotal, Bump, Quiet, Employed, TypeOK, Answered
  <2>4. QED
    BY <1>6, <2>1, <2>2, <2>3, CountsKept DEF BumpTotal, Bump
<1>7. CASE Enqueue(u)
  <2>1. Busy' = Busy
    BY <1>7 DEF Enqueue, Put, Busy
  <2>2. mode = "serving"
    BY <1>7 DEF Enqueue, Quiet, Answered
  <2>3. queue' \in Seq(Uploads) /\ Len(queue') = Len(queue) + 1
    BY <1>7 DEF Enqueue, Put, TypeOK
  <2>4. TypeOK'
    BY <1>7, <2>3 DEF Enqueue, Put, TypeOK, HandlerPC, Answered
  <2>5. Quiet' /\ Employed' /\ Empty'
    BY <1>7, <2>2 DEF Enqueue, Put, Quiet, Employed, Empty
  <2>6. UnfinishedCounts'
    BY <1>7, <2>1, <2>2, <2>3, BusyFinite
    DEF Enqueue, Put, UnfinishedCounts, Running, Busy, TypeOK
  <2>7. QED
    BY <2>4, <2>5, <2>6
<1>8. CASE BlockOnQueue(u)
  <2>1. Busy' = Busy
    BY <1>8 DEF BlockOnQueue, FindFull, Busy
  <2>2. TypeOK'
    BY <1>8 DEF BlockOnQueue, FindFull, TypeOK, HandlerPC, Awaiting
  <2>3. Quiet' /\ Employed'
    BY <1>8 DEF BlockOnQueue, FindFull, Quiet, Employed, TypeOK, Answered
  <2>4. QED
    BY <1>8, <2>1, <2>2, <2>3, CountsKept DEF BlockOnQueue, FindFull
<1>9. CASE HandlerRaises(u)
  <2>1. Busy' = Busy
    BY <1>9 DEF HandlerRaises, Busy
  <2>2. TypeOK'
    BY <1>9 DEF HandlerRaises, TypeOK, HandlerPC, Answered
  <2>3. Quiet' /\ Employed'
    BY <1>9 DEF HandlerRaises, Quiet, Employed, TypeOK, Answered
  <2>4. QED
    BY <1>9, <2>1, <2>2, <2>3, CountsKept DEF HandlerRaises
<1>10. QED
  BY <1>1, <1>2, <1>3, <1>4, <1>5, <1>6, <1>7, <1>8, <1>9 DEF HandlerStep

-----------------------------------------------------------------------------
\* A step of the pipeline moves its runner from one place of its job to another, or
\* ends the event loop's job.
LEMMA PipelineKeepsAccounting ==
  ASSUME Accounting, NEW r \in Runners, PipelineStep(r)
  PROVE  Accounting'
<1> USE NoneAssumption, BoundsAssumption, WorkersFinite
    DEF Accounting, Go, Enter, stored, rowData, pool, runners, bounded
<1>1. stage[r] # "idle" /\ job[r] \in Uploads
  BY DEF PipelineStep, Profile, Upsert, UpsertThen, InsertChunks, SetReady, SetFailed,
         Settle, StageRaises, Raise, InTry, Employed, TypeOK
<1>2. CASE Profile(r) \/ Upsert(r) \/ InsertChunks(r)
  <2>1. stage' \in [Runners -> StagePC] /\ \A s \in Runners : stage'[s] = "idle" <=> stage[s] = "idle"
    BY <1>1, <1>2
    DEF Profile, Upsert, UpsertThen, InsertChunks, Store, TypeOK, StagePC, Working, InTry
  <2>2. Busy' = Busy
    BY <2>1 DEF Busy
  <2>3. TypeOK'
    BY <1>1, <1>2, <2>1 DEF Profile, Upsert, UpsertThen, InsertChunks, Store, TypeOK
  <2>4. Quiet' /\ Employed'
    BY <1>2, <2>1 DEF Profile, Upsert, UpsertThen, InsertChunks, Store, Quiet, Employed
  <2>5. QED
    BY <1>2, <2>2, <2>3, <2>4, CountsKept
    DEF Profile, Upsert, UpsertThen, InsertChunks, Store
<1>3. ASSUME NEW outcome \in {"ready", "failed"}, NEW next \in {"recordReady", "recordFailed"},
             Settle(r, outcome, next)
      PROVE  Accounting'
  <2>1. Busy' = Busy
    BY <1>1, <1>3 DEF Settle, Busy, TypeOK
  <2>2. TypeOK'
    BY <1>1, <1>3 DEF Settle, TypeOK, HandlerPC, Answered, Status, StagePC, Working
  <2>3. Quiet' /\ Employed'
    BY <1>1, <1>3 DEF Settle, Quiet, Employed, TypeOK, Answered
  <2>4. QED
    BY <1>3, <2>1, <2>2, <2>3, CountsKept DEF Settle
<1>4. CASE StageRaises(r)
  <2>1. Busy' = Busy
    BY <1>1, <1>4 DEF StageRaises, Raise, Busy, TypeOK
  <2>2. TypeOK'
    BY <1>4 DEF StageRaises, Raise, TypeOK, StagePC, Working
  <2>3. Quiet' /\ Employed'
    BY <1>1, <1>4 DEF StageRaises, Raise, Quiet, Employed, TypeOK
  <2>4. QED
    BY <1>4, <2>1, <2>2, <2>3, CountsKept DEF StageRaises, Raise
<1>5. QED
  BY <1>2, <1>3, <1>4 DEF PipelineStep, SetReady, SetFailed

\* A step of a worker.  Taking a job moves one from the queue to the busy workers;
\* reporting it done takes one from both counts.
LEMMA WorkerKeepsAccounting ==
  ASSUME Accounting, NEW w \in Workers, WorkerStep(w)
  PROVE  Accounting'
<1> USE NoneAssumption, BoundsAssumption, WorkersFinite
    DEF Accounting, Go, Enter, stored, rowData, pool, runners, bounded
<1>1. CASE Get(w)
  <2>1. queue # <<>> /\ queue \in Seq(Uploads) /\ stage[w] = "idle" /\ Running
    BY <1>1 DEF Get, Take, TypeOK
  <2>2. Head(queue) \in Uploads /\ queue' \in Seq(Uploads) /\ Len(queue') = Len(queue) - 1
    BY <1>1, <2>1 DEF Get, Take
  <2>3. Busy' = Busy \cup {w} /\ w \notin Busy
    BY <1>1, <2>1 DEF Get, Take, Busy, TypeOK
  <2>4. Cardinality(Busy') = Cardinality(Busy) + 1
    BY <2>3, BusyFinite, FS_AddElement
  <2>5. TypeOK'
    BY <1>1, <2>2 DEF Get, Take, TypeOK, StagePC, Working
  <2>6. Quiet' /\ Employed' /\ Empty'
    BY <1>1, <2>1, <2>2 DEF Get, Take, Quiet, Employed, Empty, Running, TypeOK
  <2>7. UnfinishedCounts'
    BY <1>1, <2>1, <2>2, <2>4, BusyFinite
    DEF Get, Take, UnfinishedCounts, Running, Busy, TypeOK
  <2>8. QED
    BY <2>5, <2>6, <2>7
<1>2. CASE ReadBlob(w)
  <2>1. Busy' = Busy
    BY <1>2 DEF ReadBlob, Busy, TypeOK
  <2>2. TypeOK'
    BY <1>2 DEF ReadBlob, TypeOK, StagePC, Working
  <2>3. Quiet' /\ Employed'
    BY <1>2 DEF ReadBlob, Quiet, Employed, TypeOK
  <2>4. QED
    BY <1>2, <2>1, <2>2, <2>3, CountsKept DEF ReadBlob
<1>3. CASE MarkProcessing(w)
  <2>1. Busy' = Busy
    BY <1>3 DEF MarkProcessing, Busy, TypeOK
  <2>2. TypeOK'
    BY <1>3 DEF MarkProcessing, TypeOK, StagePC, Working, InTry, Status
  <2>3. Quiet' /\ Employed'
    BY <1>3 DEF MarkProcessing, Quiet, Employed, TypeOK
  <2>4. QED
    BY <1>3, <2>1, <2>2, <2>3, CountsKept DEF MarkProcessing
<1>4. CASE Record(w)
  <2>1. Busy' = Busy
    BY <1>4 DEF Record, Write, Busy, TypeOK
  <2>2. job[w] \in Uploads
    BY <1>4 DEF Record, Write, Employed, TypeOK
  <2>3. TypeOK'
    BY <1>4, <2>2 DEF Record, Write, Outcome, TypeOK, StagePC, Status
  <2>4. Quiet' /\ Employed'
    BY <1>4 DEF Record, Write, Quiet, Employed, TypeOK
  <2>5. QED
    BY <1>4, <2>1, <2>3, <2>4, CountsKept DEF Record, Write
<1>5. CASE JobRaises(w)
  <2>1. Busy' = Busy
    BY <1>5 DEF JobRaises, Raise, Busy, TypeOK, Working, InTry
  <2>2. TypeOK'
    BY <1>5 DEF JobRaises, Raise, TypeOK, StagePC
  <2>3. Quiet' /\ Employed'
    BY <1>5 DEF JobRaises, Raise, Quiet, Employed, TypeOK, Working, InTry
  <2>4. QED
    BY <1>5, <2>1, <2>2, <2>3, CountsKept DEF JobRaises, Raise
<1>6. CASE TaskDone(w)
  <2>1. stage[w] = "finished" /\ Running
    BY <1>6 DEF TaskDone, Report
  <2>2. Busy' = Busy \ {w} /\ w \in Busy
    BY <1>6, <2>1 DEF TaskDone, Report, Busy, TypeOK
  <2>3. Cardinality(Busy') = Cardinality(Busy) - 1
    BY <2>2, BusyFinite, FS_RemoveElement
  <2>4. Cardinality(Busy') \in Nat
    BY <2>2, BusyFinite, FS_RemoveElement, FS_CardinalityType
  <2>5. unfinished' = Len(queue) + Cardinality(Busy')
    BY <1>6, <2>1, <2>3, BusyFinite DEF TaskDone, Report, UnfinishedCounts, Busy, TypeOK
  <2>6. unfinished' \in Nat
    BY <2>4, <2>5 DEF TypeOK
  <2>7. TypeOK'
    BY <1>6, <2>6 DEF TaskDone, Report, TypeOK, StagePC
  <2>8. Quiet' /\ Employed' /\ Empty'
    BY <1>6, <2>1 DEF TaskDone, Report, Quiet, Employed, Empty, Running, TypeOK
  <2>9. UnfinishedCounts'
    BY <1>6, <2>5 DEF TaskDone, Report, UnfinishedCounts, Busy
  <2>10. QED
    BY <2>7, <2>8, <2>9
<1>7. CASE PipelineStep(w)
  BY <1>7, PipelineKeepsAccounting
<1>8. QED
  BY <1>1, <1>2, <1>3, <1>4, <1>5, <1>6, <1>7 DEF WorkerStep

-----------------------------------------------------------------------------
\* The steps of shutdown, crash and restart.
LEMMA ShutdownKeepsAccounting ==
  ASSUME Accounting,
         \/ BeginDrain \/ Shutdown \/ InterruptJoin \/ Kill \/ Restart \/ InlineRaises
         \/ \E b \in Batches : CreateBatch(b)
  PROVE  Accounting'
<1> USE NoneAssumption, BoundsAssumption, WorkersFinite
    DEF Accounting, Go, Enter, stored, rowData, pool, runners, bounded
<1>1. CASE BeginDrain
  BY <1>1 DEF BeginDrain, TypeOK, UnfinishedCounts, Running, Quiet, Empty, Employed, Busy
<1>2. CASE JoinReturns
  BY <1>2 DEF JoinReturns, StopWorkers, TypeOK, UnfinishedCounts, Running, Quiet, Empty, Employed
<1>3. CASE ExecutorShutdown
  <2>1. TypeOK' /\ Empty' /\ Employed' /\ UnfinishedCounts'
    BY <1>3 DEF ExecutorShutdown, LoseProcess, TypeOK, StagePC, Empty, Employed, UnfinishedCounts, Running, Busy
  <2>2. QED
    BY <1>3, <2>1 DEF ExecutorShutdown, Quiet
<1>4. CASE InterruptJoin
  <2>1. unfinished' \in Nat
    <3>1. Running
      BY <1>4 DEF InterruptJoin, StopWorkers, Running
    <3>2. unfinished = Len(queue) + Cardinality(Busy)
      BY <3>1 DEF UnfinishedCounts, Busy
    <3>3. unfinished' = unfinished - Cardinality(Busy)
      BY <1>4 DEF InterruptJoin, Busy
    <3>4. QED
      BY <3>2, <3>3, BusyFinite DEF TypeOK
  <2>2. PICK dropped \in SUBSET {w \in Workers : stage[w] = "blob"} :
          stage' = [r \in Runners |-> IF r \in dropped THEN "finished" ELSE stage[r]]
    BY <1>4 DEF InterruptJoin
  <2>3. stage' \in [Runners -> StagePC] /\ \A r \in Runners : stage'[r] = "idle" <=> stage[r] = "idle"
    BY <2>2 DEF TypeOK, StagePC
  <2>4. TypeOK'
    BY <1>4, <2>1, <2>3 DEF InterruptJoin, StopWorkers, TypeOK
  <2>5. QED
    BY <1>4, <2>3, <2>4 DEF InterruptJoin, StopWorkers, UnfinishedCounts, Running, Quiet, Empty, Employed
<1>5. CASE Kill
  <2>1. TypeOK'
    BY <1>5 DEF Kill, LoseProcess, TypeOK, StagePC, HandlerPC, Answered
  <2>2. Empty' /\ Employed' /\ UnfinishedCounts'
    BY <1>5 DEF Kill, LoseProcess, Empty, Employed, UnfinishedCounts, Running, Busy
  <2>3. Quiet'
    BY <1>5 DEF Kill, LoseProcess, Quiet, Answered
  <2>4. QED
    BY <2>1, <2>2, <2>3
<1>6. CASE Restart
  <2>1. queue = <<>> /\ unfinished = 0 /\ Busy = {}
    BY <1>6 DEF Restart, Empty
  <2>2. unfinished = Len(queue) + Cardinality(Busy)
    BY <2>1, FS_EmptySet
  <2>3. QED
    BY <1>6, <2>2 DEF Restart, TypeOK, UnfinishedCounts, Running, Quiet, Empty, Employed, Busy
<1>7. CASE InlineRaises
  <2>1. Busy' = Busy
    BY <1>7 DEF InlineRaises, Busy, TypeOK
  <2>2. job[EventLoop] \in Uploads
    BY <1>7 DEF InlineRaises, Employed, TypeOK
  <2>3. TypeOK'
    BY <1>7, <2>2 DEF InlineRaises, TypeOK, StagePC, HandlerPC, Answered
  <2>4. Quiet' /\ Employed'
    BY <1>7, <2>2 DEF InlineRaises, Quiet, Employed, TypeOK, Answered
  <2>5. QED
    BY <1>7, <2>1, <2>3, <2>4, CountsKept DEF InlineRaises
<1>8. ASSUME NEW b \in Batches, CreateBatch(b) PROVE Accounting'
  BY <1>8 DEF CreateBatch, TypeOK, UnfinishedCounts, Running, Quiet, Empty, Employed, Busy
<1>9. QED
  BY <1>1, <1>2, <1>3, <1>4, <1>5, <1>6, <1>7, <1>8 DEF Shutdown

-----------------------------------------------------------------------------
\* The accounting holds throughout.
LEMMA AccountingHolds == Spec => []Accounting
<1>1. Init => Accounting
  <2> SUFFICES ASSUME Init PROVE Accounting
    OBVIOUS
  <2>1. Busy = {}
    BY WorkersFinite DEF Init, Busy
  <2>2. TypeOK
    <3>1. request \in [Uploads -> [file : Files, batch : Batches \cup {None}, dedup : BOOLEAN]]
      BY DEF Init
    <3>2. handler \in [Uploads -> HandlerPC] /\ status \in [Uploads -> Status]
      BY DEF Init, HandlerPC, Status
    <3>3. stage \in [Runners -> StagePC] /\ job \in [Runners -> Uploads \cup {None}]
      BY DEF Init, StagePC
    <3>4. total \in [Batches -> Nat] /\ queue \in Seq(Uploads)
      BY DEF Init
    <3>5. faults \in 0 .. MaxFaults /\ kills \in 0 .. MaxKills
      BY BoundsAssumption DEF Init
    <3>6. batches \subseteq Batches /\ blobs \subseteq Files /\ mode = "serving" /\ unfinished = 0
      BY DEF Init
    <3>7. profiled = {} /\ vectors = {} /\ chunks = {} /\ metered = {}
      BY DEF Init
    <3>8. QED
      BY <3>1, <3>2, <3>3, <3>4, <3>5, <3>6, <3>7 DEF TypeOK
  <2>3. UnfinishedCounts
    <3>1. queue = <<>> /\ unfinished = 0
      BY DEF Init
    <3>2. Cardinality({}) = 0
      BY FS_EmptySet
    <3>3. Cardinality(Busy) = 0
      BY <2>1, <3>2
    <3>4. Len(queue) = 0
      BY <3>1
    <3>5. QED
      BY <3>1, <3>3, <3>4 DEF UnfinishedCounts, Busy
  <2>4. QED
    BY <2>1, <2>2, <2>3 DEF Init, Accounting, Quiet, Empty, Employed
<1>2. Accounting /\ [Next]_vars => Accounting'
  <2> SUFFICES ASSUME Accounting, [Next]_vars PROVE Accounting'
    OBVIOUS
  <2>1. CASE UNCHANGED vars
    BY <2>1 DEF vars, stored, rowData, pool, runners, bounded, Accounting, TypeOK,
      UnfinishedCounts, Running, Quiet, Empty, Employed, Busy
  <2>2. QED
    BY <2>1, HandlerKeepsAccounting, WorkerKeepsAccounting, PipelineKeepsAccounting,
       ShutdownKeepsAccounting, WorkersFinite
    DEF Next, InlineStep
<1>3. QED
  BY <1>1, <1>2, PTL DEF Spec

\* The variables keep their types: in particular task_done() is never called more often
\* than put(), which asyncio.Queue punishes with a ValueError.
THEOREM TypeCorrect == Spec => []TypeOK
<1>1. Accounting => TypeOK
  BY DEF Accounting
<1>2. QED
  BY <1>1, AccountingHolds, PTL

\* queue.join() waits for the jobs queued or held by a worker, no more and no fewer,
\* through every failure, drain, kill and restart.
THEOREM AccountingCorrect == Spec => []UnfinishedCounts
<1>1. Accounting => UnfinishedCounts
  BY DEF Accounting
<1>2. QED
  BY <1>1, AccountingHolds, PTL

-----------------------------------------------------------------------------
(***************************************************************************)
(* Who owns a document, in BulkIngest, for any uploads, any configuration  *)
(* and any number of faults and kills; and what follows from it: the order *)
(* of statuses, completeness and dedup.                                    *)
(*                                                                         *)
(* The argument.  A handler keeps the loop from its look-up to its insert  *)
(* (LoopExclusive), so that the row it inserts is the row it looked for.   *)
(* From then on the row has one owner: its handler, the queue, or one      *)
(* runner; the owner's place tells the row's status (HandlerRow, QueueRow, *)
(* JobRow), and no two owners share a document (QueueDistinct, JobDistinct,*)
(* JobNotQueued), because a handler has answered before the queue has its  *)
(* job.  The status then moves in one order only (StatusStep), and         *)
(* everything else is read off that.                                       *)
(***************************************************************************)

\* One handler at most is between two awaits.
LoopExclusive ==
  \A u, v \in Uploads : handler[u] \in OnLoop /\ handler[v] \in OnLoop => u = v

\* How far a handler has got tells what row it has created.
HandlerRow ==
  \A u \in Uploads :
    /\ handler[u] \in {"new", "reading", "rejected", "put", "create", "dupCreate"} =>
         status[u] = "absent"
    /\ handler[u] \in {"bump", "enqueue", "waiting"} => status[u] = "queued"
    /\ handler[u] = "dupBump" => status[u] = "duplicate"
    /\ handler[u] = "ingest" => job[EventLoop] = u

\* A queued job's handler has answered, and nobody has touched its row since.
QueueRow == \A u \in Queued : handler[u] = "done" /\ status[u] = "queued"

QueueDistinct == \A i, j \in 1 .. Len(queue) : queue[i] = queue[j] => i = j

\* How far a runner has got tells the status of its document.
JobRow ==
  \A r \in Runners : stage[r] # "idle" =>
    /\ handler[job[r]] = IF r = EventLoop THEN "ingest" ELSE "done"
    /\ stage[r] \in {"blob", "mark"} => status[job[r]] = "queued"
    /\ stage[r] \in InTry \cup {"except"} => status[job[r]] = "processing"
    /\ stage[r] = "recordReady" => status[job[r]] = "ready"
    /\ stage[r] = "recordFailed" => status[job[r]] = "failed"
    /\ status[job[r]] \notin {"absent", "duplicate"}

JobDistinct == \A r, s \in Runners : job[r] = job[s] /\ job[r] # None => r = s

JobNotQueued == \A r \in Runners : job[r] \notin Queued

Owners ==
  /\ LoopExclusive /\ HandlerRow
  /\ QueueRow /\ QueueDistinct
  /\ JobRow /\ JobDistinct /\ JobNotQueued

-----------------------------------------------------------------------------
\* A step of a handler other than its enqueue: queue and workers are not concerned.
LEMMA HandlerKeepsOwners ==
  ASSUME Accounting, Owners, NEW u \in Uploads, Receive(u) \/ HandlerStep(u), ~Enqueue(u)
  PROVE  Owners'
<1> USE NoneAssumption, WorkersFinite
    DEF Accounting, TypeOK, Owners, Go, stored, rowData, pool, runners, bounded, LoopFree
<1> Queued' = Queued
  BY DEF Receive, HandlerStep, Lookup, PutBlob, CreateRow, CreateDuplicateRow, InsertDuplicate,
         BumpTotal, Bump, BlockOnQueue, FindFull, HandlerRaises, Queued
<1>1. LoopExclusive'
  BY DEF Receive, HandlerStep, Lookup, PutBlob, CreateRow, CreateDuplicateRow, InsertDuplicate,
         BumpTotal, Bump, BlockOnQueue, FindFull, HandlerRaises, LoopExclusive, OnLoop
<1>2. HandlerRow'
  <2>1. CASE CreateRow(u)
    BY <2>1 DEF CreateRow, HandlerRow, LoopExclusive, OnLoop
  <2>2. CASE CreateDuplicateRow(u)
    BY <2>2 DEF CreateDuplicateRow, InsertDuplicate, HandlerRow
  <2>3. CASE Receive(u) \/ Lookup(u) \/ PutBlob(u)
    BY <2>3 DEF Receive, Lookup, PutBlob, HandlerRow
  <2>4. CASE BumpTotal(u) \/ BlockOnQueue(u) \/ HandlerRaises(u)
    BY <2>4 DEF BumpTotal, Bump, BlockOnQueue, FindFull, HandlerRaises, HandlerRow
  <2>5. QED
    BY <2>1, <2>2, <2>3, <2>4 DEF HandlerStep
<1>3. QueueRow' /\ QueueDistinct'
  <2>1. handler[u] # "done"
    BY DEF Receive, HandlerStep, Lookup, PutBlob, CreateRow, CreateDuplicateRow, InsertDuplicate,
           BumpTotal, Bump, BlockOnQueue, FindFull, HandlerRaises
  <2>2. /\ \A v \in Uploads \ {u} : handler'[v] = handler[v] /\ status'[v] = status[v]
        /\ queue' = queue
    BY DEF Receive, HandlerStep, Lookup, PutBlob, CreateRow, CreateDuplicateRow, InsertDuplicate,
           BumpTotal, Bump, BlockOnQueue, FindFull, HandlerRaises
  <2>3. Queued \subseteq Uploads
    BY DEF Queued
  <2>4. QED
    BY <2>1, <2>2, <2>3 DEF QueueRow, QueueDistinct
<1>4. JobRow' /\ JobDistinct' /\ JobNotQueued'
  <2>1. CASE CreateRow(u)
    BY <2>1 DEF CreateRow, JobRow, JobDistinct, JobNotQueued, QueueRow, Employed, InTry
  <2>2. CASE ~CreateRow(u)
    BY <2>2 DEF Receive, HandlerStep, Lookup, PutBlob, CreateDuplicateRow, InsertDuplicate,
         BumpTotal, Bump, BlockOnQueue, FindFull, HandlerRaises, JobRow, JobDistinct,
         JobNotQueued, Employed
  <2>3. QED
    BY <2>1, <2>2
<1>5. QED
  BY <1>1, <1>2, <1>3, <1>4

\* What is in the queue after a put, and before a get.
LEMMA Enqueued ==
  ASSUME queue \in Seq(Uploads), NEW u \in Uploads, queue' = Append(queue, u)
  PROVE  Queued' = Queued \cup {u}
<1>1. Len(queue') = Len(queue) + 1 /\ Len(queue) \in Nat
  OBVIOUS
<1>2. \A i \in 1 .. Len(queue') : queue'[i] = IF i = Len(queue) + 1 THEN u ELSE queue[i]
  OBVIOUS
<1>3. Queued' = {queue'[i] : i \in 1 .. Len(queue')}
  BY DEF Queued
<1>4. ASSUME NEW v \in Queued' PROVE v \in Queued \cup {u}
  BY <1>1, <1>2, <1>3 DEF Queued
<1>5. ASSUME NEW v \in Queued \cup {u} PROVE v \in Queued'
  <2>1. CASE v = u
    BY <1>1, <1>2, <1>3, <2>1
  <2>2. CASE v # u
    <3>1. PICK i \in 1 .. Len(queue) : v = queue[i]
      BY <2>2 DEF Queued
    <3>2. i \in 1 .. Len(queue') /\ queue'[i] = v
      BY <1>1, <1>2, <3>1
    <3>3. QED
      BY <1>3, <3>2
  <2>3. QED
    BY <2>1, <2>2
<1>6. QED
  BY <1>4, <1>5

\* A get takes the head of the queue, and only that.
LEMMA Dequeued ==
  ASSUME queue \in Seq(Uploads), queue # <<>>, queue' = Tail(queue)
  PROVE  Queued = Queued' \cup {Head(queue)}
<1>1. Head(queue) = queue[1] /\ Len(queue') = Len(queue) - 1 /\ Len(queue) \in Nat \ {0}
  OBVIOUS
<1>2. \A i \in 1 .. Len(queue') : i + 1 \in 1 .. Len(queue) /\ queue'[i] = queue[i + 1]
  BY <1>1
<1>3. Queued' = {queue'[i] : i \in 1 .. Len(queue')}
  BY DEF Queued
<1>4. ASSUME NEW v \in Queued PROVE v \in Queued' \cup {Head(queue)}
  <2>1. PICK i \in 1 .. Len(queue) : v = queue[i]
    BY <1>4 DEF Queued
  <2>2. CASE i = 1
    BY <1>1, <2>1, <2>2
  <2>3. CASE i # 1
    <3>1. i - 1 \in 1 .. Len(queue')
      BY <1>1, <2>1, <2>3
    <3>2. queue'[i - 1] = v
      BY <1>2, <2>1, <3>1
    <3>3. QED
      BY <1>3, <3>1, <3>2
  <2>4. QED
    BY <2>2, <2>3
<1>5. Queued' \cup {Head(queue)} \subseteq Queued
  BY <1>1, <1>2, <1>3 DEF Queued
<1>6. QED
  BY <1>4, <1>5

\* Enqueueing hands the document over: its handler is done with it.
LEMMA EnqueueKeepsOwners ==
  ASSUME Accounting, Owners, NEW u \in Uploads, Enqueue(u)
  PROVE  Owners'
<1> USE NoneAssumption, WorkersFinite
    DEF Accounting, TypeOK, Owners, Enqueue, Put, Go, stored, rowData, pool, runners, bounded, LoopFree
<1>1. handler[u] \in {"enqueue", "waiting"} /\ status[u] = "queued" /\ u \notin Queued
  BY DEF HandlerRow, QueueRow
<1>2. Queued' = Queued \cup {u}
  BY Enqueued
<1>3. LoopExclusive' /\ HandlerRow'
  BY <1>1 DEF LoopExclusive, HandlerRow, OnLoop
<1>4. QueueRow'
  BY <1>1, <1>2 DEF QueueRow
<1>5. QueueDistinct'
  <2>1. \A i \in 1 .. Len(queue) : queue[i] # u
    BY <1>1 DEF Queued
  <2>2. \A i \in 1 .. Len(queue') : queue'[i] = IF i = Len(queue) + 1 THEN u ELSE queue[i]
    OBVIOUS
  <2>3. Len(queue') = Len(queue) + 1 /\ Len(queue) \in Nat
    OBVIOUS
  <2>4. ASSUME NEW i \in 1 .. Len(queue'), NEW j \in 1 .. Len(queue'), queue'[i] = queue'[j]
        PROVE  i = j
    <3>1. CASE i = Len(queue) + 1 \/ j = Len(queue) + 1
      BY <2>1, <2>2, <2>3, <2>4, <3>1
    <3>2. CASE i \in 1 .. Len(queue) /\ j \in 1 .. Len(queue)
      BY <2>2, <2>3, <2>4, <3>2 DEF QueueDistinct
    <3>3. QED
      BY <2>3, <3>1, <3>2
  <2>5. QED
    BY <2>4 DEF QueueDistinct
<1>6. \A r \in Runners : job[r] # u
  BY <1>1 DEF JobRow, Employed
<1>7. JobRow' /\ JobDistinct' /\ JobNotQueued'
  BY <1>1, <1>2, <1>6 DEF JobRow, JobDistinct, JobNotQueued, Employed
<1>8. QED
  BY <1>3, <1>4, <1>5, <1>7

\* Taking a job hands the document over: the queue is done with it.
LEMMA GetKeepsOwners ==
  ASSUME Accounting, Owners, NEW w \in Workers, Get(w)
  PROVE  Owners'
<1> USE NoneAssumption, WorkersFinite
    DEF Accounting, TypeOK, Owners, Get, Take, Enter, stored, rowData, pool, runners, bounded
<1>1. queue # <<>> /\ queue \in Seq(Uploads) /\ queue' = Tail(queue)
  OBVIOUS
<1>2. Head(queue) = queue[1] /\ Len(queue') = Len(queue) - 1
  BY <1>1
<1>3. \A i \in 1 .. Len(queue') : i + 1 \in 1 .. Len(queue) /\ queue'[i] = queue[i + 1]
  BY <1>1, <1>2
<1>4. QueueDistinct'
  BY <1>1, <1>2, <1>3 DEF QueueDistinct
<1>5. Queued' \subseteq Queued
  BY <1>1, Dequeued
<1>6. Head(queue) \in Queued
  BY <1>1, Dequeued
<1>7. Head(queue) \notin Queued'
  <2>1. \A i \in 1 .. Len(queue') : queue'[i] # queue[1]
    BY <1>1, <1>2, <1>3 DEF QueueDistinct
  <2>2. QED
    BY <1>2, <2>1 DEF Queued
<1>8. LoopExclusive' /\ HandlerRow' /\ QueueRow'
  BY <1>5 DEF LoopExclusive, HandlerRow, QueueRow
<1>9. Head(queue) \in Uploads /\ \A r \in Runners : job[r] # Head(queue)
  BY <1>1, <1>6 DEF JobNotQueued
<1>10. JobRow'
  BY <1>6, <1>9 DEF JobRow, QueueRow, InTry
<1>11. JobDistinct' /\ JobNotQueued'
  BY <1>5, <1>7, <1>9 DEF JobDistinct, JobNotQueued
<1>12. QED
  BY <1>4, <1>8, <1>10, <1>11

-----------------------------------------------------------------------------
\* A runner that moves within its job, whatever it stores.
LEMMA RunnerKeepsOwners ==
  ASSUME Accounting, Owners, NEW r \in Runners, NEW next, stage[r] # "idle",
         stage' = [stage EXCEPT ![r] = next], next # "idle",
         UNCHANGED <<handler, queue, job>>,
         \A u \in Uploads \ {job[r]} : status'[u] = status[u],
         next \in {"blob", "mark"} => status'[job[r]] = "queued",
         next \in InTry \cup {"except"} => status'[job[r]] = "processing",
         next = "recordReady" => status'[job[r]] = "ready",
         next = "recordFailed" => status'[job[r]] = "failed",
         status'[job[r]] \notin {"absent", "duplicate"}
  PROVE  Owners'
<1> USE NoneAssumption, WorkersFinite DEF Accounting, TypeOK, Owners, Employed
<1>1. job[r] \in Uploads /\ handler[job[r]] \in {"ingest", "done"}
  BY DEF JobRow
<1>2. Queued' = Queued /\ Queued \subseteq Uploads
  BY DEF Queued
<1>3. LoopExclusive' /\ QueueDistinct' /\ JobDistinct'
  BY DEF LoopExclusive, QueueDistinct, JobDistinct
<1>4. HandlerRow'
  BY <1>1 DEF HandlerRow
<1>5. QueueRow' /\ JobNotQueued'
  BY <1>2 DEF QueueRow, JobNotQueued
<1>6. JobRow'
  <2>1. ASSUME NEW s \in Runners, s # r, stage[s] # "idle"
        PROVE  stage'[s] = stage[s] /\ job[s] \in Uploads \ {job[r]}
    BY <2>1, <1>1 DEF JobDistinct
  <2>2. stage'[r] = next
    OBVIOUS
  <2>3. QED
    BY <2>1, <2>2 DEF JobRow
<1>7. QED
  BY <1>3, <1>4, <1>5, <1>6

\* A runner that leaves its job.
LEMMA LeavingKeepsOwners ==
  ASSUME Accounting, Owners, NEW r \in Runners, stage[r] # "idle",
         stage' = [stage EXCEPT ![r] = "idle"], job' = [job EXCEPT ![r] = None],
         UNCHANGED queue,
         \A u \in Uploads \ {job[r]} : status'[u] = status[u] /\ handler'[u] = handler[u],
         IF r = EventLoop THEN handler'[job[r]] \in {"done", "error"}
                          ELSE UNCHANGED <<handler, status>>
  PROVE  Owners'
<1> USE NoneAssumption, WorkersFinite DEF Accounting, TypeOK, Owners, Employed
<1>1. job[r] \in Uploads
  OBVIOUS
<1>2. Queued' = Queued /\ Queued \subseteq Uploads
  BY DEF Queued
<1>3. LoopExclusive'
  BY <1>1 DEF LoopExclusive, OnLoop
<1>4. HandlerRow'
  <2>1. CASE r = EventLoop
    BY <1>1, <2>1 DEF HandlerRow
  <2>2. CASE r # EventLoop
    BY <1>1, <2>2 DEF HandlerRow
  <2>3. QED
    BY <2>1, <2>2
<1>5. QueueRow' /\ JobNotQueued' /\ QueueDistinct' /\ JobDistinct'
  BY <1>1, <1>2 DEF QueueRow, JobNotQueued, QueueDistinct, JobDistinct
<1>6. JobRow'
  <2>1. ASSUME NEW s \in Runners, s # r, stage[s] # "idle"
        PROVE  stage'[s] = stage[s] /\ job'[s] = job[s] /\ job[s] \in Uploads \ {job[r]}
    BY <2>1, <1>1 DEF JobDistinct
  <2>2. stage'[r] = "idle"
    OBVIOUS
  <2>3. QED
    BY <2>1, <2>2 DEF JobRow
<1>7. QED
  BY <1>3, <1>4, <1>5, <1>6

\* A step of the pipeline, of a worker and of the single upload alike.
LEMMA PipelineKeepsOwners ==
  ASSUME Accounting, Owners, NEW r \in Runners, PipelineStep(r)
  PROVE  Owners'
<1> USE DEF Go, Enter, stored, rowData, pool, runners, bounded
<1>1. /\ stage[r] \in InTry \cup {"except"} /\ job[r] \in Uploads
      /\ status[job[r]] = "processing"
  BY DEF Accounting, TypeOK, Owners, Employed, JobRow, PipelineStep, Profile, Upsert, UpsertThen,
         InsertChunks, SetReady, SetFailed, StageRaises, InTry
<1>2. stage[r] # "idle" /\ status \in [Uploads -> Status] /\ handler \in [Uploads -> HandlerPC]
  BY <1>1 DEF Accounting, TypeOK, InTry
<1>3. CASE Profile(r) \/ Upsert(r) \/ InsertChunks(r)
  <2>1. PICK next \in InTry : stage' = [stage EXCEPT ![r] = next]
    BY <1>3 DEF Profile, Upsert, UpsertThen, InsertChunks, Store, InTry
  <2>2. UNCHANGED <<handler, queue, job, status>>
    BY <1>3 DEF Profile, Upsert, UpsertThen, InsertChunks, Store
  <2>3. QED
    BY <1>1, <1>2, <2>1, <2>2, RunnerKeepsOwners DEF InTry
<1>4. CASE StageRaises(r)
  <2>1. stage' = [stage EXCEPT ![r] = "except"] /\ UNCHANGED <<handler, queue, job, status>>
    BY <1>4 DEF StageRaises, Raise
  <2>2. QED
    BY <1>1, <1>2, <2>1, RunnerKeepsOwners DEF InTry
<1>5. ASSUME NEW outcome, NEW next, Settle(r, outcome, next),
             <<outcome, next>> \in {<<"ready", "recordReady">>, <<"failed", "recordFailed">>}
      PROVE  Owners'
  <2>1. status'[job[r]] = outcome /\ \A u \in Uploads \ {job[r]} : status'[u] = status[u]
    BY <1>1, <1>2, <1>5 DEF Settle
  <2>2. CASE r = EventLoop
    BY <1>1, <1>2, <1>5, <2>1, <2>2, LeavingKeepsOwners DEF Settle
  <2>3. CASE r # EventLoop
    <3>1. UNCHANGED <<handler, queue, job>> /\ stage' = [stage EXCEPT ![r] = next]
      BY <1>5, <2>3 DEF Settle
    <3>2. \/ outcome = "ready" /\ next = "recordReady"
          \/ outcome = "failed" /\ next = "recordFailed"
      BY <1>5
    <3>3. QED
      BY <1>1, <1>2, <2>1, <3>1, <3>2, RunnerKeepsOwners DEF InTry
  <2>4. QED
    BY <2>2, <2>3
<1>6. QED
  BY <1>3, <1>4, <1>5 DEF PipelineStep, SetReady, SetFailed

\* A step of a worker.
LEMMA WorkerKeepsOwners ==
  ASSUME Accounting, Owners, NEW w \in Workers, WorkerStep(w)
  PROVE  Owners'
<1> USE WorkersFinite DEF Enter, stored, rowData, pool, runners, bounded
<1>1. /\ stage[w] # "idle" => job[w] \in Uploads
      /\ status \in [Uploads -> Status] /\ w \in Runners /\ w # EventLoop
  BY DEF Accounting, TypeOK, Employed
<1>2. CASE Get(w)
  BY <1>2, GetKeepsOwners
<1>3. CASE ReadBlob(w)
  <2>1. status[job[w]] = "queued" /\ stage[w] # "idle"
    BY <1>1, <1>3 DEF ReadBlob, Owners, JobRow
  <2>2. PICK next \in {"mark", "finished"} : stage' = [stage EXCEPT ![w] = next]
    BY <1>3 DEF ReadBlob
  <2>3. UNCHANGED <<handler, queue, job, status>>
    BY <1>3 DEF ReadBlob
  <2>4. QED
    BY <1>1, <2>1, <2>2, <2>3, RunnerKeepsOwners DEF InTry
<1>4. CASE MarkProcessing(w)
  <2>1. stage[w] # "idle" /\ stage' = [stage EXCEPT ![w] = "profile"]
    BY <1>4 DEF MarkProcessing
  <2>2. status' = [status EXCEPT ![job[w]] = "processing"] /\ UNCHANGED <<handler, queue, job>>
    BY <1>4 DEF MarkProcessing
  <2>3. QED
    BY <1>1, <2>1, <2>2, RunnerKeepsOwners DEF InTry
<1>5. CASE Record(w)
  <2>1. stage[w] \in {"recordReady", "recordFailed"} /\ stage' = [stage EXCEPT ![w] = "finished"]
    BY <1>5 DEF Record, Write
  <2>2. status' = [status EXCEPT ![job[w]] = Outcome(w)] /\ UNCHANGED <<handler, queue, job>>
    BY <1>5 DEF Record, Write
  <2>3. Outcome(w) \in {"ready", "failed"}
    BY DEF Outcome
  <2>4. QED
    BY <1>1, <2>1, <2>2, <2>3, RunnerKeepsOwners DEF InTry
<1>6. CASE JobRaises(w)
  <2>1. stage[w] # "idle" /\ stage' = [stage EXCEPT ![w] = "finished"]
    BY <1>6 DEF JobRaises, Raise, Working, InTry
  <2>2. UNCHANGED <<handler, queue, job, status>>
    BY <1>6 DEF JobRaises, Raise
  <2>3. status[job[w]] \notin {"absent", "duplicate"}
    BY <1>1, <2>1 DEF Owners, JobRow
  <2>4. QED
    BY <1>1, <2>1, <2>2, <2>3, RunnerKeepsOwners DEF InTry
<1>7. CASE TaskDone(w)
  <2>1. stage[w] # "idle" /\ stage' = [stage EXCEPT ![w] = "idle"] /\ job' = [job EXCEPT ![w] = None]
    BY <1>7 DEF TaskDone, Report
  <2>2. UNCHANGED <<handler, queue, status>>
    BY <1>7 DEF TaskDone, Report
  <2>3. QED
    BY <1>1, <2>1, <2>2, LeavingKeepsOwners
<1>8. CASE PipelineStep(w)
  BY <1>1, <1>8, PipelineKeepsOwners
<1>9. QED
  BY <1>2, <1>3, <1>4, <1>5, <1>6, <1>7, <1>8 DEF WorkerStep

\* The remaining steps take documents from their owners, and give none to anybody.
LEMMA ShutdownKeepsOwners ==
  ASSUME Accounting, Owners,
         \/ BeginDrain \/ Shutdown \/ InterruptJoin \/ Kill \/ Restart \/ InlineRaises
         \/ \E b \in Batches : CreateBatch(b)
  PROVE  Owners'
<1> USE NoneAssumption, WorkersFinite DEF stored, rowData, pool, runners, bounded
<1>1. CASE InlineRaises
  <2>1. /\ stage[EventLoop] # "idle" /\ stage' = [stage EXCEPT ![EventLoop] = "idle"]
        /\ job' = [job EXCEPT ![EventLoop] = None] /\ UNCHANGED <<queue, status>>
        /\ handler' = [handler EXCEPT ![job[EventLoop]] = "error"]
    BY <1>1 DEF InlineRaises, Enter, Go
  <2>2. job[EventLoop] \in Uploads /\ handler \in [Uploads -> HandlerPC]
    BY <2>1 DEF Accounting, TypeOK, Employed
  <2>3. QED
    BY <2>1, <2>2, LeavingKeepsOwners
<1>2. CASE InterruptJoin
  <2>1. PICK dropped \in SUBSET {w \in Workers : stage[w] = "blob"} :
          stage' = [r \in Runners |-> IF r \in dropped THEN "finished" ELSE stage[r]]
    BY <1>2 DEF InterruptJoin
  <2>2. UNCHANGED <<handler, queue, job, status>>
    BY <1>2 DEF InterruptJoin, StopWorkers
  <2>3. \A r \in Runners : stage'[r] = stage[r] \/ (stage[r] = "blob" /\ stage'[r] = "finished")
    BY <2>1
  <2>4. JobRow'
    BY <2>2, <2>3 DEF Owners, JobRow, InTry
  <2>5. QED
    BY <2>2, <2>4 DEF Owners, LoopExclusive, HandlerRow, QueueRow, QueueDistinct, JobDistinct,
      JobNotQueued, Queued
<1>3. CASE ExecutorShutdown
  <2>1. stage' = [r \in Runners |-> "idle"] /\ job' = [r \in Runners |-> None] /\ queue' = <<>>
    BY <1>3 DEF ExecutorShutdown, LoseProcess
  <2>2. UNCHANGED <<handler, status>> /\ mode = "stopping"
    BY <1>3 DEF ExecutorShutdown
  <2>3. \A u \in Uploads : handler[u] \in Answered \cup {"new"}
    BY <2>2 DEF Accounting, Quiet
  <2>4. Queued' = {}
    BY <2>1 DEF Queued
  <2>5. QED
    BY <2>1, <2>2, <2>3, <2>4 DEF Owners, LoopExclusive, HandlerRow, QueueRow, QueueDistinct,
      JobRow, JobDistinct, JobNotQueued, Answered, OnLoop
<1>4. CASE Kill
  <2>1. stage' = [r \in Runners |-> "idle"] /\ job' = [r \in Runners |-> None] /\ queue' = <<>>
    BY <1>4 DEF Kill, LoseProcess
  <2>2. /\ status' = status
        /\ \A u \in Uploads : handler'[u] \in Answered \cup {"new"}
        /\ \A u \in Uploads : handler'[u] = handler[u] \/ handler'[u] = "aborted"
    BY <1>4 DEF Kill, LoseProcess, Answered
  <2>3. Queued' = {}
    BY <2>1 DEF Queued
  <2>4. QED
    BY <2>1, <2>2, <2>3 DEF Owners, LoopExclusive, HandlerRow, QueueRow, QueueDistinct,
      JobRow, JobDistinct, JobNotQueued, Answered, OnLoop
<1>5. CASE BeginDrain \/ JoinReturns \/ Restart \/ \E b \in Batches : CreateBatch(b)
  <2>1. UNCHANGED <<handler, queue, job, stage, status>>
    BY <1>5 DEF BeginDrain, JoinReturns, StopWorkers, Restart, CreateBatch
  <2>2. QED
    BY <2>1 DEF Owners, LoopExclusive, HandlerRow, QueueRow, QueueDistinct, JobRow, JobDistinct,
      JobNotQueued, Queued
<1>6. QED
  BY <1>1, <1>2, <1>3, <1>4, <1>5 DEF Shutdown

\* The invariant of this module holds throughout.
LEMMA OwnersHold == Spec => [](Accounting /\ Owners)
<1>1. Init => Owners
  <2> SUFFICES ASSUME Init PROVE Owners
    OBVIOUS
  <2>1. Queued = {}
    BY DEF Init, Queued
  <2>2. LoopExclusive /\ HandlerRow
    BY DEF Init, LoopExclusive, HandlerRow, OnLoop
  <2>3. QueueRow /\ QueueDistinct
    BY <2>1 DEF Init, QueueRow, QueueDistinct
  <2>4. JobRow /\ JobDistinct /\ JobNotQueued
    BY <2>1 DEF Init, JobRow, JobDistinct, JobNotQueued
  <2>5. QED
    BY <2>2, <2>3, <2>4 DEF Owners
<1>2. Accounting /\ Owners /\ [Next]_vars => Owners'
  <2> SUFFICES ASSUME Accounting, Owners, [Next]_vars PROVE Owners'
    OBVIOUS
  <2>1. CASE UNCHANGED vars
    BY <2>1 DEF vars, stored, rowData, pool, runners, bounded, Owners, LoopExclusive, HandlerRow,
      QueueRow, QueueDistinct, JobRow, JobDistinct, JobNotQueued, Queued
  <2>2. ASSUME NEW u \in Uploads, Receive(u) \/ HandlerStep(u) PROVE Owners'
    BY <2>2, HandlerKeepsOwners, EnqueueKeepsOwners
  <2>3. QED
    BY <2>1, <2>2, WorkerKeepsOwners, PipelineKeepsOwners, ShutdownKeepsOwners, WorkersFinite
    DEF Next, InlineStep
<1>3. QED
  BY <1>1, <1>2, AccountingHolds, PTL DEF Spec

\* No document is worked on twice: a row is never in the queue twice, with two runners, in
\* both, or there before its handler has enqueued it.
THEOREM OwnerIsUnique == Spec => []OneOwner
<1>1. Accounting /\ Owners => OneOwner
  BY NoneAssumption DEF Accounting, TypeOK, Employed, Owners, OneOwner, QueueRow, QueueDistinct, JobRow,
    JobDistinct, JobNotQueued
<1>2. QED
  BY <1>1, OwnersHold, PTL

-----------------------------------------------------------------------------
(* What a step may do to a status, and to a handler about to insert a row. *)

\* The order of the statuses, with who moves each.
Appears(u) ==
  /\ status[u] = "absent"
  /\ \/ /\ handler[u] = "create" /\ handler'[u] = IF Single(u) THEN "ingest" ELSE "bump"
        /\ status'[u] \in Unsettled
     \/ handler[u] = "dupCreate" /\ handler'[u] = "dupBump" /\ status'[u] = "duplicate"
  /\ \A v \in Uploads \ {u} : handler'[v] = handler[v] /\ status'[v] = status[v]

Moves(u) ==
  /\ \E r \in Runners : /\ job[r] = u /\ stage[r] \in Working
                        /\ status'[u] = "ready" => stage[r] = "ready"
  /\ \/ status[u] = "queued" /\ status'[u] = "processing"
     \/ status[u] = "processing" /\ status'[u] \in {"ready", "failed"}

\* Five actions write the status; all others leave it alone.
LEMMA StatusWriters ==
  ASSUME [Next]_vars
  PROVE  \/ UNCHANGED status
         \/ \E u \in Uploads : CreateRow(u) \/ CreateDuplicateRow(u)
         \/ \E r \in Runners : SetReady(r) \/ SetFailed(r)
         \/ \E w \in Workers : MarkProcessing(w) \/ Record(w)
<1> USE WorkersFinite DEF stored, rowData, pool, runners, bounded
<1>1. ASSUME NEW u \in Uploads, Receive(u) \/ HandlerStep(u)
      PROVE  UNCHANGED status \/ CreateRow(u) \/ CreateDuplicateRow(u)
  BY <1>1 DEF Receive, HandlerStep, Lookup, PutBlob, BumpTotal, Bump, Enqueue, Put, BlockOnQueue,
    FindFull, HandlerRaises
<1>2. ASSUME NEW r \in Runners, PipelineStep(r) PROVE UNCHANGED status \/ SetReady(r) \/ SetFailed(r)
  BY <1>2 DEF PipelineStep, Profile, Upsert, UpsertThen, InsertChunks, Store, StageRaises, Raise
<1>3. ASSUME NEW w \in Workers, WorkerStep(w), ~PipelineStep(w)
      PROVE  UNCHANGED status \/ MarkProcessing(w) \/ Record(w)
  BY <1>3 DEF WorkerStep, Get, Take, ReadBlob, JobRaises, Raise, TaskDone, Report
<1>4. ASSUME \/ BeginDrain \/ Shutdown \/ InterruptJoin \/ Kill \/ Restart \/ InlineRaises
             \/ \E b \in Batches : CreateBatch(b)
      PROVE  UNCHANGED status
  BY <1>4 DEF BeginDrain, Shutdown, JoinReturns, StopWorkers, ExecutorShutdown, LoseProcess,
    InterruptJoin, Kill, Restart, InlineRaises, CreateBatch
<1>5. CASE UNCHANGED vars
  BY <1>5 DEF vars
<1>6. QED
  BY <1>1, <1>2, <1>3, <1>4, <1>5 DEF Next, InlineStep

\* A status moves in one order only.
LEMMA StatusSteps ==
  ASSUME Accounting, Owners, [Next]_vars, NEW u \in Uploads
  PROVE  status'[u] = status[u] \/ Appears(u) \/ Moves(u)
<1> USE WorkersFinite DEF Accounting, TypeOK, Owners, stored, rowData, pool, runners, bounded
<1>1. ASSUME NEW v \in Uploads, CreateRow(v) \/ CreateDuplicateRow(v)
      PROVE  status'[u] = status[u] \/ Appears(u)
  BY <1>1 DEF CreateRow, CreateDuplicateRow, InsertDuplicate, Go, HandlerRow, Appears, Unsettled
<1>2. ASSUME NEW r \in Runners, SetReady(r) \/ SetFailed(r)
      PROVE  status'[u] = status[u] \/ Moves(u)
  BY <1>2 DEF SetReady, SetFailed, Settle, JobRow, Employed, InTry, Working, Moves
<1>3. ASSUME NEW w \in Workers, MarkProcessing(w) \/ Record(w)
      PROVE  status'[u] = status[u] \/ Moves(u)
  BY <1>3 DEF MarkProcessing, Record, Write, Outcome, JobRow, Employed, Working, Moves
<1>4. QED
  BY <1>1, <1>2, <1>3, StatusWriters

\* A handler gets to its insert through its look-up, which saw the rows as they still are.
LEMMA InsertFollowsLookup ==
  ASSUME [Next]_vars, handler \in [Uploads -> HandlerPC], NEW u \in Uploads
  PROVE  /\ handler'[u] \in {"put", "create"} =>
              \/ handler[u] \in {"put", "create"}
              \/ UNCHANGED status /\ ~(request[u].dedup /\ HasRow(u))
         /\ handler'[u] = "dupCreate" =>
              \/ handler[u] = "dupCreate"
              \/ UNCHANGED status /\ HasRow(u)
<1> USE WorkersFinite DEF Go, stored, rowData, pool, runners, bounded
<1>1. ASSUME NEW v \in Uploads, Receive(v) \/ HandlerStep(v)
      PROVE  \/ Lookup(v) \/ handler'[u] = handler[u] \/ PutBlob(v)
             \/ handler'[u] \notin {"put", "create", "dupCreate"}
  BY <1>1 DEF Receive, HandlerStep, CreateRow, CreateDuplicateRow, InsertDuplicate, BumpTotal, Bump,
    Enqueue, Put, BlockOnQueue, FindFull, HandlerRaises
<1>2. ASSUME NEW r \in Runners, PipelineStep(r)
      PROVE  handler'[u] = handler[u] \/ handler'[u] \notin {"put", "create", "dupCreate"}
  BY <1>2 DEF PipelineStep, Profile, Upsert, UpsertThen, InsertChunks, Store, StageRaises, Raise,
    SetReady, SetFailed, Settle
<1>3. ASSUME NEW w \in Workers, WorkerStep(w), ~PipelineStep(w) PROVE UNCHANGED handler
  BY <1>3 DEF WorkerStep, Get, Take, ReadBlob, JobRaises, Raise, TaskDone, Report, MarkProcessing,
    Record, Write
<1>4. ASSUME \/ BeginDrain \/ Shutdown \/ InterruptJoin \/ Kill \/ Restart \/ InlineRaises
             \/ \E b \in Batches : CreateBatch(b)
      PROVE  handler'[u] = handler[u] \/ handler'[u] \notin {"put", "create", "dupCreate"}
  BY <1>4 DEF BeginDrain, Shutdown, JoinReturns, StopWorkers, ExecutorShutdown, LoseProcess,
    InterruptJoin, Kill, Restart, InlineRaises, CreateBatch, Answered
<1>5. ASSUME NEW v \in Uploads, Lookup(v)
      PROVE  \/ handler'[u] = handler[u]
             \/ /\ UNCHANGED status
                /\ handler'[u] \in {"put", "create"} => ~(request[u].dedup /\ HasRow(u))
                /\ handler'[u] = "dupCreate" => HasRow(u)
  BY <1>5 DEF Lookup
<1>6. ASSUME NEW v \in Uploads, PutBlob(v)
      PROVE  handler'[u] = handler[u] \/ (handler[u] = "put" /\ handler'[u] = "create")
  BY <1>6 DEF PutBlob
<1>7. CASE UNCHANGED vars
  BY <1>7 DEF vars
<1>8. QED
  BY <1>1, <1>2, <1>3, <1>4, <1>5, <1>6, <1>7 DEF Next, InlineStep

\* Clients do not change what they have sent.
LEMMA RequestKept ==
  ASSUME [Next]_vars PROVE UNCHANGED request
<1> USE WorkersFinite DEF stored, rowData, pool, runners, bounded
<1>1. ASSUME NEW u \in Uploads, Receive(u) \/ HandlerStep(u) PROVE UNCHANGED request
  BY <1>1 DEF Receive, HandlerStep, Lookup, PutBlob, CreateRow, CreateDuplicateRow, InsertDuplicate,
    BumpTotal, Bump, Enqueue, Put, BlockOnQueue, FindFull, HandlerRaises
<1>2. ASSUME NEW r \in Runners, PipelineStep(r) PROVE UNCHANGED request
  BY <1>2 DEF PipelineStep, Profile, Upsert, UpsertThen, InsertChunks, Store, StageRaises, Raise,
    SetReady, SetFailed, Settle
<1>3. ASSUME NEW w \in Workers, WorkerStep(w), ~PipelineStep(w) PROVE UNCHANGED request
  BY <1>3 DEF WorkerStep, Get, Take, ReadBlob, JobRaises, Raise, TaskDone, Report, MarkProcessing,
    Record, Write
<1>4. QED
  BY <1>1, <1>2, <1>3 DEF Next, InlineStep, BeginDrain, Shutdown, JoinReturns, StopWorkers,
    ExecutorShutdown, InterruptJoin, Kill, Restart, InlineRaises, CreateBatch, vars

-----------------------------------------------------------------------------
\* A final status is final: the second write of set_result() repeats the first, and no
\* upload, drain or restart touches a settled row.
THEOREM TerminalIsFinal == Spec => TerminalStable
<1>1. Accounting /\ Owners /\ [Next]_vars =>
        [\A u \in Uploads : status[u] \in Terminal => status'[u] = status[u]]_vars
  BY StatusSteps DEF Appears, Moves, Terminal
<1>2. QED
  BY <1>1, OwnersHold, PTL DEF Spec, TerminalStable

-----------------------------------------------------------------------------
(***************************************************************************)
(* What happens to the rows.                                               *)
(*                                                                         *)
(* First, that none is lost but by a failure: each step of a handler or a  *)
(* runner either settles its document or leaves it an owner, unless a call *)
(* raises or the process is killed; and that a drain leaves nothing to be  *)
(* lost.                                                                   *)
(***************************************************************************)
\* The original a job will read was stored before the job's row.
BlobThere ==
  \A u \in Uploads :
    handler[u] = "create" \/ status[u] \in Unsettled => request[u].file \in blobs

\* A join that was not cut short leaves the pool with nothing to do.
StoppedIdle ==
  mode = "stopping" /\ kills = 0 =>
    queue = <<>> /\ \A r \in Runners : stage[r] = "idle"

\* The inline runner works for single uploads alone.
InlineSingle == stage[EventLoop] # "idle" => Single(job[EventLoop])

Settling == BlobThere /\ StoppedIdle /\ InlineSingle /\ StrandedHasCause /\ MetricsFollowStatus

-----------------------------------------------------------------------------
\* Handlers, runners and workers leave the service's lifecycle to others, and each of
\* their steps counts one fault at most.
LEMMA ActorsKeepMode ==
  ASSUME \/ \E u \in Uploads : Receive(u) \/ HandlerStep(u)
         \/ \E r \in Runners : PipelineStep(r)
         \/ \E w \in Workers : WorkerStep(w)
  PROVE  mode' = mode /\ kills' = kills
<1> USE DEF stored, rowData, pool, runners, bounded
<1>1. ASSUME NEW u \in Uploads, Receive(u) \/ HandlerStep(u) PROVE mode' = mode /\ kills' = kills
  BY <1>1 DEF Receive, HandlerStep, Lookup, PutBlob, CreateRow, CreateDuplicateRow,
    InsertDuplicate, BumpTotal, Bump, Enqueue, Put, BlockOnQueue, FindFull, HandlerRaises
<1>2. ASSUME NEW r, PipelineStep(r) PROVE mode' = mode /\ kills' = kills
  BY <1>2 DEF PipelineStep, Profile, Upsert, UpsertThen, InsertChunks, Store, StageRaises, Raise,
    SetReady, SetFailed, Settle
<1>3. ASSUME NEW w \in Workers, WorkerStep(w), ~PipelineStep(w)
      PROVE  mode' = mode /\ kills' = kills
  BY <1>3 DEF WorkerStep, Get, Take, ReadBlob, JobRaises, Raise, TaskDone, Report, MarkProcessing,
    Record, Write
<1>4. QED
  BY <1>1, <1>2, <1>3

\* Blobs are only ever added, before the row that needs them.
LEMMA BlobThereKept ==
  ASSUME Accounting, Owners, BlobThere, [Next]_vars PROVE BlobThere'
<1> USE WorkersFinite DEF Go, stored, rowData, pool, runners, bounded
<1>1. blobs \subseteq blobs'
  <2>1. ASSUME NEW u \in Uploads, Receive(u) \/ HandlerStep(u) PROVE blobs \subseteq blobs'
    BY <2>1 DEF Receive, HandlerStep, Lookup, PutBlob, CreateRow, CreateDuplicateRow, InsertDuplicate,
      BumpTotal, Bump, Enqueue, Put, BlockOnQueue, FindFull, HandlerRaises
  <2>2. ASSUME NEW r \in Runners, PipelineStep(r) PROVE UNCHANGED blobs
    BY <2>2 DEF PipelineStep, Profile, Upsert, UpsertThen, InsertChunks, Store, StageRaises, Raise,
      SetReady, SetFailed, Settle
  <2>3. ASSUME NEW w \in Workers, WorkerStep(w), ~PipelineStep(w) PROVE UNCHANGED blobs
    BY <2>3 DEF WorkerStep, Get, Take, ReadBlob, JobRaises, Raise, TaskDone, Report, MarkProcessing,
      Record, Write
  <2>4. QED
    BY <2>1, <2>2, <2>3 DEF Next, InlineStep, BeginDrain, Shutdown, JoinReturns, StopWorkers,
      ExecutorShutdown, InterruptJoin, Kill, Restart, InlineRaises, CreateBatch, vars
<1>2. ASSUME NEW u \in Uploads, handler'[u] = "create"
      PROVE  handler[u] = "create" \/ request[u].file \in blobs'
  <2>1. ASSUME NEW v \in Uploads, Receive(v) \/ HandlerStep(v)
        PROVE  handler'[u] = handler[u] \/ request[u].file \in blobs'
    BY <1>2, <2>1 DEF Accounting, TypeOK, Receive, HandlerStep, Lookup, PutBlob, CreateRow,
      CreateDuplicateRow, InsertDuplicate, BumpTotal, Bump, Enqueue, Put, BlockOnQueue, FindFull,
      HandlerRaises
  <2>2. ASSUME NEW r \in Runners, PipelineStep(r)
        PROVE  handler'[u] = handler[u]
    BY <1>2, <2>2 DEF Accounting, TypeOK, PipelineStep, Profile, Upsert, UpsertThen, InsertChunks, Store, StageRaises, Raise,
      SetReady, SetFailed, Settle
  <2>3. ASSUME NEW w \in Workers, WorkerStep(w), ~PipelineStep(w) PROVE UNCHANGED handler
    BY <2>3 DEF WorkerStep, Get, Take, ReadBlob, JobRaises, Raise, TaskDone, Report, MarkProcessing,
      Record, Write
  <2>4. CASE InlineRaises \/ Kill
    BY <1>2, <2>4 DEF Accounting, TypeOK, InlineRaises, Kill, Answered
  <2>5. CASE \/ BeginDrain \/ Shutdown \/ InterruptJoin \/ Restart \/ UNCHANGED vars
             \/ \E b \in Batches : CreateBatch(b)
    BY <1>2, <2>5 DEF BeginDrain, Shutdown, JoinReturns, StopWorkers, ExecutorShutdown,
      InterruptJoin, Restart, CreateBatch, vars
  <2>6. QED
    BY <1>2, <2>1, <2>2, <2>3, <2>4, <2>5 DEF Next, InlineStep
<1>3. ASSUME NEW u \in Uploads, status'[u] \in Unsettled
      PROVE  handler[u] = "create" \/ status[u] \in Unsettled
  BY <1>3, StatusSteps DEF Appears, Moves, Unsettled
<1>4. QED
  BY <1>1, <1>2, <1>3, RequestKept DEF BlobThere

\* After a join the pool stays idle: no request is left to fill it.
LEMMA StoppedIdleKept ==
  ASSUME Accounting, Owners, StoppedIdle, [Next]_vars PROVE StoppedIdle'
<1> USE NoneAssumption, WorkersFinite DEF Go, Enter, stored, rowData, pool, runners, bounded
<1>1. CASE JoinReturns
  <2>1. Running /\ unfinished = 0
    BY <1>1 DEF JoinReturns, StopWorkers, Running
  <2>2. Len(queue) \in Nat /\ Cardinality(Busy) \in Nat /\ IsFiniteSet(Busy)
    BY BusyFinite DEF Accounting, TypeOK
  <2>3. Len(queue) = 0 /\ Cardinality(Busy) = 0
    BY <2>1, <2>2 DEF Accounting, UnfinishedCounts, Busy
  <2>4. queue = <<>> /\ Busy = {}
    BY <2>2, <2>3, FS_EmptySet DEF Accounting, TypeOK
  <2>5. stage[EventLoop] = "idle"
    <3>1. SUFFICES ASSUME stage[EventLoop] # "idle" PROVE FALSE
      OBVIOUS
    <3>2. job[EventLoop] \in Uploads /\ handler[job[EventLoop]] = "ingest"
      BY <3>1 DEF Accounting, TypeOK, Employed, Owners, JobRow
    <3>3. mode # "serving"
      BY <1>1 DEF JoinReturns, StopWorkers
    <3>4. QED
      BY <3>2, <3>3 DEF Accounting, Quiet, Answered
  <2>6. UNCHANGED <<queue, stage>>
    BY <1>1 DEF JoinReturns, StopWorkers
  <2>7. QED
    BY <2>4, <2>5, <2>6 DEF StoppedIdle, Busy, Runners
<1>2. CASE mode # "stopping" /\ ~JoinReturns
  <2>1. mode' # "stopping" \/ kills' # 0
    <3>1. CASE InterruptJoin
      BY <3>1, BoundsAssumption DEF InterruptJoin, Accounting, TypeOK
    <3>2. QED
      BY <1>2, <3>1, ActorsKeepMode DEF Next, InlineStep, BeginDrain, Shutdown, ExecutorShutdown,
        Kill, LoseProcess, Restart, InlineRaises, CreateBatch, vars
  <2>2. QED
    BY <2>1 DEF StoppedIdle
<1>3. CASE mode = "stopping" /\ kills # 0
  <2>1. kills' # 0
    <3>1. CASE InterruptJoin \/ Kill
      BY <3>1, BoundsAssumption DEF InterruptJoin, Kill, Accounting, TypeOK
    <3>2. QED
      BY <1>3, <3>1, ActorsKeepMode DEF Next, InlineStep, BeginDrain, Shutdown, JoinReturns,
        StopWorkers, ExecutorShutdown, Restart, InlineRaises, CreateBatch, vars
  <2>2. QED
    BY <2>1 DEF StoppedIdle
<1>4. CASE mode = "stopping" /\ kills = 0
  <2>1. /\ queue = <<>> /\ \A r \in Runners : stage[r] = "idle"
        /\ \A u \in Uploads : handler[u] \in Answered \cup {"new"}
    BY <1>4 DEF StoppedIdle, Accounting, Quiet
  <2>2. ASSUME NEW u \in Uploads PROVE ~Receive(u) /\ ~HandlerStep(u)
    BY <1>4, <2>1 DEF Answered, Receive, HandlerStep, Lookup, PutBlob, CreateRow,
      CreateDuplicateRow, InsertDuplicate, BumpTotal, Bump, Enqueue, BlockOnQueue, FindFull,
      HandlerRaises
  <2>3. ASSUME NEW r \in Runners PROVE ~PipelineStep(r)
    BY <2>1 DEF PipelineStep, Profile, Upsert, UpsertThen, InsertChunks, StageRaises, SetReady,
      SetFailed, InTry
  <2>4. ASSUME NEW w \in Workers PROVE ~WorkerStep(w)
    BY <1>4, <2>1, <2>3 DEF WorkerStep, Get, Take, ReadBlob, JobRaises, TaskDone, Report,
      MarkProcessing, Record, Write, Working, InTry, Running
  <2>5. UNCHANGED <<queue, stage>> \/ mode' = "down"
    BY <1>4, <2>1, <2>2, <2>3, <2>4 DEF Next, InlineStep, BeginDrain, Shutdown, JoinReturns,
      StopWorkers, ExecutorShutdown, LoseProcess, InterruptJoin, Kill, Restart, InlineRaises,
      CreateBatch, vars
  <2>6. QED
    BY <2>1, <2>5 DEF StoppedIdle
<1>5. QED
  BY <1>1, <1>2, <1>3, <1>4

-----------------------------------------------------------------------------
\* A run is disturbed for good, and by these steps only.
LEMMA Disturbances ==
  ASSUME Accounting, [Next]_vars, Undisturbed'
  PROVE  /\ Undisturbed
         /\ ~InlineRaises /\ ~InterruptJoin /\ ~Kill
         /\ \A u \in Uploads : ~HandlerRaises(u)
         /\ \A r \in Runners : ~StageRaises(r)
         /\ \A w \in Workers : ~JobRaises(w)
<1> USE BoundsAssumption, WorkersFinite DEF Accounting, TypeOK, Undisturbed, stored, rowData, pool, runners, bounded
<1>1. ~InlineRaises /\ ~InterruptJoin /\ ~Kill
  BY DEF InlineRaises, InterruptJoin, Kill
<1>2. /\ \A u \in Uploads : ~HandlerRaises(u)
      /\ \A r \in Runners : ~StageRaises(r)
      /\ \A w \in Workers : ~JobRaises(w)
  BY DEF HandlerRaises, StageRaises, JobRaises, Raise
<1>3. ASSUME NEW u \in Uploads, Receive(u) \/ HandlerStep(u) PROVE UNCHANGED bounded
  BY <1>2, <1>3 DEF Receive, HandlerStep, Lookup, PutBlob, CreateRow, CreateDuplicateRow,
    InsertDuplicate, BumpTotal, Bump, Enqueue, Put, BlockOnQueue, FindFull
<1>4. ASSUME NEW r \in Runners, PipelineStep(r) PROVE UNCHANGED bounded
  BY <1>2, <1>4 DEF PipelineStep, Profile, Upsert, UpsertThen, InsertChunks, Store, SetReady,
    SetFailed, Settle
<1>5. ASSUME NEW w \in Workers, WorkerStep(w) PROVE UNCHANGED bounded
  BY <1>2, <1>4, <1>5 DEF WorkerStep, Get, Take, ReadBlob, TaskDone, Report, MarkProcessing,
    Record, Write
<1>6. UNCHANGED bounded
  BY <1>1, <1>3, <1>4, <1>5 DEF Next, InlineStep, BeginDrain, Shutdown, JoinReturns, StopWorkers,
    ExecutorShutdown, Restart, CreateBatch, vars
<1>7. QED
  BY <1>1, <1>2, <1>6

\* A handler passes its document on, to the queue or to the inline runner.
LEMMA HandlerPassesOn ==
  ASSUME Accounting, Owners, NEW v \in Uploads, Receive(v) \/ HandlerStep(v), ~HandlerRaises(v),
         NEW u \in Uploads, status'[u] \in Unsettled, status[u] \in Unsettled => Owned(u)
  PROVE  Owned(u)'
<1> USE NoneAssumption, WorkersFinite
    DEF Accounting, TypeOK, Go, stored, rowData, pool, runners, bounded
<1>1. CASE CreateRow(v)
  <2>1. CASE u = v
    BY <1>1, <2>1 DEF CreateRow, Owned, Working, InTry
  <2>2. CASE u # v
    <3>1. Owned(u) /\ handler'[u] = handler[u] /\ queue' = queue
      BY <1>1, <2>2 DEF CreateRow
    <3>2. CASE handler[u] \in {"bump", "enqueue", "waiting"} \/ u \in Queued
      BY <3>1, <3>2 DEF Owned, Queued
    <3>3. ASSUME NEW r \in Runners, job[r] = u, stage[r] \in Working
          PROVE  job'[r] = u /\ stage'[r] \in Working
      <4>1. r = EventLoop => handler[u] = "ingest"
        BY <3>3 DEF Owners, JobRow, Working, InTry
      <4>2. r # EventLoop
        BY <1>1, <2>2, <4>1 DEF CreateRow, Owners, LoopExclusive, OnLoop
      <4>3. QED
        BY <1>1, <3>3, <4>2 DEF CreateRow
    <3>4. QED
      BY <3>1, <3>2, <3>3 DEF Owned
  <2>3. QED
    BY <2>1, <2>2
<1>2. CASE Enqueue(v)
  <2>1. Queued' = Queued \cup {v}
    BY <1>2, Enqueued DEF Enqueue, Put
  <2>2. status' = status /\ UNCHANGED <<job, stage>> /\ \A x \in Uploads \ {v} : handler'[x] = handler[x]
    BY <1>2 DEF Enqueue, Put
  <2>3. QED
    BY <2>1, <2>2 DEF Owned
<1>3. CASE \/ Receive(v) \/ Lookup(v) \/ PutBlob(v) \/ CreateDuplicateRow(v)
           \/ BumpTotal(v) \/ BlockOnQueue(v)
  <2>1. /\ UNCHANGED <<queue, job, stage>>
        /\ \A x \in Uploads \ {v} : handler'[x] = handler[x] /\ status'[x] = status[x]
    BY <1>3 DEF Receive, Lookup, PutBlob, CreateDuplicateRow, InsertDuplicate, BumpTotal, Bump,
      BlockOnQueue, FindFull
  <2>2. /\ handler[v] \in {"bump", "enqueue", "waiting"} => handler'[v] \in {"bump", "enqueue", "waiting"}
        /\ status'[v] = status[v] \/ status'[v] = "duplicate"
    BY <1>3 DEF Receive, Lookup, PutBlob, CreateDuplicateRow, InsertDuplicate, BumpTotal, Bump,
      BlockOnQueue, FindFull
  <2>3. status[u] \in Unsettled
    BY <2>1, <2>2 DEF Unsettled
  <2>4. QED
    BY <2>1, <2>2, <2>3 DEF Owned, Queued
<1>4. QED
  BY <1>1, <1>2, <1>3 DEF HandlerStep

\* A runner keeps its document until it has settled it, and touches no other.
LEMMA RunnerPassesOn ==
  ASSUME Accounting, Owners, BlobThere, NEW u \in Uploads,
         \/ \E r \in Runners : PipelineStep(r)
         \/ \E w \in Workers : WorkerStep(w) /\ ~JobRaises(w),
         status'[u] \in Unsettled, status[u] \in Unsettled => Owned(u)
  PROVE  Owned(u)'
<1> USE NoneAssumption, WorkersFinite
    DEF Accounting, TypeOK, Employed, Go, Enter, stored, rowData, pool, runners, bounded
<1>1. ASSUME NEW r \in Runners, PipelineStep(r) PROVE Owned(u)'
  <2>1. CASE Profile(r) \/ Upsert(r) \/ InsertChunks(r) \/ StageRaises(r)
    BY <1>1, <2>1 DEF Profile, Upsert, UpsertThen, InsertChunks, Store, StageRaises, Raise, Owned,
      Queued, Working, InTry
  <2>2. CASE SetReady(r) \/ SetFailed(r)
    <3>1. job[r] \in Uploads /\ status'[job[r]] \notin Unsettled
      BY <2>2 DEF SetReady, SetFailed, Settle, Unsettled
    <3>2. u # job[r] /\ status'[u] = status[u] /\ queue' = queue /\ handler'[u] = handler[u]
      BY <2>2, <3>1 DEF SetReady, SetFailed, Settle
    <3>3. \A x \in Runners \ {r} : job'[x] = job[x] /\ stage'[x] = stage[x]
      BY <2>2 DEF SetReady, SetFailed, Settle
    <3>4. QED
      BY <3>1, <3>2, <3>3 DEF Owned, Queued
  <2>3. QED
    BY <1>1, <2>1, <2>2 DEF PipelineStep
<1>2. ASSUME NEW w \in Workers, Get(w) PROVE Owned(u)'
  <2>1. /\ queue # <<>> /\ stage[w] = "idle" /\ UNCHANGED <<handler, status>>
        /\ queue' = Tail(queue) /\ job' = [job EXCEPT ![w] = Head(queue)]
        /\ stage' = [stage EXCEPT ![w] = "blob"]
    BY <1>2 DEF Get, Take
  <2>2. Queued \subseteq Queued' \cup {Head(queue)}
    BY <2>1, Dequeued
  <2>3. Owned(u)
    BY <2>1
  <2>4. CASE u = Head(queue)
    BY <2>1, <2>4 DEF Owned, Working
  <2>5. CASE u # Head(queue)
    BY <2>1, <2>2, <2>3, <2>5 DEF Owned, Working, InTry
  <2>6. QED
    BY <2>4, <2>5
<1>3. ASSUME NEW w \in Workers, ReadBlob(w) PROVE Owned(u)'
  <2>1. /\ UNCHANGED <<handler, status, queue, job>> /\ stage[w] = "blob"
        /\ stage' = [stage EXCEPT ![w] = IF request[job[w]].file \in blobs THEN "mark" ELSE "finished"]
    BY <1>3 DEF ReadBlob
  <2>2. job[w] \in Uploads /\ status[job[w]] = "queued"
    BY <2>1 DEF Owners, JobRow
  <2>3. request[job[w]].file \in blobs
    BY <2>2 DEF BlobThere, Unsettled
  <2>4. QED
    BY <2>1, <2>3 DEF Owned, Queued, Working
<1>4. ASSUME NEW w \in Workers, MarkProcessing(w) PROVE Owned(u)'
  <2>1. /\ UNCHANGED <<handler, queue, job>> /\ stage[w] = "mark"
        /\ stage' = [stage EXCEPT ![w] = "profile"]
        /\ \A x \in Uploads \ {job[w]} : status'[x] = status[x]
    BY <1>4 DEF MarkProcessing
  <2>2. QED
    BY <2>1 DEF Owned, Queued, Working, InTry
<1>5. ASSUME NEW w \in Workers, Record(w) PROVE Owned(u)'
  <2>1. /\ UNCHANGED <<handler, queue, job>> /\ stage' = [stage EXCEPT ![w] = "finished"]
        /\ stage[w] # "idle" /\ status' = [status EXCEPT ![job[w]] = Outcome(w)]
    BY <1>5 DEF Record, Write
  <2>2. job[w] \in Uploads /\ Outcome(w) \notin Unsettled
    BY <2>1 DEF Outcome, Unsettled
  <2>3. u # job[w] /\ status'[u] = status[u]
    BY <2>1, <2>2
  <2>4. QED
    BY <2>1, <2>3 DEF Owned, Queued
<1>6. ASSUME NEW w \in Workers, TaskDone(w) PROVE Owned(u)'
  BY <1>6 DEF TaskDone, Report, Owned, Queued, Working, InTry
<1>7. QED
  BY <1>1, <1>2, <1>3, <1>4, <1>5, <1>6 DEF WorkerStep

\* Without a failure no row is ever left without somebody to settle it.
LEMMA NoneStrandedKept ==
  ASSUME Accounting, Owners, BlobThere, StoppedIdle, StrandedHasCause, [Next]_vars
  PROVE  StrandedHasCause'
<1> SUFFICES ASSUME Undisturbed', NEW u \in Uploads, status'[u] \in Unsettled
             PROVE  Owned(u)'
  BY DEF StrandedHasCause, Stranded
<1>1. Undisturbed /\ (status[u] \in Unsettled => Owned(u))
  BY Disturbances DEF StrandedHasCause, Stranded
<1>2. ASSUME NEW v \in Uploads, Receive(v) \/ HandlerStep(v) PROVE Owned(u)'
  BY <1>1, <1>2, Disturbances, HandlerPassesOn
<1>3. CASE (\E r \in Runners : PipelineStep(r)) \/ (\E w \in Workers : WorkerStep(w))
  BY <1>1, <1>3, Disturbances, RunnerPassesOn
<1>4. CASE ExecutorShutdown
  <2>1. status' = status /\ handler' = handler /\ mode = "stopping"
    BY <1>4 DEF ExecutorShutdown, stored
  <2>2. queue = <<>> /\ \A r \in Runners : stage[r] = "idle"
    BY <1>1, <2>1 DEF StoppedIdle, Undisturbed
  <2>3. handler[u] \in Answered \cup {"new"}
    BY <2>1 DEF Accounting, Quiet
  <2>4. ~Owned(u)
    BY <2>2, <2>3 DEF Owned, Queued, Working, InTry, Answered
  <2>5. QED
    BY <1>1, <2>1, <2>4
<1>5. CASE BeginDrain \/ JoinReturns \/ Restart \/ UNCHANGED vars \/ \E b \in Batches : CreateBatch(b)
  <2>1. UNCHANGED <<handler, status, queue, job, stage>>
    BY <1>5 DEF BeginDrain, JoinReturns, StopWorkers, Restart, CreateBatch, vars, stored, rowData,
      pool, runners, bounded
  <2>2. QED
    BY <1>1, <2>1 DEF Owned, Queued
<1>6. QED
  BY <1>2, <1>3, <1>4, <1>5, Disturbances, WorkersFinite DEF Next, InlineStep, Shutdown

-----------------------------------------------------------------------------
\* The inline runner is given single uploads, and requests do not change.
LEMMA InlineSingleKept ==
  ASSUME Accounting, InlineSingle, [Next]_vars PROVE InlineSingle'
<1> USE NoneAssumption, WorkersFinite
    DEF Accounting, TypeOK, Go, Enter, Employed, stored, rowData, pool, runners, bounded
<1>1. request' = request
  BY RequestKept
<1> DEFINE Fits == \/ stage'[EventLoop] = "idle"
                   \/ stage[EventLoop] # "idle" /\ job'[EventLoop] = job[EventLoop]
                   \/ job'[EventLoop] \in Uploads /\ Single(job'[EventLoop])
<1>2. Fits
  <2>1. ASSUME NEW u \in Uploads, CreateRow(u) PROVE Fits
    BY <2>1 DEF CreateRow
  <2>2. ASSUME NEW u \in Uploads, Receive(u) \/ HandlerStep(u), ~CreateRow(u)
        PROVE  UNCHANGED <<stage, job>>
    BY <2>2 DEF Receive, HandlerStep, Lookup, PutBlob, CreateDuplicateRow, InsertDuplicate,
      BumpTotal, Bump, Enqueue, Put, BlockOnQueue, FindFull, HandlerRaises
  <2>3. ASSUME NEW r \in Runners, PipelineStep(r) PROVE Fits
    BY <2>3 DEF PipelineStep, Profile, Upsert, UpsertThen, InsertChunks, Store, StageRaises, Raise,
      SetReady, SetFailed, Settle, InTry
  <2>4. ASSUME NEW w \in Workers, WorkerStep(w), ~PipelineStep(w)
        PROVE  stage'[EventLoop] = stage[EventLoop] /\ job'[EventLoop] = job[EventLoop]
    BY <2>4 DEF WorkerStep, Get, Take, ReadBlob, JobRaises, Raise, TaskDone, Report,
      MarkProcessing, Record, Write
  <2>5. CASE InterruptJoin
    BY <2>5 DEF InterruptJoin, StopWorkers
  <2>6. CASE Kill \/ ExecutorShutdown \/ InlineRaises
    BY <2>6 DEF Kill, ExecutorShutdown, LoseProcess, InlineRaises
  <2>7. CASE BeginDrain \/ JoinReturns \/ Restart \/ UNCHANGED vars \/ \E b \in Batches : CreateBatch(b)
    BY <2>7 DEF BeginDrain, JoinReturns, StopWorkers, Restart, CreateBatch, vars
  <2>8. QED
    BY <2>1, <2>2, <2>3, <2>4, <2>5, <2>6, <2>7 DEF Next, InlineStep, Shutdown
<1>3. QED
  BY <1>1, <1>2 DEF InlineSingle, Single

\* The metrics of a row come with the second write of its ready status, by the worker
\* that wrote the first.
LEMMA MetricsKept ==
  ASSUME Accounting, Owners, InlineSingle, StoppedIdle, MetricsFollowStatus, [Next]_vars
  PROVE  MetricsFollowStatus'
<1> USE NoneAssumption, WorkersFinite
    DEF Accounting, TypeOK, Go, Enter, Employed, stored, rowData, pool, runners, bounded
<1>1. request' = request
  BY RequestKept
<1>2. \A u \in Uploads : status[u] = "ready" => status'[u] = "ready"
  BY StatusSteps DEF Appears, Moves
<1>3. metered \subseteq metered'
  <2>1. ASSUME NEW u \in Uploads, Receive(u) \/ HandlerStep(u) PROVE UNCHANGED metered
    BY <2>1 DEF Receive, HandlerStep, Lookup, PutBlob, CreateRow, CreateDuplicateRow,
      InsertDuplicate, BumpTotal, Bump, Enqueue, Put, BlockOnQueue, FindFull, HandlerRaises
  <2>2. ASSUME NEW r \in Runners, PipelineStep(r) PROVE UNCHANGED metered
    BY <2>2 DEF PipelineStep, Profile, Upsert, UpsertThen, InsertChunks, Store, StageRaises, Raise,
      SetReady, SetFailed, Settle
  <2>3. ASSUME NEW w \in Workers, WorkerStep(w), ~PipelineStep(w) PROVE metered \subseteq metered'
    BY <2>3 DEF WorkerStep, Get, Take, ReadBlob, JobRaises, Raise, TaskDone, Report,
      MarkProcessing, Record, Write
  <2>4. QED
    BY <2>1, <2>2, <2>3 DEF Next, InlineStep, BeginDrain, Shutdown, JoinReturns, StopWorkers,
      ExecutorShutdown, InterruptJoin, Kill, Restart, InlineRaises, CreateBatch, vars
<1>4. \A u \in metered' \ metered : status'[u] = "ready"
  <2>1. ASSUME NEW w \in Workers, Record(w)
        PROVE  \A u \in metered' \ metered : status'[u] = "ready"
    BY <2>1 DEF Record, Write, Outcome
  <2>2. ASSUME NEW u \in Uploads, Receive(u) \/ HandlerStep(u) PROVE UNCHANGED metered
    BY <2>2 DEF Receive, HandlerStep, Lookup, PutBlob, CreateRow, CreateDuplicateRow,
      InsertDuplicate, BumpTotal, Bump, Enqueue, Put, BlockOnQueue, FindFull, HandlerRaises
  <2>3. ASSUME NEW r \in Runners, PipelineStep(r) PROVE UNCHANGED metered
    BY <2>3 DEF PipelineStep, Profile, Upsert, UpsertThen, InsertChunks, Store, StageRaises, Raise,
      SetReady, SetFailed, Settle
  <2>4. ASSUME NEW w \in Workers, WorkerStep(w), ~PipelineStep(w), ~Record(w) PROVE UNCHANGED metered
    BY <2>4 DEF WorkerStep, Get, Take, ReadBlob, JobRaises, Raise, TaskDone, Report, MarkProcessing
  <2>5. QED
    BY <2>1, <2>2, <2>3, <2>4 DEF Next, InlineStep, BeginDrain, Shutdown, JoinReturns,
      StopWorkers, ExecutorShutdown, InterruptJoin, Kill, Restart, InlineRaises, CreateBatch, vars
<1>5. ASSUME NEW u \in Uploads, status'[u] = "ready", status[u] # "ready", ~Single(u)
      PROVE  \E w \in Workers : job'[w] = u /\ stage'[w] = "recordReady"
  <2>1. \E r \in Runners : SetReady(r) /\ job[r] = u
    BY <1>5, StatusWriters DEF CreateRow, CreateDuplicateRow, InsertDuplicate, SetReady, SetFailed,
      Settle, MarkProcessing, Record, Write, Outcome, Owners, JobRow
  <2>2. PICK r \in Runners : SetReady(r) /\ job[r] = u
    BY <2>1
  <2>3. r # EventLoop
    BY <1>5, <2>2 DEF InlineSingle, SetReady
  <2>4. r \in Workers
    BY <2>3 DEF Runners
  <2>5. QED
    BY <2>2, <2>3, <2>4 DEF SetReady, Settle
<1>6. ASSUME NEW w \in Workers, stage[w] = "recordReady", Undisturbed'
      PROVE  (job'[w] = job[w] /\ stage'[w] = "recordReady") \/ job[w] \in metered'
  <2>1. ASSUME NEW v \in Runners, PipelineStep(v) PROVE job'[w] = job[w] /\ stage'[w] = "recordReady"
    BY <1>6, <2>1 DEF PipelineStep, Profile, Upsert, UpsertThen, InsertChunks, Store, StageRaises,
      Raise, SetReady, SetFailed, Settle, InTry
  <2>2. ASSUME NEW v \in Workers, WorkerStep(v), ~PipelineStep(v), ~JobRaises(v)
        PROVE  (job'[w] = job[w] /\ stage'[w] = "recordReady") \/ job[w] \in metered'
    BY <1>6, <2>2 DEF WorkerStep, Get, Take, ReadBlob, TaskDone, Report, MarkProcessing, Record,
      Write, Outcome
  <2>3. ASSUME NEW u \in Uploads, Receive(u) \/ HandlerStep(u)
        PROVE  job'[w] = job[w] /\ stage'[w] = "recordReady"
    BY <1>6, <2>3 DEF Receive, HandlerStep, Lookup, PutBlob, CreateRow, CreateDuplicateRow,
      InsertDuplicate, BumpTotal, Bump, Enqueue, Put, BlockOnQueue, FindFull, HandlerRaises
  <2>4. ~ExecutorShutdown
    BY <1>6 DEF ExecutorShutdown, Working
  <2>5. CASE BeginDrain \/ JoinReturns \/ Restart \/ UNCHANGED vars \/ \E b \in Batches : CreateBatch(b)
    BY <1>6, <2>5 DEF BeginDrain, JoinReturns, StopWorkers, Restart, CreateBatch, vars
  <2>6. ~InlineRaises /\ ~InterruptJoin /\ ~Kill /\ \A v \in Workers : ~JobRaises(v)
    BY <1>6, Disturbances
  <2>7. QED
    BY <2>1, <2>2, <2>3, <2>4, <2>5, <2>6 DEF Next, InlineStep, Shutdown
<1>7. Undisturbed' => Undisturbed
  BY Disturbances
<1>8. QED
  BY <1>1, <1>2, <1>3, <1>4, <1>5, <1>6, <1>7 DEF MetricsFollowStatus, Single

-----------------------------------------------------------------------------
\* The invariant of this module holds throughout.
LEMMA SettlingHolds == Spec => []Settling
<1>1. Init => Settling
  BY WorkersFinite DEF Init, Settling, BlobThere, StoppedIdle, InlineSingle, StrandedHasCause, Stranded,
    MetricsFollowStatus, Unsettled
<1>2. Accounting /\ Owners /\ Settling /\ [Next]_vars => Settling'
  BY BlobThereKept, StoppedIdleKept, InlineSingleKept, NoneStrandedKept, MetricsKept DEF Settling
<1>3. QED
  BY <1>1, <1>2, OwnersHold, PTL DEF Spec

\* Only a raised call or a kill can leave a row that says queued or processing with nobody
\* to ingest it.
THEOREM NoneIsLost == Spec => []StrandedHasCause
BY SettlingHolds, PTL DEF Settling

\* When drain_and_stop() has joined the queue, nothing is left to be worked on, and without
\* a raised call nothing is left unsettled.
THEOREM DrainIsComplete == Spec => []DrainFinishesWork
<1>1. Accounting /\ Settling => DrainFinishesWork
  BY DEF Accounting, Quiet, Settling, StoppedIdle, StrandedHasCause, Stranded, DrainFinishesWork,
    Undisturbed, Owned, Queued, Working, InTry, Answered
<1>2. QED
  BY <1>1, SettlingHolds, AccountingHolds, PTL

\* Metrics belong to ready rows alone, and reach every one unless a failure prevents it.
THEOREM MetricsAreRight == Spec => []MetricsFollowStatus
BY SettlingHolds, PTL DEF Settling

\* An exception in the try block of the pipeline never costs a row its owner.
THEOREM PoisonIsMarked == Spec => PoisonIsOwned
<1>1. ASSUME Accounting, Owners, [Next]_vars, NEW r \in Runners, NEW u \in Uploads,
             stage[r] \in InTry, job[r] = u, mode' # "down"
      PROVE  (Owned(u) \/ status[u] \in Terminal)'
  <2> USE NoneAssumption, WorkersFinite, <1>1
      DEF Accounting, TypeOK, Go, Enter, Employed, stored, rowData, pool, runners, bounded
  <2>1. stage'[r] = stage[r] /\ job'[r] = job[r] => Owned(u)'
    BY DEF Owned, Working
  <2>2. ASSUME NEW s \in Runners, PipelineStep(s) PROVE (Owned(u) \/ status[u] \in Terminal)'
    BY <2>2 DEF PipelineStep, Profile, Upsert, UpsertThen, InsertChunks, Store, StageRaises, Raise,
      SetReady, SetFailed, Settle, Owned, Working, InTry, Terminal
  <2>3. ASSUME NEW w \in Workers, WorkerStep(w), ~PipelineStep(w)
        PROVE  stage'[r] = stage[r] /\ job'[r] = job[r]
    BY <2>3 DEF WorkerStep, Get, Take, ReadBlob, JobRaises, Raise, TaskDone, Report,
      MarkProcessing, Record, Write, Working, InTry
  <2>4. ASSUME NEW v \in Uploads, CreateRow(v) PROVE stage'[r] = stage[r] /\ job'[r] = job[r]
    <3>1. r = EventLoop => handler[u] = "ingest"
      BY DEF Owners, JobRow, InTry
    <3>2. r # EventLoop
      BY <2>4, <3>1 DEF CreateRow, Owners, LoopExclusive, OnLoop
    <3>3. QED
      BY <2>4, <3>2 DEF CreateRow
  <2>5. ASSUME NEW v \in Uploads, Receive(v) \/ HandlerStep(v), ~CreateRow(v)
        PROVE  UNCHANGED <<stage, job>>
    BY <2>5 DEF Receive, HandlerStep, Lookup, PutBlob, CreateDuplicateRow, InsertDuplicate,
      BumpTotal, Bump, Enqueue, Put, BlockOnQueue, FindFull, HandlerRaises
  <2>6. CASE InterruptJoin \/ InlineRaises
    BY <2>6 DEF InterruptJoin, StopWorkers, InlineRaises, InTry, Owned, Working
  <2>7. CASE BeginDrain \/ JoinReturns \/ Restart \/ UNCHANGED vars \/ \E b \in Batches : CreateBatch(b)
    BY <2>7, <2>1 DEF BeginDrain, JoinReturns, StopWorkers, Restart, CreateBatch, vars
  <2>8. ~Kill /\ ~ExecutorShutdown
    BY DEF Kill, ExecutorShutdown, LoseProcess
  <2>9. QED
    BY <2>2, <2>3, <2>4, <2>5, <2>6, <2>7, <2>8, <2>1 DEF Next, InlineStep, Shutdown
<1>2. Accounting /\ Owners /\ [Next]_vars =>
        [\A r \in Runners, u \in Uploads :
           stage[r] \in InTry /\ job[r] = u /\ mode' # "down" =>
             (Owned(u) \/ status[u] \in Terminal)']_vars
  BY <1>1
<1>3. QED
  BY <1>2, OwnersHold, PTL DEF Spec, PoisonIsOwned

-----------------------------------------------------------------------------
(***************************************************************************)
(* What the rows of BulkIngest stand for, for any uploads, configuration,  *)
(* faults and kills: one original for the bytes of many uploads, and a     *)
(* complete set of stores behind each ready row.                           *)
(*                                                                         *)
(* Dedup has no uniqueness constraint to lean on.  It is right because no  *)
(* row of the same bytes can appear between a handler's look-up and its    *)
(* insert (Fresh), the loop being the handler's own; and a duplicate has   *)
(* an original because the row the look-up found stays (DupPending).       *)
(***************************************************************************)

SameFile(u) == {v \in Uploads : request[v].file = request[u].file}

\* A handler about to insert an original has found no row of its bytes, nor is there one.
Fresh ==
  \A u \in Uploads :
    handler[u] \in {"put", "create"} /\ request[u].dedup =>
      \A v \in SameFile(u) : status[v] = "absent"

HasOriginal(u) == \E v \in SameFile(u) : status[v] \notin {"absent", "duplicate"}

\* A handler about to insert a duplicate has an original to show for it.
DupPending == \A u \in Uploads : handler[u] = "dupCreate" => HasOriginal(u)

\* How far a runner has got tells what it has stored.
StoredSoFar ==
  \A r \in Runners :
    /\ stage[r] \in {"upsert", "chunks", "ready"} => job[r] \in profiled
    /\ stage[r] \in {"chunks", "ready"} => job[r] \in vectors
    /\ stage[r] = "ready" => job[r] \in chunks

-----------------------------------------------------------------------------
\* No row of the same bytes appears while a handler is about to insert its own.
LEMMA FreshKept ==
  ASSUME Accounting, Owners, Fresh, [Next]_vars PROVE Fresh'
<1> SUFFICES ASSUME NEW u \in Uploads, handler'[u] \in {"put", "create"}, request'[u].dedup,
                    NEW v \in Uploads, request'[v].file = request'[u].file
             PROVE  status'[v] = "absent"
  BY DEF Fresh, SameFile
<1>1. request' = request
  BY RequestKept
<1>2. \/ handler[u] \in {"put", "create"}
      \/ UNCHANGED status /\ ~HasRow(u)
  BY <1>1, InsertFollowsLookup DEF Accounting, TypeOK
<1>3. CASE UNCHANGED status /\ ~HasRow(u)
  BY <1>1, <1>3 DEF HasRow
<1>4. CASE handler[u] \in {"put", "create"}
  <2>1. status[v] = "absent"
    BY <1>1, <1>4 DEF Fresh, SameFile
  <2>2. ~Appears(v)
    <3>1. SUFFICES ASSUME Appears(v) PROVE FALSE
      OBVIOUS
    <3>2. handler[v] \in OnLoop /\ handler[u] \in OnLoop
      BY <1>4, <3>1 DEF Appears, OnLoop
    <3>3. v = u
      BY <3>2 DEF Owners, LoopExclusive
    <3>4. QED
      BY <3>1, <3>3 DEF Appears
  <2>3. QED
    BY <2>1, <2>2, StatusSteps DEF Moves
<1>5. QED
  BY <1>2, <1>3, <1>4

\* A row that is an original, and its bytes, stay.
LEMMA OriginalStays ==
  ASSUME Accounting, Owners, [Next]_vars, NEW u \in Uploads, HasOriginal(u)
  PROVE  HasOriginal(u)'
<1>1. PICK v \in Uploads : /\ request[v].file = request[u].file
                           /\ status[v] \notin {"absent", "duplicate"}
  BY DEF HasOriginal, SameFile
<1>2. status'[v] \notin {"absent", "duplicate"}
  BY <1>1, StatusSteps DEF Appears, Moves
<1>3. QED
  BY <1>1, <1>2, RequestKept DEF HasOriginal, SameFile

\* A look-up that ends in a duplicate has found an original, at one remove perhaps.
LEMMA DupPendingKept ==
  ASSUME Accounting, Owners, DupPending, DuplicateHasOriginal, [Next]_vars
  PROVE  DupPending' /\ DuplicateHasOriginal'
<1>1. ASSUME NEW u \in Uploads, handler'[u] = "dupCreate" PROVE HasOriginal(u)'
  <2>1. CASE handler[u] = "dupCreate"
    BY <2>1, OriginalStays DEF DupPending
  <2>2. CASE handler[u] # "dupCreate"
    <3>1. HasRow(u)
      BY <1>1, <2>2, InsertFollowsLookup DEF Accounting, TypeOK
    <3>2. PICK v \in Uploads : status[v] # "absent" /\ request[v].file = request[u].file
      BY <3>1 DEF HasRow
    <3>3. HasOriginal(u)
      BY <3>2 DEF DuplicateHasOriginal, HasOriginal, SameFile
    <3>4. QED
      BY <3>3, OriginalStays
  <2>3. QED
    BY <2>1, <2>2
<1>2. ASSUME NEW u \in Uploads, status'[u] = "duplicate" PROVE HasOriginal(u)'
  <2>1. status[u] = "duplicate" \/ handler[u] = "dupCreate"
    BY <1>2, StatusSteps DEF Appears, Moves, Unsettled
  <2>2. HasOriginal(u)
    BY <2>1 DEF DupPending, DuplicateHasOriginal, HasOriginal, SameFile
  <2>3. QED
    BY <2>2, OriginalStays
<1>3. QED
  BY <1>1, <1>2 DEF DupPending, DuplicateHasOriginal, HasOriginal, SameFile

\* Originals stay single.
LEMMA OriginalsStaySingle ==
  ASSUME Accounting, Owners, Fresh, AtMostOneOriginal, [Next]_vars
  PROVE  AtMostOneOriginal'
<1> SUFFICES ASSUME NEW u \in Uploads, NEW v \in Uploads, u # v,
                    request'[u].file = request'[v].file, request'[u].dedup, request'[v].dedup,
                    status'[u] # "absent", status'[v] # "absent"
             PROVE  "duplicate" \in {status'[u], status'[v]}
  BY DEF AtMostOneOriginal
<1>1. request' = request
  BY RequestKept
<1>2. ASSUME NEW x \in Uploads, NEW y \in Uploads, x # y, Appears(x),
             request[x].file = request[y].file, request[x].dedup, status'[y] # "absent"
      PROVE  status'[x] = "duplicate"
  <2>1. status[y] # "absent"
    BY <1>2 DEF Appears
  <2>2. handler[x] # "create"
    BY <1>2, <2>1 DEF Fresh, SameFile
  <2>3. QED
    BY <1>2, <2>2 DEF Appears
<1>3. CASE Appears(u)
  BY <1>1, <1>2, <1>3
<1>4. CASE Appears(v)
  BY <1>1, <1>2, <1>4
<1>5. CASE ~Appears(u) /\ ~Appears(v)
  <2>1. \A x \in {u, v} :
          /\ status[x] = "absent" => status'[x] = "absent"
          /\ status[x] = "duplicate" => status'[x] = "duplicate"
    BY <1>5, StatusSteps DEF Moves
  <2>2. QED
    BY <1>1, <2>1 DEF AtMostOneOriginal
<1>6. QED
  BY <1>3, <1>4, <1>5

-----------------------------------------------------------------------------
\* What is stored stays, and a runner gets on only by storing.
LEMMA StoresGrow ==
  ASSUME [Next]_vars, Accounting
  PROVE  /\ profiled \subseteq profiled' /\ vectors \subseteq vectors' /\ chunks \subseteq chunks'
         /\ \A r \in Runners :
              \/ stage'[r] = stage[r] /\ (stage[r] = "idle" \/ job'[r] = job[r])
              \/ stage'[r] \notin {"upsert", "chunks", "ready"}
              \/ /\ job'[r] = job[r]
                 /\ stage'[r] = "upsert" => job[r] \in profiled'
                 /\ stage'[r] = "chunks" => stage[r] = "upsert" /\ job[r] \in vectors'
                 /\ stage'[r] = "ready" => stage[r] = "chunks" /\ job[r] \in chunks'
<1> USE WorkersFinite DEF Accounting, TypeOK, Go, Enter, stored, rowData, pool, runners, bounded
<1>1. ASSUME NEW u \in Uploads, Receive(u) \/ HandlerStep(u)
      PROVE  /\ UNCHANGED rowData
             /\ \A r \in Runners : \/ stage'[r] = stage[r] /\ job'[r] = job[r]
                                   \/ stage'[r] = "profile"
  BY <1>1 DEF Receive, HandlerStep, Lookup, PutBlob, CreateRow, CreateDuplicateRow, InsertDuplicate,
    BumpTotal, Bump, Enqueue, Put, BlockOnQueue, FindFull, HandlerRaises
<1>2. ASSUME NEW w \in Workers, WorkerStep(w), ~PipelineStep(w)
      PROVE  /\ UNCHANGED <<profiled, vectors, chunks>>
             /\ \A r \in Runners : \/ stage'[r] = stage[r] /\ job'[r] = job[r]
                                   \/ stage'[r] \notin {"upsert", "chunks", "ready"}
  BY <1>2 DEF WorkerStep, Get, Take, ReadBlob, MarkProcessing, Record, Write, JobRaises, Raise,
    TaskDone, Report
<1>3. ASSUME NEW s \in Runners, SetReady(s) \/ SetFailed(s) \/ StageRaises(s)
      PROVE  /\ UNCHANGED <<profiled, vectors, chunks>>
             /\ \A r \in Runners : \/ stage'[r] = stage[r] /\ job'[r] = job[r]
                                   \/ stage'[r] \notin {"upsert", "chunks", "ready"}
  BY <1>3 DEF SetReady, SetFailed, Settle, StageRaises, Raise
<1>4. ASSUME NEW s \in Runners, Profile(s) \/ Upsert(s) \/ InsertChunks(s)
      PROVE  /\ profiled \subseteq profiled' /\ vectors \subseteq vectors' /\ chunks \subseteq chunks'
             /\ job' = job
             /\ \A r \in Runners \ {s} : stage'[r] = stage[r]
             /\ \/ stage'[s] = "upsert" /\ job[s] \in profiled'
                \/ stage'[s] = "chunks" /\ stage[s] = "upsert" /\ job[s] \in vectors'
                \/ stage'[s] = "ready" /\ stage[s] = "chunks" /\ job[s] \in chunks'
  BY <1>4 DEF Profile, Upsert, UpsertThen, InsertChunks, Store
<1>5. ASSUME \/ BeginDrain \/ Shutdown \/ InterruptJoin \/ Kill \/ Restart \/ InlineRaises
             \/ \E b \in Batches : CreateBatch(b)
      PROVE  /\ UNCHANGED rowData
             /\ \A r \in Runners : \/ stage'[r] = stage[r] /\ job'[r] = job[r]
                                   \/ stage'[r] \notin {"upsert", "chunks", "ready"}
  BY <1>5 DEF BeginDrain, Shutdown, JoinReturns, StopWorkers, ExecutorShutdown, LoseProcess,
    InterruptJoin, Kill, Restart, InlineRaises, CreateBatch
<1>6. CASE UNCHANGED vars
  BY <1>6 DEF vars
<1>7. QED
  BY <1>1, <1>2, <1>3, <1>4, <1>5, <1>6 DEF Next, InlineStep, PipelineStep

\* Hence the stores keep up with the runners, and a ready row has all of them.
LEMMA CompletenessKept ==
  ASSUME Accounting, Owners, StoredSoFar, ReadyIsComplete, [Next]_vars
  PROVE  StoredSoFar' /\ ReadyIsComplete'
<1>1. StoredSoFar'
  BY StoresGrow DEF StoredSoFar
<1>2. ASSUME NEW u \in Uploads, status'[u] = "ready" PROVE u \in profiled \cap vectors \cap chunks
  BY <1>2, StatusSteps DEF Appears, Moves, Unsettled, StoredSoFar, ReadyIsComplete
<1>3. QED
  BY <1>1, <1>2, StoresGrow DEF ReadyIsComplete

-----------------------------------------------------------------------------
RowsOf(b)    == {u \in Uploads : request[u].batch = b /\ status[u] # "absent"}
Counted(b) == {u \in RowsOf(b) : handler[u] \notin {"bump", "dupBump"}}

\* A batch's total counts rows that are past their bump, all of them unless a call has
\* raised, or the process died, between the insert and the bump.
TotalsCount ==
  \A b \in Batches :
    /\ total[b] <= Cardinality(Counted(b))
    /\ Undisturbed => total[b] = Cardinality(Counted(b))

\* The rows of a batch can be counted.
LEMMA CountedFinite ==
  ASSUME NEW b PROVE /\ IsFiniteSet(RowsOf(b)) /\ IsFiniteSet(Counted(b))
                     /\ Cardinality(RowsOf(b)) \in Nat /\ Cardinality(Counted(b)) \in Nat
<1>1. RowsOf(b) \subseteq Uploads /\ Counted(b) \subseteq Uploads
  BY DEF RowsOf, Counted
<1>2. QED
  BY <1>1, FiniteAssumption, FS_Subset, FS_CardinalityType

\* How handlers reach and leave the bump.
LEMMA BumpMoves ==
  ASSUME Accounting, Owners, [Next]_vars, NEW u \in Uploads
  PROVE  /\ handler'[u] \in {"bump", "dupBump"} =>
              handler[u] \in {"create", "dupCreate", "bump", "dupBump"}
         /\ handler[u] \in {"bump", "dupBump"} =>
              \/ handler'[u] = handler[u]
              \/ BumpTotal(u) \/ HandlerRaises(u) \/ Kill
         /\ handler[u] \in {"create", "dupCreate"} =>
              \/ handler'[u] = handler[u] \/ status'[u] # "absent"
              \/ handler'[u] \notin {"bump", "dupBump"}
<1> USE WorkersFinite DEF Accounting, TypeOK, Go, stored, rowData, pool, runners, bounded
<1>1. ASSUME NEW v \in Uploads, Receive(v) \/ HandlerStep(v), ~BumpTotal(v), ~HandlerRaises(v)
      PROVE  \/ handler'[u] = handler[u]
             \/ CreateRow(u) \/ CreateDuplicateRow(u)
             \/ /\ handler[u] \notin {"create", "dupCreate", "bump", "dupBump"}
                /\ handler'[u] \notin {"bump", "dupBump"}
  BY <1>1 DEF Receive, HandlerStep, Lookup, PutBlob, CreateRow, CreateDuplicateRow, InsertDuplicate,
    Enqueue, Put, BlockOnQueue, FindFull
<1>2. ASSUME NEW v \in Uploads, BumpTotal(v) \/ HandlerRaises(v)
      PROVE  v = u \/ handler'[u] = handler[u]
  BY <1>2 DEF BumpTotal, Bump, HandlerRaises
<1>3. CASE BumpTotal(u) \/ HandlerRaises(u) \/ Kill
  BY <1>3 DEF BumpTotal, Bump, HandlerRaises, Kill, Answered
<1>4. CASE CreateRow(u) \/ CreateDuplicateRow(u)
  BY <1>4 DEF CreateRow, CreateDuplicateRow, InsertDuplicate
<1>5. ASSUME NEW r \in Runners, PipelineStep(r)
      PROVE  handler'[u] = handler[u] \/ (handler'[u] = "done" /\ handler[u] = "ingest")
  BY <1>5 DEF Owners, JobRow, InTry, PipelineStep, Profile, Upsert, UpsertThen, InsertChunks, Store, StageRaises, Raise,
    SetReady, SetFailed, Settle
<1>6. ASSUME NEW w \in Workers, WorkerStep(w), ~PipelineStep(w) PROVE UNCHANGED handler
  BY <1>6 DEF WorkerStep, Get, Take, ReadBlob, JobRaises, Raise, TaskDone, Report, MarkProcessing,
    Record, Write
<1>7. CASE InlineRaises
  BY <1>7 DEF InlineRaises, Owners, JobRow
<1>8. QED
  BY <1>1, <1>2, <1>3, <1>4, <1>5, <1>6, <1>7 DEF Next, InlineStep, BeginDrain, Shutdown,
    JoinReturns, StopWorkers, ExecutorShutdown, InterruptJoin, Restart, CreateBatch, vars

\* A row once counted stays so.
LEMMA CountedGrows ==
  ASSUME Accounting, Owners, [Next]_vars, NEW b PROVE Counted(b) \subseteq Counted(b)'
<1>1. ASSUME NEW u \in Counted(b) PROVE u \in Counted(b)'
  <2>1. /\ u \in Uploads /\ request[u].batch = b /\ status[u] # "absent"
        /\ handler[u] \notin {"bump", "dupBump"}
    BY DEF Counted, RowsOf
  <2>2. status'[u] # "absent"
    BY <2>1, StatusSteps DEF Appears, Moves
  <2>3. handler[u] \notin {"create", "dupCreate"}
    BY <2>1 DEF Owners, HandlerRow
  <2>4. handler'[u] \notin {"bump", "dupBump"}
    BY <2>1, <2>3, BumpMoves
  <2>5. QED
    BY <2>1, <2>2, <2>4, RequestKept DEF Counted, RowsOf
<1>2. QED
  BY <1>1

\* Without a failure, only a bump has a row counted.
LEMMA CountedByBump ==
  ASSUME Accounting, Owners, [Next]_vars, NEW b \in Batches, NEW u \in Counted(b)', u \notin Counted(b)
  PROVE  BumpTotal(u) \/ HandlerRaises(u) \/ Kill
<1>1. /\ u \in Uploads /\ request[u].batch = b /\ status'[u] # "absent"
      /\ handler'[u] \notin {"bump", "dupBump"}
  BY RequestKept DEF Counted, RowsOf
<1>2. CASE status[u] = "absent"
  <2>1. Appears(u)
    BY <1>1, <1>2, StatusSteps DEF Moves
  <2>2. Single(u)
    BY <1>1, <2>1 DEF Appears
  <2>3. QED
    BY <1>1, <2>2, NoneAssumption DEF Single
<1>3. CASE status[u] # "absent"
  <2>1. handler[u] \in {"bump", "dupBump"}
    BY <1>1, <1>3 DEF Counted, RowsOf
  <2>2. QED
    BY <1>1, <2>1, BumpMoves
<1>4. QED
  BY <1>2, <1>3

\* The total moves with a bump, and with nothing else.
LEMMA TotalMoves ==
  ASSUME [Next]_vars, \A u \in Uploads : ~BumpTotal(u) PROVE total' = total
<1> USE WorkersFinite DEF Go, stored, rowData, pool, runners, bounded
<1>1. ASSUME NEW u \in Uploads, Receive(u) \/ HandlerStep(u) PROVE total' = total
  BY <1>1 DEF Receive, HandlerStep, Lookup, PutBlob, CreateRow, CreateDuplicateRow, InsertDuplicate,
    Enqueue, Put, BlockOnQueue, FindFull, HandlerRaises
<1>2. ASSUME NEW r \in Runners, PipelineStep(r) PROVE total' = total
  BY <1>2 DEF PipelineStep, Profile, Upsert, UpsertThen, InsertChunks, Store, StageRaises, Raise,
    SetReady, SetFailed, Settle
<1>3. ASSUME NEW w \in Workers, WorkerStep(w), ~PipelineStep(w) PROVE total' = total
  BY <1>3 DEF WorkerStep, Get, Take, ReadBlob, JobRaises, Raise, TaskDone, Report, MarkProcessing,
    Record, Write
<1>4. QED
  BY <1>1, <1>2, <1>3 DEF Next, InlineStep, BeginDrain, Shutdown, JoinReturns, StopWorkers,
    ExecutorShutdown, InterruptJoin, Kill, Restart, InlineRaises, CreateBatch, vars

\* Totals follow the rows that are past their bump.
LEMMA TotalsKept ==
  ASSUME Accounting, Owners, TotalsCount, [Next]_vars PROVE TotalsCount'
<1> SUFFICES ASSUME NEW b \in Batches
             PROVE  /\ total'[b] <= Cardinality(Counted(b)')
                    /\ Undisturbed' => total'[b] = Cardinality(Counted(b)')
  BY DEF TotalsCount
<1>1. total[b] \in Nat /\ total[b] <= Cardinality(Counted(b))
      /\ (Undisturbed => total[b] = Cardinality(Counted(b)))
  BY DEF TotalsCount, Accounting, TypeOK
<1>2. IsFiniteSet(Counted(b)) /\ Cardinality(Counted(b)) \in Nat
  BY CountedFinite
<1>3. IsFiniteSet(Counted(b)') /\ Cardinality(Counted(b)') \in Nat
  <2>1. Counted(b)' \subseteq Uploads
    BY DEF Counted, RowsOf
  <2>2. QED
    BY <2>1, FiniteAssumption, FS_Subset, FS_CardinalityType
<1>4. Counted(b) \subseteq Counted(b)' /\ Cardinality(Counted(b)) <= Cardinality(Counted(b)')
  BY <1>2, <1>3, CountedGrows, FS_Subset
<1>5. Undisturbed' => Undisturbed
  BY Disturbances
<1>6. ASSUME NEW u \in Uploads, BumpTotal(u), request[u].batch = b
      PROVE  total'[b] = total[b] + 1 /\ Counted(b)' = Counted(b) \cup {u} /\ u \notin Counted(b)
  <2>1. /\ handler[u] \in {"bump", "dupBump"} /\ handler'[u] \in {"enqueue", "done"}
        /\ \A v \in Uploads \ {u} : handler'[v] = handler[v]
        /\ status' = status /\ request' = request /\ total'[b] = total[b] + 1
    BY <1>6 DEF BumpTotal, Bump, Go, Accounting, TypeOK
  <2>2. status[u] # "absent"
    BY <2>1 DEF Owners, HandlerRow
  <2>3. QED
    BY <1>6, <2>1, <2>2 DEF Counted, RowsOf
<1>7. CASE \E u \in Uploads : BumpTotal(u) /\ request[u].batch = b
  <2>1. Cardinality(Counted(b)') = Cardinality(Counted(b)) + 1 /\ total'[b] = total[b] + 1
    BY <1>2, <1>6, <1>7, FS_AddElement
  <2>2. QED
    BY <1>1, <1>2, <1>5, <2>1
<1>8. CASE ~\E u \in Uploads : BumpTotal(u) /\ request[u].batch = b
  <2>1. total'[b] = total[b]
    BY <1>8, TotalMoves DEF BumpTotal, Bump, Accounting, TypeOK
  <2>2. Undisturbed' => Counted(b)' = Counted(b)
    <3>1. SUFFICES ASSUME Undisturbed', NEW u \in Counted(b)', u \notin Counted(b) PROVE FALSE
      BY <1>4
    <3>2. u \in Uploads /\ request[u].batch = b
      BY RequestKept DEF Counted, RowsOf
    <3>3. QED
      BY <1>8, <3>1, <3>2, CountedByBump, Disturbances
  <2>3. QED
    BY <1>1, <1>2, <1>3, <1>4, <1>5, <2>1, <2>2
<1>9. QED
  BY <1>7, <1>8

-----------------------------------------------------------------------------
\* The invariant of this module.
Content == Fresh /\ AtMostOneOriginal /\ DupPending /\ DuplicateHasOriginal
             /\ StoredSoFar /\ ReadyIsComplete /\ TotalsCount

\* It holds throughout.
LEMMA ContentHolds == Spec => []Content
<1>1. Init => Content
  <2> SUFFICES ASSUME Init PROVE Content
    OBVIOUS
  <2>1. TotalsCount
    <3>1. \A b \in Batches : Counted(b) = {} /\ total[b] = 0
      BY DEF Init, Counted, RowsOf
    <3>2. QED
      BY <3>1, FS_EmptySet DEF TotalsCount
  <2>2. QED
    BY <2>1 DEF Init, Content, Fresh, AtMostOneOriginal, DupPending, DuplicateHasOriginal,
      StoredSoFar, ReadyIsComplete
<1>2. Accounting /\ Owners /\ Content /\ [Next]_vars => Content'
  BY FreshKept, OriginalsStaySingle, DupPendingKept, CompletenessKept, TotalsKept DEF Content
<1>3. QED
  BY <1>1, <1>2, OwnersHold, PTL DEF Spec

\* Dedup: of the uploads of the same bytes that ask for it, through either endpoint, one
\* at most is ingested, although the look-up and the insert are two statements.
THEOREM DedupIsAtomic == Spec => []AtMostOneOriginal
BY ContentHolds, PTL DEF Content

\* Dedup never leaves the content of an upload without a row that is, or was, ingested.
THEOREM DuplicatesPointSomewhere == Spec => []DuplicateHasOriginal
BY ContentHolds, PTL DEF Content

\* No row says ready before its profile, its vectors and its chunk rows are stored.
THEOREM ReadyRowsAreComplete == Spec => []ReadyIsComplete
BY ContentHolds, PTL DEF Content

\* The total a poller waits for never runs ahead of the rows, and is behind only by the
\* uploads between their insert and their bump, failures apart.
THEOREM TotalsAreRight == Spec => []TotalFollowsRows
<1>1. ASSUME TotalsCount, TypeOK PROVE TotalFollowsRows
  <2>1. ASSUME NEW b \in Batches
        PROVE  /\ total[b] <= Cardinality(RowsOf(b))
               /\ Undisturbed => total[b] = Cardinality(RowsOf(b))
                    - Cardinality({u \in RowsOf(b) : handler[u] \in {"bump", "dupBump"}})
    <3> DEFINE behind == {u \in RowsOf(b) : handler[u] \in {"bump", "dupBump"}}
    <3>1. Counted(b) = RowsOf(b) \ behind /\ behind \subseteq RowsOf(b) /\ RowsOf(b) \cap behind = behind
      BY DEF Counted
    <3>2. IsFiniteSet(RowsOf(b)) /\ Cardinality(RowsOf(b)) \in Nat
      BY CountedFinite
    <3>3. IsFiniteSet(behind) /\ Cardinality(behind) \in Nat /\ Cardinality(behind) <= Cardinality(RowsOf(b))
      BY <3>1, <3>2, FS_Subset, FS_CardinalityType
    <3>4. Cardinality(Counted(b)) = Cardinality(RowsOf(b)) - Cardinality(behind)
      BY <3>1, <3>2, <3>3, FS_Difference
    <3>5. total[b] \in Nat /\ total[b] <= Cardinality(Counted(b))
          /\ (Undisturbed => total[b] = Cardinality(Counted(b)))
      BY <1>1 DEF TotalsCount, TypeOK
    <3>6. QED
      BY <3>2, <3>3, <3>4, <3>5
  <2>2. QED
    BY <2>1 DEF TotalFollowsRows, RowsOf
<1>2. QED
  BY <1>1, ContentHolds, TypeCorrect, PTL DEF Content

-----------------------------------------------------------------------------
(* Refinement: BulkIngest implements the safety part of DocLifecycle.  Seen  *)
(* as rows alone, each of its steps is a step of the life of one row, the    *)
(* stranding of some rows, or nothing at all.                                *)
(*                                                                           *)
(* Two facts carry the proof.  A stranded row stays as it is, since only     *)
(* owners move rows and nobody becomes the owner of one that has none        *)
(* (StrandedStays).  And a step that changes a status or a store strands     *)
(* nobody, since it is an owner's own (NoneStrandedByWork).                  *)

StrandedRows == {u \in Uploads : Stranded(u)}
CompleteRows == profiled \cap vectors \cap chunks

\* The steps that change what DocLifecycle sees of a row, other than its being stranded.
Works ==
  \/ \E u \in Uploads : CreateRow(u) \/ CreateDuplicateRow(u)
  \/ \E r \in Runners : Profile(r) \/ Upsert(r) \/ InsertChunks(r) \/ SetReady(r) \/ SetFailed(r)
  \/ \E w \in Workers : MarkProcessing(w) \/ Record(w)

-----------------------------------------------------------------------------
\* All other steps leave statuses and stores alone.
LEMMA OtherSteps ==
  ASSUME [Next]_vars, ~Works PROVE UNCHANGED <<status, profiled, vectors, chunks>>
<1> USE WorkersFinite DEF Works, stored, rowData, pool, runners, bounded
<1>1. ASSUME NEW u \in Uploads, Receive(u) \/ HandlerStep(u)
      PROVE  UNCHANGED <<status, profiled, vectors, chunks>>
  BY <1>1 DEF Receive, HandlerStep, Lookup, PutBlob, BumpTotal, Bump, Enqueue, Put, BlockOnQueue,
    FindFull, HandlerRaises
<1>2. ASSUME NEW r \in Runners, PipelineStep(r)
      PROVE  UNCHANGED <<status, profiled, vectors, chunks>>
  BY <1>2 DEF PipelineStep, StageRaises, Raise
<1>3. ASSUME NEW w \in Workers, WorkerStep(w), ~PipelineStep(w)
      PROVE  UNCHANGED <<status, profiled, vectors, chunks>>
  BY <1>3 DEF WorkerStep, Get, Take, ReadBlob, JobRaises, Raise, TaskDone, Report
<1>4. QED
  BY <1>1, <1>2, <1>3 DEF Next, InlineStep, BeginDrain, Shutdown, JoinReturns, StopWorkers,
    ExecutorShutdown, InterruptJoin, Kill, Restart, InlineRaises, CreateBatch, vars

\* Work strands nobody.
LEMMA NoneStrandedByWork ==
  ASSUME Accounting, Owners, BlobThere, Works, NEW u \in Uploads, Stranded(u)'
  PROVE  Stranded(u)
<1> SUFFICES ASSUME ~Stranded(u) PROVE Owned(u)'
  BY DEF Stranded
<1>1. status'[u] \in Unsettled /\ (status[u] \in Unsettled => Owned(u))
  BY DEF Stranded
<1>2. ASSUME NEW v \in Uploads, CreateRow(v) \/ CreateDuplicateRow(v) PROVE Owned(u)'
  <2>1. HandlerStep(v) /\ ~HandlerRaises(v)
    BY <1>2 DEF HandlerStep, HandlerRaises, CreateRow, CreateDuplicateRow, InsertDuplicate, Go,
      bounded, Accounting, TypeOK
  <2>2. QED
    BY <1>1, <2>1, HandlerPassesOn
<1>3. ASSUME NEW w \in Workers, MarkProcessing(w) \/ Record(w) PROVE Owned(u)'
  <2>1. WorkerStep(w) /\ ~JobRaises(w)
    BY <1>3 DEF WorkerStep, JobRaises, Raise, MarkProcessing, Record, Write, bounded, Accounting,
      TypeOK
  <2>2. QED
    BY <1>1, <2>1, RunnerPassesOn
<1>4. ASSUME NEW r \in Runners, PipelineStep(r) PROVE Owned(u)'
  BY <1>1, <1>4, RunnerPassesOn
<1>5. QED
  BY <1>2, <1>3, <1>4 DEF Works, PipelineStep

\* Nobody becomes the owner of a row that has none.
LEMMA StrandedStays ==
  ASSUME Accounting, Owners, [Next]_vars, NEW u \in Uploads, Stranded(u)
  PROVE  Stranded(u)'
<1> USE NoneAssumption, WorkersFinite
    DEF Accounting, TypeOK, Employed, Go, Enter, stored, rowData, pool, runners, bounded
<1>1. /\ status[u] \in Unsettled /\ handler[u] \notin {"bump", "enqueue", "waiting"}
      /\ u \notin Queued /\ \A r \in Runners : job[r] = u => stage[r] \notin Working
  BY DEF Stranded, Owned
<1>2. handler[u] \notin {"new", "reading", "put", "create", "dupCreate"}
  BY <1>1 DEF Owners, HandlerRow, Unsettled
<1>3. handler'[u] \notin {"bump", "enqueue", "waiting"}
  <2>1. ASSUME NEW v \in Uploads, Receive(v) \/ HandlerStep(v)
        PROVE  handler'[u] = handler[u] \/ handler'[u] \notin {"bump", "enqueue", "waiting"}
    BY <1>1, <1>2, <2>1 DEF Receive, HandlerStep, Lookup, PutBlob, CreateRow, CreateDuplicateRow,
      InsertDuplicate, BumpTotal, Bump, Enqueue, Put, BlockOnQueue, FindFull, HandlerRaises
  <2>2. ASSUME NEW r \in Runners, PipelineStep(r)
        PROVE  handler'[u] = handler[u] \/ handler'[u] = "done"
    BY <2>2 DEF PipelineStep, Profile, Upsert, UpsertThen, InsertChunks, Store, StageRaises, Raise,
      SetReady, SetFailed, Settle
  <2>3. ASSUME NEW w \in Workers, WorkerStep(w), ~PipelineStep(w) PROVE UNCHANGED handler
    BY <2>3 DEF WorkerStep, Get, Take, ReadBlob, JobRaises, Raise, TaskDone, Report,
      MarkProcessing, Record, Write
  <2>4. CASE InlineRaises \/ Kill
    BY <1>1, <2>4 DEF InlineRaises, Kill, Answered
  <2>5. CASE \/ BeginDrain \/ Shutdown \/ InterruptJoin \/ Restart \/ UNCHANGED vars
             \/ \E b \in Batches : CreateBatch(b)
    BY <1>1, <2>5 DEF BeginDrain, Shutdown, JoinReturns, StopWorkers, ExecutorShutdown,
      InterruptJoin, Restart, CreateBatch, vars
  <2>6. QED
    BY <1>1, <2>1, <2>2, <2>3, <2>4, <2>5 DEF Next, InlineStep
<1>4. u \notin Queued' /\ \A r \in Runners : job'[r] = u => stage'[r] \notin Working
  <2> DEFINE NoneTakes == u \notin Queued' /\ \A r \in Runners : job'[r] = u => stage'[r] \notin Working
  <2>1. ASSUME UNCHANGED <<queue, stage, job>> PROVE NoneTakes
    BY <1>1, <2>1 DEF Queued
  <2>2. ASSUME NEW v \in Uploads, Enqueue(v) PROVE NoneTakes
    <3>1. v # u /\ queue' = Append(queue, v) /\ UNCHANGED <<stage, job>>
      BY <1>1, <2>2 DEF Enqueue, Put
    <3>2. QED
      BY <1>1, <3>1, Enqueued
  <2>3. ASSUME NEW v \in Uploads, CreateRow(v) PROVE NoneTakes
    BY <1>1, <1>2, <2>3 DEF CreateRow, Queued
  <2>4. ASSUME NEW v \in Uploads, Receive(v) \/ HandlerStep(v), ~Enqueue(v), ~CreateRow(v)
        PROVE  UNCHANGED <<queue, stage, job>>
    BY <2>4 DEF Receive, HandlerStep, Lookup, PutBlob, CreateDuplicateRow, InsertDuplicate,
      BumpTotal, Bump, BlockOnQueue, FindFull, HandlerRaises
  <2>5. ASSUME NEW r \in Runners, PipelineStep(r) PROVE NoneTakes
    <3>1. /\ queue' = queue /\ stage[r] \in Working
          /\ \A s \in Runners \ {r} : job'[s] = job[s] /\ stage'[s] = stage[s]
          /\ job'[r] \in {job[r], None}
      BY <2>5 DEF PipelineStep, Profile, Upsert, UpsertThen, InsertChunks, Store, StageRaises,
        Raise, SetReady, SetFailed, Settle, Working, InTry
    <3>2. QED
      BY <1>1, <3>1 DEF Queued
  <2>6. ASSUME NEW w \in Workers, Get(w) PROVE NoneTakes
    <3>1. /\ queue # <<>> /\ queue' = Tail(queue) /\ job'[w] = Head(queue)
          /\ \A s \in Runners \ {w} : job'[s] = job[s] /\ stage'[s] = stage[s]
      BY <2>6 DEF Get, Take
    <3>2. Queued = Queued' \cup {Head(queue)}
      BY <3>1, Dequeued
    <3>3. QED
      BY <1>1, <3>1, <3>2
  <2>7. ASSUME NEW w \in Workers, WorkerStep(w), ~PipelineStep(w), ~Get(w) PROVE NoneTakes
    <3>1. /\ queue' = queue
          /\ \A s \in Runners \ {w} : job'[s] = job[s] /\ stage'[s] = stage[s]
          /\ job'[w] \in {job[w], None}
          /\ stage[w] \in Working \/ stage'[w] \notin Working
      BY <2>7 DEF WorkerStep, ReadBlob, JobRaises, Raise, TaskDone, Report, MarkProcessing, Record,
        Write, Working, InTry
    <3>2. QED
      BY <1>1, <3>1 DEF Queued
  <2>8. CASE InlineRaises
    BY <1>1, <2>8 DEF InlineRaises, Queued, Working, InTry
  <2>9. CASE InterruptJoin
    BY <1>1, <2>9 DEF InterruptJoin, StopWorkers, Queued, Working, InTry
  <2>10. CASE Kill \/ ExecutorShutdown
    <3>1. queue' = <<>> /\ job' = [r \in Runners |-> None]
      BY <2>10 DEF Kill, ExecutorShutdown, LoseProcess
    <3>2. QED
      BY <3>1 DEF Queued
  <2>11. CASE BeginDrain \/ JoinReturns \/ Restart \/ UNCHANGED vars \/ \E b \in Batches : CreateBatch(b)
    BY <2>1, <2>11 DEF BeginDrain, JoinReturns, StopWorkers, Restart, CreateBatch, vars
  <2>12. QED
    BY <2>1, <2>2, <2>3, <2>4, <2>5, <2>6, <2>7, <2>8, <2>9, <2>10, <2>11
    DEF Next, InlineStep, Shutdown
<1>5. status'[u] = status[u]
  BY <1>1, StatusSteps DEF Appears, Moves, Unsettled
<1>6. QED
  BY <1>1, <1>3, <1>4, <1>5 DEF Stranded, Owned

-----------------------------------------------------------------------------
\* A runner's document is a live row.
LEMMA JobIsLive ==
  ASSUME Accounting, Owners, NEW r \in Runners, stage[r] \in Working
  PROVE  job[r] \in Uploads /\ job[r] \notin StrandedRows
BY NoneAssumption DEF Accounting, TypeOK, Employed, StrandedRows, Stranded, Owned, Working, InTry

\* Each step maps to a step of a row's life, to a stranding, or to a stutter.
LEMMA StepRefines ==
  ASSUME Accounting, Owners, Settling, Content, [Next]_vars
  PROVE  [Lifecycle!Next]_Lifecycle!vars
<1> DEFINE contents == [u \in Uploads |-> request[u].file]
<1>1. request' = request /\ contents' = contents
  BY RequestKept
<1>2. StrandedRows \subseteq StrandedRows'
  BY StrandedStays DEF StrandedRows
<1>3. CASE ~Works
  <2>1. status' = status /\ CompleteRows' = CompleteRows
    BY <1>3, OtherSteps DEF CompleteRows
  <2>2. CASE StrandedRows' = StrandedRows
    BY <1>1, <2>1, <2>2 DEF Lifecycle!vars, StrandedRows, CompleteRows
  <2>3. CASE StrandedRows' # StrandedRows
    <3> DEFINE S == StrandedRows' \ StrandedRows
    <3>1. S # {} /\ S \in SUBSET Uploads /\ StrandedRows' = StrandedRows \cup S
      BY <1>2, <2>3 DEF StrandedRows
    <3>2. \A d \in S : status[d] \in Unsettled /\ d \notin StrandedRows
      BY <2>1 DEF StrandedRows, Stranded
    <3>3. Lifecycle!Strand(S)
      BY <1>1, <2>1, <3>1, <3>2 DEF Lifecycle!Strand, Lifecycle!Live, Lifecycle!Unsettled,
        Unsettled, StrandedRows, CompleteRows
    <3>4. QED
      BY <3>1, <3>3 DEF Lifecycle!Next
  <2>4. QED
    BY <2>2, <2>3
<1>4. CASE Works
  <2>1. StrandedRows' = StrandedRows
    BY <1>2, <1>4, NoneStrandedByWork DEF Settling, StrandedRows
  <2> USE <1>1, <2>1 DEF Accounting, TypeOK
  <2>2. ASSUME NEW u \in Uploads, CreateRow(u) PROVE Lifecycle!Next
    <3>1. /\ status[u] = "absent" /\ CompleteRows' = CompleteRows
          /\ status' = [status EXCEPT ![u] = IF Single(u) THEN "processing" ELSE "queued"]
      BY <2>2 DEF CreateRow, Owners, HandlerRow, rowData, CompleteRows
    <3>2. Lifecycle!Accept(u)
      BY <3>1 DEF Lifecycle!Accept, Lifecycle!Move, StrandedRows, CompleteRows
    <3>3. QED
      BY <3>2 DEF Lifecycle!Next
  <2>3. ASSUME NEW u \in Uploads, CreateDuplicateRow(u) PROVE Lifecycle!Next
    <3>1. /\ status[u] = "absent" /\ status' = [status EXCEPT ![u] = "duplicate"]
          /\ CompleteRows' = CompleteRows
      BY <2>3 DEF CreateDuplicateRow, InsertDuplicate, Owners, HandlerRow, rowData, CompleteRows
    <3>2. \E v \in Uploads : contents[v] = contents[u] /\ status[v] \notin {"absent", "duplicate"}
      BY <2>3 DEF CreateDuplicateRow, InsertDuplicate, Content, DupPending, HasOriginal, SameFile
    <3>3. Lifecycle!AcceptDuplicate(u)
      BY <3>1, <3>2 DEF Lifecycle!AcceptDuplicate, Lifecycle!Move, StrandedRows, CompleteRows
    <3>4. QED
      BY <3>3 DEF Lifecycle!Next
  <2>4. ASSUME NEW w \in Workers, MarkProcessing(w) PROVE Lifecycle!Next
    <3> DEFINE d == job[w]
    <3>1. w \in Runners /\ stage[w] \in Working
      BY <2>4, WorkersFinite DEF MarkProcessing, Working
    <3>2. d \in Uploads /\ d \notin StrandedRows /\ status[d] = "queued"
      BY <2>4, <3>1, JobIsLive DEF MarkProcessing, Owners, JobRow
    <3>3. status' = [status EXCEPT ![d] = "processing"] /\ CompleteRows' = CompleteRows
      BY <2>4 DEF MarkProcessing, rowData, CompleteRows
    <3>4. Lifecycle!Begin(d)
      BY <3>2, <3>3 DEF Lifecycle!Begin, Lifecycle!Live, Lifecycle!Unsettled, Lifecycle!Move,
        StrandedRows, CompleteRows
    <3>5. QED
      BY <3>2, <3>4 DEF Lifecycle!Next, Lifecycle!WorkOn
  <2>5. ASSUME NEW w \in Workers, Record(w) PROVE UNCHANGED Lifecycle!vars
    <3>1. stage[w] \in {"recordReady", "recordFailed"} /\ w \in Runners
      BY <2>5, WorkersFinite DEF Record, Write
    <3>2. status[job[w]] = Outcome(w)
      BY <3>1 DEF Owners, JobRow, Outcome
    <3>3. status' = status /\ CompleteRows' = CompleteRows
      BY <2>5, <3>2 DEF Record, Write, CompleteRows
    <3>4. QED
      BY <3>3 DEF Lifecycle!vars, StrandedRows, CompleteRows
  <2>6. ASSUME NEW r \in Runners, SetReady(r) \/ SetFailed(r) PROVE Lifecycle!Next
    <3> DEFINE d == job[r]
    <3>1. stage[r] \in {"ready", "except"} /\ stage[r] \in Working
      BY <2>6 DEF SetReady, SetFailed, Working, InTry
    <3>2. d \in Uploads /\ d \notin StrandedRows /\ status[d] = "processing"
      BY <3>1, JobIsLive DEF Owners, JobRow, InTry
    <3>3. /\ CompleteRows' = CompleteRows
          /\ \/ status' = [status EXCEPT ![d] = "ready"] /\ d \in CompleteRows
             \/ status' = [status EXCEPT ![d] = "failed"]
      BY <2>6 DEF SetReady, SetFailed, Settle, rowData, CompleteRows, Content, StoredSoFar
    <3>4. Lifecycle!Succeed(d) \/ Lifecycle!Fail(d)
      BY <3>2, <3>3 DEF Lifecycle!Succeed, Lifecycle!Fail, Lifecycle!Live, Lifecycle!Unsettled,
        Lifecycle!Move, StrandedRows, CompleteRows
    <3>5. QED
      BY <3>2, <3>4 DEF Lifecycle!Next, Lifecycle!WorkOn
  <2>7. ASSUME NEW r \in Runners, Profile(r) \/ Upsert(r) \/ InsertChunks(r)
        PROVE  Lifecycle!Next \/ UNCHANGED Lifecycle!vars
    <3> DEFINE d == job[r]
    <3>1. stage[r] \in InTry /\ stage[r] \in Working
      BY <2>7 DEF Profile, Upsert, UpsertThen, InsertChunks, Working, InTry
    <3>2. d \in Uploads /\ d \notin StrandedRows /\ status[d] = "processing"
      BY <3>1, JobIsLive DEF Owners, JobRow, InTry
    <3>3. status' = status /\ CompleteRows' \in {CompleteRows, CompleteRows \cup {d}}
      BY <2>7 DEF Profile, Upsert, UpsertThen, InsertChunks, Store, CompleteRows
    <3>4. CASE CompleteRows' = CompleteRows
      BY <3>3, <3>4 DEF Lifecycle!vars, StrandedRows, CompleteRows
    <3>5. CASE CompleteRows' # CompleteRows
      <4>1. d \notin CompleteRows /\ CompleteRows' = CompleteRows \cup {d}
        BY <3>3, <3>5
      <4>2. Lifecycle!Complete(d)
        BY <3>2, <3>3, <4>1 DEF Lifecycle!Complete, Lifecycle!Live, Lifecycle!Unsettled,
          StrandedRows, CompleteRows
      <4>3. QED
        BY <3>2, <4>2 DEF Lifecycle!Next, Lifecycle!WorkOn
    <3>6. QED
      BY <3>4, <3>5
  <2>8. QED
    BY <1>4, <2>2, <2>3, <2>4, <2>5, <2>6, <2>7 DEF Works
<1>5. QED
  BY <1>3, <1>4

\* Seen as rows alone, the service keeps the safety part of DocLifecycle's promise, for any
\* uploads and configuration and through any failures, kills, drains and restarts.
THEOREM RefinesLifecycle == Spec => Lifecycle!Spec
<1>1. Init => Lifecycle!Init
  BY DEF Init, Lifecycle!Init, Stranded, Unsettled
<1>2. Accounting /\ Owners /\ Settling /\ Content /\ [Next]_vars => [Lifecycle!Next]_Lifecycle!vars
  BY StepRefines
<1>3. QED
  BY <1>1, <1>2, OwnersHold, SettlingHolds, ContentHolds, PTL DEF Spec, Lifecycle!Spec
=============================================================================
