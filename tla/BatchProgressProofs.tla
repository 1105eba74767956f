------------------------- MODULE BatchProgressProofs -------------------------
(***************************************************************************)
(* What a summary of a batch is worth, for any uploads, batches, workers,  *)
(* faults and kills, and for any number of requests at any moment.         *)
(*                                                                         *)
(* The endpoint and the client only read, so that whatever is true of      *)
(* BulkIngest is true of the composition (Implements), and what a summary  *)
(* has read is judged by the rows as they are later: they move in one      *)
(* direction (Earlier), the total of a batch has counted each upload that  *)
(* was answered (PassedCounted), and a ready row without metrics has a     *)
(* worker that no other such row has (LagBound).                           *)
(***************************************************************************)
EXTENDS BatchProgress, BulkIngestProofs, FunctionTheorems

\* The uploads of a batch whose handler is past its bump, without an error.
Passed(b) ==
  {u \in Uploads : request[u].batch = b /\ handler[u] \in {"enqueue", "waiting", "done"}}

\* Every one of them is in the batch's total, whatever raised or was killed elsewhere.
PassedCounted == \A b \in Batches : Cardinality(Passed(b)) <= total[b]

\* An accepted upload of a batch has a row.
AcceptedHasRow == \A u \in Uploads : handler[u] = "done" /\ ~Single(u) => status[u] # "absent"

Answering == PassedCounted /\ AcceptedHasRow

-----------------------------------------------------------------------------
\* How a handler gets past its bump, and that an accepted upload stays so.
LEMMA HandlerMoves ==
  ASSUME Accounting, Owners, InlineSingle, [Next]_vars, NEW u \in Uploads
  PROVE  /\ handler[u] = "done" => handler'[u] = "done"
         /\ handler'[u] \in {"enqueue", "waiting", "done"} /\ ~Single(u) =>
              \/ handler[u] \in {"enqueue", "waiting", "done"}
              \/ BumpTotal(u)
<1> USE WorkersFinite DEF Accounting, TypeOK, Go, stored, rowData, pool, runners, bounded
<1>1. ASSUME NEW v \in Uploads, Receive(v) \/ Lookup(v) \/ PutBlob(v) \/ CreateRow(v)
               \/ CreateDuplicateRow(v) \/ HandlerRaises(v)
      PROVE  /\ handler[u] = "done" => handler'[u] = "done"
             /\ handler'[u] \in {"enqueue", "waiting", "done"} /\ ~Single(u) => handler'[u] = handler[u]
  BY <1>1 DEF Receive, Lookup, PutBlob, CreateRow, CreateDuplicateRow, InsertDuplicate, HandlerRaises
<1>2. ASSUME NEW v \in Uploads, Enqueue(v) \/ BlockOnQueue(v)
      PROVE  \/ handler'[u] = handler[u]
             \/ handler[u] \in {"enqueue", "waiting"} /\ handler'[u] \in {"waiting", "done"}
  BY <1>2 DEF Enqueue, Put, BlockOnQueue, FindFull
<1>3. ASSUME NEW v \in Uploads, BumpTotal(v)
      PROVE  handler'[u] = handler[u] \/ (BumpTotal(u) /\ handler[u] # "done")
  BY <1>3 DEF BumpTotal, Bump
<1>4. ASSUME NEW r \in Runners, PipelineStep(r)
      PROVE  handler'[u] = handler[u] \/ (handler'[u] = "done" /\ Single(u))
  <2>1. CASE SetReady(r) \/ SetFailed(r)
    <3>1. stage[r] # "idle"
      BY <2>1 DEF SetReady, SetFailed
    <3>2. r = EventLoop => Single(job[r])
      BY <3>1 DEF InlineSingle
    <3>3. QED
      BY <2>1, <3>2 DEF SetReady, SetFailed, Settle, Single
  <2>2. CASE ~(SetReady(r) \/ SetFailed(r))
    BY <1>4, <2>2 DEF PipelineStep, Profile, Upsert, UpsertThen, InsertChunks, Store, StageRaises, Raise
  <2>3. QED
    BY <2>1, <2>2
<1>5. ASSUME NEW w \in Workers, WorkerStep(w), ~PipelineStep(w) PROVE UNCHANGED handler
  BY <1>5 DEF WorkerStep, Get, Take, ReadBlob, JobRaises, Raise, TaskDone, Report, MarkProcessing,
    Record, Write
<1>6. CASE InlineRaises
  BY <1>6 DEF InlineRaises, Owners, JobRow
<1>7. CASE Kill
  BY <1>7 DEF Kill, Answered
<1>8. ASSUME \/ BeginDrain \/ Shutdown \/ InterruptJoin \/ Restart \/ UNCHANGED vars
             \/ \E b \in Batches : CreateBatch(b)
      PROVE  UNCHANGED handler
  BY <1>8 DEF BeginDrain, Shutdown, JoinReturns, StopWorkers, ExecutorShutdown, InterruptJoin,
    Restart, CreateBatch, vars
<1>9. QED
  BY <1>1, <1>2, <1>3, <1>4, <1>5, <1>6, <1>7, <1>8 DEF Next, InlineStep, HandlerStep

\* The uploads past their bump can be counted.
LEMMA PassedFinite ==
  ASSUME NEW b
  PROVE  /\ IsFiniteSet(Passed(b)) /\ Cardinality(Passed(b)) \in Nat
         /\ IsFiniteSet(Passed(b)') /\ Cardinality(Passed(b)') \in Nat
<1>1. Passed(b) \subseteq Uploads /\ Passed(b)' \subseteq Uploads
  BY DEF Passed
<1>2. QED
  BY <1>1, FiniteAssumption, FS_Subset, FS_CardinalityType

\* Each of them is counted: nothing but a bump takes an upload there.
LEMMA PassedCountedKept ==
  ASSUME Accounting, Owners, InlineSingle, PassedCounted, [Next]_vars
  PROVE  PassedCounted'
<1> SUFFICES ASSUME NEW b \in Batches PROVE Cardinality(Passed(b)') <= total'[b]
  BY DEF PassedCounted
<1>1. total[b] \in Nat /\ Cardinality(Passed(b)) <= total[b]
  BY DEF PassedCounted, Accounting, TypeOK
<1>2. ASSUME NEW u \in Passed(b)' PROVE u \in Passed(b) \/ (BumpTotal(u) /\ request[u].batch = b)
  <2>1. u \in Uploads /\ request[u].batch = b /\ handler'[u] \in {"enqueue", "waiting", "done"}
    BY RequestKept DEF Passed
  <2>2. ~Single(u)
    BY <2>1, NoneAssumption DEF Single
  <2>3. QED
    BY <2>1, <2>2, HandlerMoves DEF Passed
<1>3. ASSUME NEW u \in Uploads, BumpTotal(u), request[u].batch = b
      PROVE  /\ total'[b] = total[b] + 1 /\ u \notin Passed(b)
             /\ \A v \in Passed(b)' : v = u \/ v \in Passed(b)
  <2>1. /\ handler[u] \in {"bump", "dupBump"} /\ total'[b] = total[b] + 1 /\ request' = request
        /\ \A v \in Uploads \ {u} : handler'[v] = handler[v]
    BY <1>3 DEF BumpTotal, Bump, Go, Accounting, TypeOK
  <2>2. QED
    BY <2>1 DEF Passed
<1>4. CASE \E u \in Uploads : BumpTotal(u) /\ request[u].batch = b
  <2>1. PICK u \in Uploads : BumpTotal(u) /\ request[u].batch = b
    BY <1>4
  <2>2. /\ total'[b] = total[b] + 1 /\ u \notin Passed(b)
        /\ Passed(b)' \subseteq Passed(b) \cup {u}
    BY <2>1, <1>3
  <2>3. /\ IsFiniteSet(Passed(b) \cup {u})
        /\ Cardinality(Passed(b) \cup {u}) = Cardinality(Passed(b)) + 1
    BY <2>2, PassedFinite, FS_AddElement
  <2>4. Cardinality(Passed(b)') <= Cardinality(Passed(b)) + 1
    BY <2>2, <2>3, FS_Subset
  <2>5. QED
    BY <1>1, <2>2, <2>4, PassedFinite
<1>5. CASE ~\E u \in Uploads : BumpTotal(u) /\ request[u].batch = b
  <2>1. total'[b] = total[b]
    BY <1>5, TotalMoves DEF BumpTotal, Bump, Accounting, TypeOK
  <2>2. Passed(b)' \subseteq Passed(b)
    <3>1. SUFFICES ASSUME NEW u \in Passed(b)' PROVE u \in Passed(b)
      OBVIOUS
    <3>2. u \in Uploads
      BY DEF Passed
    <3>3. QED
      BY <1>2, <1>5, <3>2
  <2>3. QED
    BY <1>1, <2>1, <2>2, PassedFinite, FS_Subset
<1>6. QED
  BY <1>4, <1>5

\* An accepted upload has its row: its handler has inserted it, and rows stay.
LEMMA AcceptedHasRowKept ==
  ASSUME Accounting, Owners, InlineSingle, AcceptedHasRow, [Next]_vars
  PROVE  AcceptedHasRow'
<1> SUFFICES ASSUME NEW u \in Uploads, handler'[u] = "done", ~Single(u) PROVE status'[u] # "absent"
  BY RequestKept DEF AcceptedHasRow, Single
<1>1. handler[u] \in {"enqueue", "waiting", "done", "bump", "dupBump"}
  BY HandlerMoves DEF BumpTotal, Bump
<1>2. status[u] # "absent"
  BY <1>1 DEF Owners, HandlerRow, AcceptedHasRow
<1>3. QED
  BY <1>2, StatusSteps DEF Appears, Moves

LEMMA AnsweringHolds == Spec => []Answering
<1>1. Init => Answering
  <2> SUFFICES ASSUME Init PROVE Answering
    OBVIOUS
  <2>1. \A b \in Batches : Passed(b) = {} /\ total[b] = 0
    BY DEF Init, Passed
  <2>2. PassedCounted
    BY <2>1, FS_EmptySet DEF PassedCounted
  <2>3. AcceptedHasRow
    BY DEF Init, AcceptedHasRow
  <2>4. QED
    BY <2>2, <2>3 DEF Answering
<1>2. Accounting /\ Owners /\ Settling /\ Answering /\ [Next]_vars => Answering'
  BY PassedCountedKept, AcceptedHasRowKept DEF Settling, Answering
<1>3. QED
  BY <1>1, <1>2, OwnersHold, SettlingHolds, PTL DEF Spec

-----------------------------------------------------------------------------
(* The composition. *)

\* A request for a summary, and the client, leave the service as it is.
LEMMA StepsOfTheService == ASSUME [ProgressNext]_allVars PROVE [Next]_vars
BY DEF ProgressNext, ServiceStep, Ask, Poll, ReadTotal, ReadCounts, ReadDocsAndAnswer,
  StartPolling, ClientRaises, allVars

\* Whatever holds of the service holds while its batches are polled.
THEOREM Implements == ProgressSpec => Spec
<1>1. ProgressInit => Init
  BY DEF ProgressInit
<1>2. [ProgressNext]_allVars => [Next]_vars
  BY StepsOfTheService
<1>3. QED
  BY <1>1, <1>2, PTL DEF ProgressSpec, Spec

\* All that is known of the service.
Service == Accounting /\ Owners /\ Settling /\ Content /\ Answering

LEMMA ServiceHolds == ProgressSpec => []Service
<1>1. Accounting /\ Owners /\ Settling /\ Content /\ Answering => Service
  BY DEF Service
<1>2. QED
  BY <1>1, Implements, OwnersHold, SettlingHolds, ContentHolds, AnsweringHolds, PTL

\* How rows move: none disappears, and a final status stays.
Earlier(old, new) ==
  \A u \in Uploads : /\ old[u] # "absent" => new[u] # "absent"
                     /\ old[u] \in Terminal => new[u] = old[u]

LEMMA RowsMoveOn == ASSUME Service, [Next]_vars PROVE Earlier(status, status')
BY StatusSteps DEF Service, Earlier, Appears, Moves, Terminal, Unsettled

LEMMA EarlierIsTransitive ==
  ASSUME NEW s, NEW t, NEW v, Earlier(s, t), Earlier(t, v) PROVE Earlier(s, v)
BY DEF Earlier

\* What is in flight, and in the last answer, was read in the order of the statements.
Ordered ==
  /\ reply \in [total : Nat, status : [Uploads -> Status], metered : SUBSET Uploads,
                listed : [Uploads -> Status]]
  /\ seenTotal \in Nat /\ seenStatus \in [Uploads -> Status] /\ seenMetered \subseteq Uploads
  /\ get \in {"idle", "total", "counts", "docs"}
  /\ get = "docs" => Earlier(seenStatus, status)
  /\ Earlier(reply.status, reply.listed)

LEMMA OrderedKept ==
  ASSUME Service, Ordered, [ProgressNext]_allVars PROVE Ordered'
<1> USE DEF Ordered
<1>1. [Next]_vars /\ Earlier(status, status')
  BY StepsOfTheService, RowsMoveOn
<1>2. status \in [Uploads -> Status] /\ total \in [Batches -> Nat] /\ metered \subseteq Uploads
  BY DEF Service, Accounting, TypeOK
<1>3. NoRows \in [Uploads -> Status] /\ Earlier(NoRows, NoRows)
  BY DEF NoRows, Status, Earlier
<1>4. CASE ServiceStep
  <2>1. CASE Kill
    BY <1>3, <1>4, <2>1 DEF ServiceStep
  <2>2. CASE ~Kill
    <3>1. UNCHANGED pvars
      BY <1>4, <2>2 DEF ServiceStep
    <3>2. get = "docs" => Earlier(seenStatus, status')
      BY <1>1, EarlierIsTransitive
    <3>3. QED
      BY <3>1, <3>2 DEF pvars, answer
  <2>3. QED
    BY <2>1, <2>2
<1>5. CASE Ask
  BY <1>3, <1>5 DEF Ask, NoReply, answer
<1>6. CASE ReadTotal
  BY <1>2, <1>6, WatchedAssumption DEF ReadTotal
<1>7. CASE ReadCounts
  BY <1>2, <1>7 DEF ReadCounts, vars, stored, Earlier
<1>8. CASE ReadDocsAndAnswer
  BY <1>2, <1>3, <1>8 DEF ReadDocsAndAnswer
<1>9. CASE StartPolling \/ ClientRaises
  BY <1>9 DEF StartPolling, ClientRaises, answer, vars, stored
<1>10. CASE UNCHANGED allVars
  BY <1>10 DEF allVars, pvars, answer, vars, stored
<1>11. QED
  BY <1>4, <1>5, <1>6, <1>7, <1>8, <1>9, <1>10 DEF ProgressNext, Poll

LEMMA OrderedHolds == ProgressSpec => []Ordered
<1>1. ProgressInit => Ordered
  BY DEF ProgressInit, Ordered, NoReply, NoRows, Status, Earlier
<1>2. Service /\ Ordered /\ [ProgressNext]_allVars => Ordered'
  BY OrderedKept
<1>3. QED
  BY <1>1, <1>2, ServiceHolds, PTL DEF ProgressSpec

\* The list of a summary is read after its counts: it lacks no row they counted, and shows
\* each that was counted as terminal with that status.
THEOREM ListsAreNewer == ProgressSpec => []ListIsNewer
<1>1. Ordered => ListIsNewer
  BY DEF Ordered, Earlier, ListIsNewer, Rows, Done, Mine
<1>2. QED
  BY <1>1, OrderedHolds, PTL

-----------------------------------------------------------------------------
(* What the totals of a summary may lack. *)

\* The ready rows of M whose metrics a summary with these answers lacks.
Lacking(M, st, m) == {u \in M : st[u] = "ready"} \ m

Bounded(M, st, m) == Cardinality(Lacking(M, st, m)) <= Cardinality(Workers)

LEMMA MineStays == ASSUME [Next]_vars PROVE Mine' = Mine
BY RequestKept DEF Mine

\* Each ready row without metrics has a worker about to write them, and no two share one.
LEMMA LackingHaveWorkers == ASSUME Service, Undisturbed PROVE Bounded(Mine, status, metered)
<1> DEFINE S == Lacking(Mine, status, metered)
           f == [u \in S |-> CHOOSE w \in Workers : job[w] = u]
<1>1. ASSUME NEW u \in S PROVE \E w \in Workers : job[w] = u
  <2>1. u \in Uploads /\ request[u].batch = Watched /\ status[u] = "ready" /\ u \notin metered
    BY DEF Lacking, Mine
  <2>2. ~Single(u)
    BY <2>1, WatchedAssumption, NoneAssumption DEF Single
  <2>3. QED
    BY <2>1, <2>2 DEF Service, Settling, MetricsFollowStatus
<1>2. \A u \in S : f[u] \in Workers /\ job[f[u]] = u
  BY <1>1
<1>3. f \in [S -> Workers] /\ \A u, v \in S : f[u] = f[v] => u = v
  BY <1>2
<1>4. f \in Injection(S, Workers)
  BY <1>3, Fun_IsInj
<1>5. QED
  BY <1>4, WorkersFinite, FS_Injection DEF Bounded

LEMMA NothingLacking == ASSUME NEW M \in SUBSET Uploads PROVE Bounded(M, NoRows, {})
<1>1. Lacking(M, NoRows, {}) = {}
  BY DEF Lacking, NoRows
<1>2. Cardinality(Workers) \in Nat
  BY WorkersFinite, FS_CardinalityType
<1>3. QED
  BY <1>1, <1>2, FS_EmptySet DEF Bounded

\* What was read under way, and what was answered, lacks a bounded number of metrics.
LagBound ==
  Undisturbed => /\ get = "docs" => Bounded(Mine, seenStatus, seenMetered)
                 /\ Bounded(Mine, reply.status, reply.metered)

LEMMA LagBoundKept ==
  ASSUME Service, LagBound, [ProgressNext]_allVars PROVE LagBound'
<1> SUFFICES ASSUME Undisturbed'
             PROVE  /\ get' = "docs" => Bounded(Mine, seenStatus', seenMetered')
                    /\ Bounded(Mine, reply'.status, reply'.metered)
  <2>1. Mine' = Mine
    BY StepsOfTheService, MineStays
  <2>2. QED
    BY <2>1 DEF LagBound, Bounded, Lacking
<1>1. Undisturbed
  BY StepsOfTheService, Disturbances DEF Service
<1>2. /\ get = "docs" => Bounded(Mine, seenStatus, seenMetered)
      /\ Bounded(Mine, reply.status, reply.metered)
  BY <1>1 DEF LagBound
<1>3. Mine \in SUBSET Uploads
  BY DEF Mine
<1>4. CASE ServiceStep
  <2>1. CASE Kill
    BY <1>2, <1>4, <2>1 DEF ServiceStep
  <2>2. CASE ~Kill
    BY <1>2, <1>4, <2>2 DEF ServiceStep, pvars, answer
  <2>3. QED
    BY <2>1, <2>2
<1>5. CASE Ask
  BY <1>3, <1>5, NothingLacking DEF Ask, NoReply
<1>6. CASE ReadTotal
  BY <1>2, <1>6 DEF ReadTotal
<1>7. CASE ReadCounts
  <2>1. Bounded(Mine, status, metered)
    BY <1>1, LackingHaveWorkers
  <2>2. QED
    BY <1>2, <1>7, <2>1 DEF ReadCounts
<1>8. CASE ReadDocsAndAnswer
  BY <1>2, <1>8 DEF ReadDocsAndAnswer
<1>9. CASE StartPolling \/ ClientRaises \/ UNCHANGED allVars
  BY <1>2, <1>9 DEF StartPolling, ClientRaises, answer, allVars, pvars
<1>10. QED
  BY <1>4, <1>5, <1>6, <1>7, <1>8, <1>9 DEF ProgressNext, Poll

\* Failures apart, the totals of a summary lack at most one ready document per worker,
\* the one between its two final writes.
THEOREM TotalsLagLittle == ProgressSpec => []TotalsLagBounded
<1>1. ProgressInit => LagBound
  <2> SUFFICES ASSUME ProgressInit PROVE LagBound
    OBVIOUS
  <2>1. Mine \in SUBSET Uploads
    BY DEF Mine
  <2>2. QED
    BY <2>1, NothingLacking DEF ProgressInit, LagBound, NoReply
<1>2. Service /\ LagBound /\ [ProgressNext]_allVars => LagBound'
  BY LagBoundKept
<1>3. LagBound => TotalsLagBounded
  BY DEF LagBound, TotalsLagBounded, Bounded, Lacking, Ready
<1>4. QED
  BY <1>1, <1>2, <1>3, ServiceHolds, PTL DEF ProgressSpec

-----------------------------------------------------------------------------
(* What a client that leaves its polling loop may rely on. *)

\* A polling client has had its answers, the total it reads has counted them, and a client
\* that has left the loop has seen them all settled.
Waited ==
  /\ client = "polling" => \A u \in Mine : handler[u] = "done"
  /\ client = "polling" /\ get \in {"counts", "docs"} => Cardinality(Mine) <= seenTotal
  /\ LeftLoopSettled

LEMMA WaitedKept ==
  ASSUME Service, Ordered, Waited, [ProgressNext]_allVars PROVE Waited'
<1> USE DEF Waited, LeftLoopSettled
<1>1. [Next]_vars /\ Mine' = Mine
  BY StepsOfTheService, MineStays
<1>2. \A u \in Mine : /\ handler[u] = "done" => handler'[u] = "done"
                      /\ status[u] \in Terminal => status'[u] \in Terminal
  <2>1. Mine \subseteq Uploads
    BY DEF Mine
  <2>2. Earlier(status, status')
    BY <1>1, RowsMoveOn
  <2>3. QED
    BY <1>1, <2>1, <2>2, HandlerMoves DEF Service, Settling, Earlier
<1>3. IsFiniteSet(Mine) /\ Cardinality(Mine) \in Nat
  <2>1. Mine \subseteq Uploads
    BY DEF Mine
  <2>2. QED
    BY <2>1, FiniteAssumption, FS_Subset, FS_CardinalityType
<1>4. CASE ServiceStep
  <2>1. CASE Kill
    BY <1>4, <2>1 DEF ServiceStep
  <2>2. CASE ~Kill
    <3>1. UNCHANGED <<client, get, seenTotal>>
      BY <1>4, <2>2 DEF ServiceStep, pvars, answer
    <3>2. QED
      BY <1>1, <1>2, <3>1
  <2>3. QED
    BY <2>1, <2>2
<1>5. CASE Ask
  BY <1>1, <1>2, <1>5 DEF Ask
<1>6. CASE ReadTotal
  <2>1. ASSUME client = "polling" PROVE Cardinality(Mine) <= total[Watched]
    <3>1. Mine = Passed(Watched)
      BY <2>1 DEF Mine, Passed
    <3>2. QED
      BY <3>1, WatchedAssumption DEF Service, Answering, PassedCounted
  <2>2. QED
    BY <1>1, <1>2, <1>6, <2>1 DEF ReadTotal
<1>7. CASE ReadCounts
  BY <1>1, <1>2, <1>7 DEF ReadCounts
<1>8. CASE ReadDocsAndAnswer
  <2>1. ASSUME client = "polling", client' = "final" PROVE \A u \in Mine : status[u] \in Terminal
    <3>1. Cardinality(Done(seenStatus)) >= seenTotal /\ Cardinality(Mine) <= seenTotal
      BY <1>8, <2>1 DEF ReadDocsAndAnswer, AfterPoll
    <3>2. Done(seenStatus) \in SUBSET Mine
      BY DEF Done
    <3>3. Cardinality(Done(seenStatus)) \in Nat /\ seenTotal \in Nat
      BY <1>3, <3>2, FS_Subset, FS_CardinalityType DEF Ordered
    <3>4. Cardinality(Done(seenStatus)) <= Cardinality(Mine)
      BY <1>3, <3>2, FS_Subset
    <3>5. Cardinality(Done(seenStatus)) = Cardinality(Mine)
      BY <1>3, <3>1, <3>3, <3>4
    <3>6. Done(seenStatus) = Mine
      BY <1>3, <3>2, <3>5, FS_Subset
    <3>7. Earlier(seenStatus, status)
      BY <1>8 DEF ReadDocsAndAnswer, Ordered
    <3>8. QED
      BY <3>6, <3>7 DEF Done, Earlier, Mine
  <2>2. client' \in {client, "final", "late", "polling", "reported"} /\ (client' = "polling" => client = "polling")
        /\ (client' = "final" => client = "polling") /\ get' = "idle" /\ UNCHANGED vars
    BY <1>8 DEF ReadDocsAndAnswer, AfterPoll
  <2>3. QED
    BY <1>1, <1>2, <2>1, <2>2
<1>9. CASE StartPolling
  BY <1>1, <1>2, <1>9 DEF StartPolling
<1>10. CASE ClientRaises
  BY <1>1, <1>10 DEF ClientRaises
<1>11. CASE UNCHANGED allVars
  BY <1>1, <1>2, <1>11 DEF allVars, pvars, answer
<1>12. QED
  BY <1>4, <1>5, <1>6, <1>7, <1>8, <1>9, <1>10, <1>11 DEF ProgressNext, Poll

\* A client that leaves its polling loop, and has not given up, leaves every document it
\* uploaded with a row and a final status, whatever failed meanwhile.
THEOREM LoopEndsSettled == ProgressSpec => []LeftLoopSettled
<1>1. ProgressInit => Waited
  BY DEF ProgressInit, Waited, LeftLoopSettled
<1>2. Service /\ Ordered /\ Waited /\ [ProgressNext]_allVars => Waited'
  BY WaitedKept
<1>3. Waited => LeftLoopSettled
  BY DEF Waited
<1>4. QED
  BY <1>1, <1>2, <1>3, ServiceHolds, OrderedHolds, PTL DEF ProgressSpec
=============================================================================
