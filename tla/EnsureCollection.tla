-------------------------- MODULE EnsureCollection --------------------------
(***************************************************************************)
(* MilvusStore.ensure_collection (app/vectorstore.py): creation on first   *)
(* use with double-checked locking over the set _ready, and the pre-warm   *)
(* of the default collection that app/main.py runs before the service      *)
(* accepts requests.                                                       *)
(*                                                                         *)
(* The lock and _ready belong to a store object.  The service has one,     *)
(* shared by its ingest threads; benchmark/runner.py builds another for    *)
(* each combination, in the service (POST /benchmark) or in a process of   *)
(* its own, for collections that may be the service's.  The sweeps of      *)
(* EvalSweep use other names.                                              *)
(*                                                                         *)
(* The Milvus server is external.  It keeps its collections across         *)
(* restarts of the service, refuses to create one that exists, and may     *)
(* raise on any call, a create having taken effect or not.                 *)
(***************************************************************************)
EXTENDS Naturals

CONSTANTS
  Threads,      \* ingest threads: the pool's, and the event loop for single uploads
  Main,         \* the lifespan, which pre-warms
  Benchmarks,   \* executions of run_matrix()
  Contexts,     \* context modes
  Default,      \* settings.context_mode
  DenseDim,     \* settings.dense_dim
  VectorDim,    \* the dimension of the vectors that the embedder returns
  None,         \* nobody
  MaxFaults     \* bound: server calls that raise

ASSUME ThreadAssumption ==
  /\ Main \notin Threads \cup Benchmarks /\ Threads \cap Benchmarks = {}
  /\ None \notin Threads \cup Benchmarks \cup {Main}
ASSUME DefaultAssumption == Default \in Contexts
ASSUME BoundAssumption   == MaxFaults \in Nat

VARIABLES
  hybrid,   \* settings.retrieval_mode = "hybrid", of the current process
  maker,    \* history: the store that has created each collection, if it exists
  loaded,   \* hybrid collections that load_collection() has loaded
  ready,    \* _ready of each store
  lock,     \* who holds _lock of each store
  pc,       \* where each caller is in ensure_collection()
  name,     \* the collection it asks for, while it is there
  serving,  \* the pre-warm is over
  faults    \* calls that have raised so far

vars == <<hybrid, maker, loaded, ready, lock, pc, name, serving, faults>>

Callers  == Threads \cup {Main} \cup Benchmarks
Critical == {"recheck", "has", "create", "load", "add"}
PC       == {"idle", "check", "lock", "use", "raised"} \cup Critical

\* The service's store is named after the lifespan that makes it.
Stores     == Benchmarks \cup {Main}
StoreOf(t) == IF t \in Benchmarks THEN t ELSE Main

\* What collection_for() tells apart among collections of the deployment's model.
CollectionFor(dim, context, isHybrid) == [dim |-> dim, context |-> context, hybrid |-> isHybrid]
Names == {CollectionFor(d, c, h) : d \in {DenseDim, VectorDim}, c \in Contexts, h \in BOOLEAN}

\* The collection that the lifespan warms up, and the one that a batch goes to.
Warmed      == CollectionFor(DenseDim, Default, hybrid)
Filled(c)   == CollectionFor(VectorDim, c, hybrid)
Exists(n)   == maker[n] # None

Init ==
  /\ hybrid \in BOOLEAN
  /\ maker \in [Names -> {None, Main}]
  /\ loaded = {}
  /\ ready = [s \in Stores |-> {}]
  /\ lock = [s \in Stores |-> None]
  /\ pc = [t \in Callers |-> "idle"]
  /\ name = [t \in Callers |-> None]
  /\ serving = FALSE
  /\ faults = 0

Go(t, next)  == pc' = [pc EXCEPT ![t] = next]
Release(t)   == lock' = [lock EXCEPT ![StoreOf(t)] = None]
MarkReady(t) == ready' = [ready EXCEPT ![StoreOf(t)] = @ \cup {name[t]}]

\* Mutation: the pre-warm leaves context_mode at its default argument.
WarmAny(t, n) ==
  CASE t = Main         -> ~serving /\ \E c \in Contexts \ {Default} : n = [Warmed EXCEPT !.context = c]
    [] t \in Threads    -> serving /\ \E c \in Contexts : n = Filled(c)
    [] t \in Benchmarks -> \E c \in Contexts : n = CollectionFor(VectorDim, c, FALSE)

\* The lifespan warms the default collection up; jobs then bring their batch's own.  A
\* benchmark's are dense whatever the service's are.
MayAsk(t, n) ==
  CASE t = Main         -> ~serving /\ n = Warmed
    [] t \in Threads    -> serving /\ \E c \in Contexts : n = Filled(c)
    [] t \in Benchmarks -> \E c \in Contexts : n = CollectionFor(VectorDim, c, FALSE)

Call(t, n) ==
  /\ pc[t] = "idle"
  /\ MayAsk(t, n)
  /\ name' = [name EXCEPT ![t] = n]
  /\ Go(t, "check")
  /\ UNCHANGED <<hybrid, maker, loaded, ready, lock, serving, faults>>

FastCheck(t) ==
  /\ pc[t] = "check"
  /\ Go(t, IF name[t] \in ready[StoreOf(t)] THEN "use" ELSE "lock")
  /\ UNCHANGED <<hybrid, maker, loaded, ready, lock, name, serving, faults>>

\* Mutation: the creation is not serialized.
AcquireAtOnce(t) ==
  /\ pc[t] = "lock"
  /\ lock' = [lock EXCEPT ![StoreOf(t)] = t]
  /\ Go(t, "recheck")
  /\ UNCHANGED <<hybrid, maker, loaded, ready, name, serving, faults>>

Acquire(t) ==
  /\ pc[t] = "lock"
  /\ lock[StoreOf(t)] = None
  /\ lock' = [lock EXCEPT ![StoreOf(t)] = t]
  /\ Go(t, "recheck")
  /\ UNCHANGED <<hybrid, maker, loaded, ready, name, serving, faults>>

Recheck(t) ==
  /\ pc[t] = "recheck"
  /\ IF name[t] \in ready[StoreOf(t)]
       THEN Release(t) /\ Go(t, "use")
       ELSE UNCHANGED lock /\ Go(t, "has")
  /\ UNCHANGED <<hybrid, maker, loaded, ready, name, serving, faults>>

\* Hybrid collections are loaded before they are declared ready.
Present(t) == IF name[t].hybrid THEN "load" ELSE "add"

HasCollection(t) ==
  /\ pc[t] = "has"
  /\ Go(t, IF Exists(name[t]) THEN Present(t) ELSE "create")
  /\ UNCHANGED <<hybrid, maker, loaded, ready, lock, name, serving, faults>>

Made(t) == [maker EXCEPT ![name[t]] = StoreOf(t)]

CreateCollection(t) ==
  /\ pc[t] = "create"
  /\ IF Exists(name[t])
       THEN Release(t) /\ Go(t, "raised") /\ UNCHANGED maker
       ELSE maker' = Made(t) /\ Go(t, Present(t)) /\ UNCHANGED lock
  /\ UNCHANGED <<hybrid, loaded, ready, name, serving, faults>>

LoadCollection(t) ==
  /\ pc[t] = "load"
  /\ loaded' = loaded \cup {name[t]}
  /\ Go(t, "add")
  /\ UNCHANGED <<hybrid, maker, ready, lock, name, serving, faults>>

AddReady(t) ==
  /\ pc[t] = "add"
  /\ MarkReady(t)
  /\ Release(t)
  /\ Go(t, "use")
  /\ UNCHANGED <<hybrid, maker, loaded, name, serving, faults>>

\* Mutation: the lock is released on the way out of a normal return only.
RaiseHoldingLock(t) ==
  /\ faults < MaxFaults
  /\ pc[t] \in {"has", "create", "load"}
  /\ Go(t, "raised")
  /\ faults' = faults + 1
  /\ UNCHANGED <<hybrid, maker, loaded, ready, lock, name, serving>>

\* Mutation: _ready is updated before the server calls, in a finally clause say.
RaiseMarkedReady(t) ==
  /\ faults < MaxFaults
  /\ pc[t] \in {"has", "create", "load"}
  /\ MarkReady(t)
  /\ Release(t)
  /\ Go(t, "raised")
  /\ faults' = faults + 1
  /\ UNCHANGED <<hybrid, maker, loaded, name, serving>>

\* A server call raises, with or without its effect, and "with self._lock" releases the lock.
ServerRaises(t) ==
  /\ faults < MaxFaults
  /\ pc[t] \in {"has", "create", "load"}
  /\ maker' \in IF pc[t] = "create" /\ ~Exists(name[t]) THEN {maker, Made(t)} ELSE {maker}
  /\ Release(t)
  /\ Go(t, "raised")
  /\ faults' = faults + 1
  /\ UNCHANGED <<hybrid, loaded, ready, name, serving>>

\* The next combination of a benchmark comes with a store object of its own.
Leave(t) ==
  /\ Go(t, "idle")
  /\ name' = [name EXCEPT ![t] = None]
  /\ ready' = IF t \in Benchmarks THEN [ready EXCEPT ![t] = {}] ELSE ready

\* ensure_collection() has returned.  A job upserts; the lifespan opens the service.
Use(t) ==
  /\ pc[t] = "use"
  /\ serving' = (serving \/ t = Main)
  /\ Leave(t)
  /\ UNCHANGED <<hybrid, maker, loaded, lock, faults>>

\* A job whose ensure_collection() raised is a failed document; a lifespan, a process
\* that does not start.
Abandon(t) ==
  /\ pc[t] = "raised"
  /\ Leave(t)
  /\ UNCHANGED <<hybrid, maker, loaded, lock, serving, faults>>

\* A new process, perhaps with other settings: its store knows nothing, the server still has
\* its collections.  The benchmarks that ran in the old one are gone, those of the command
\* line go on.
Restart ==
  \E inside \in SUBSET Benchmarks :
    LET gone == Threads \cup {Main} \cup inside IN
    /\ hybrid' \in BOOLEAN
    /\ ready' = [s \in Stores |-> IF s \in gone THEN {} ELSE ready[s]]
    /\ lock' = [s \in Stores |-> IF s \in gone THEN None ELSE lock[s]]
    /\ pc' = [t \in Callers |-> IF t \in gone THEN "idle" ELSE pc[t]]
    /\ name' = [t \in Callers |-> IF t \in gone THEN None ELSE name[t]]
    /\ serving' = FALSE
    /\ UNCHANGED <<maker, loaded, faults>>

EnsureStep(t) ==
  \/ FastCheck(t) \/ Acquire(t) \/ Recheck(t) \/ HasCollection(t) \/ CreateCollection(t)
  \/ LoadCollection(t) \/ AddReady(t) \/ ServerRaises(t) \/ Use(t) \/ Abandon(t)

Next ==
  \/ \E t \in Callers, n \in Names : Call(t, n)
  \/ \E t \in Callers : EnsureStep(t)
  \/ Restart

Spec == Init /\ [][Next]_vars

\* Each call of a thread returns or raises, and a lock that stays free is taken.  No
\* fairness among waiters is needed: a process passes each lock a bounded number of times.
FairSpec == Spec /\ \A t \in Callers : WF_vars(EnsureStep(t))

-----------------------------------------------------------------------------
TypeOK ==
  /\ hybrid \in BOOLEAN
  /\ maker \in [Names -> Stores \cup {None}]
  /\ loaded \subseteq Names
  /\ ready \in [Stores -> SUBSET Names]
  /\ lock \in [Stores -> Callers \cup {None}]
  /\ pc \in [Callers -> PC]
  /\ name \in [Callers -> Names \cup {None}]
  /\ \A t \in Callers : pc[t] # "idle" => name[t] \in Names
  /\ serving \in BOOLEAN
  /\ faults \in 0 .. MaxFaults

\* has_collection() and create_collection() are two calls, and what a caller creates may have
\* come to exist between them.  "serialize creation so two threads don't race"
\* (vectorstore.py:89) holds of the threads of one store, whichever calls raised and whenever
\* the process restarted: what they clash with, another store has created.
OwnCreatesNeverClash ==
  \A t \in Callers : pc[t] = "create" => maker[name[t]] # StoreOf(t)

\* Whoever gets past ensure_collection(), by the fast path included, has a collection that
\* exists and, if it is hybrid, is loaded, whoever else creates collections.
UseIsSafe ==
  \A t \in Callers : pc[t] = "use" => Exists(name[t]) /\ (name[t].hybrid => name[t] \in loaded)

\* Once the service is open no thread takes the slow path for the default collection, so
\* that none can fail over its creation (main.py:93), provided that its vectors have the
\* dimension of the settings.
DefaultIsWarm ==
  serving /\ VectorDim = DenseDim =>
    \A t \in Threads : pc[t] \in Critical \cup {"lock", "raised"} => name[t] # Filled(Default)

\* Whoever waits for the lock gets past it, or its process ends.
EnsureEnds == \A t \in Callers : pc[t] = "lock" ~> pc[t] \in {"use", "raised", "idle"}
=============================================================================
