----------------------- MODULE EnsureCollectionProofs -----------------------
(***************************************************************************)
(* Proofs about EnsureCollection, for any threads, benchmarks and context  *)
(* modes and any number of failing server calls: double-checked locking is *)
(* sound for the threads of one store, beside any number of other stores.  *)
(*                                                                         *)
(* The properties are not inductive.  What makes them so is the meaning of *)
(* the lock (Exclusive), of the set _ready (ReadyIsUsable) and of each     *)
(* place inside the critical section (Reached).                            *)
(***************************************************************************)
EXTENDS EnsureCollection, TLAPS

\* Whoever is between acquiring and releasing its store's lock holds it.
Exclusive == \A t \in Callers : pc[t] \in Critical <=> lock[StoreOf(t)] = t

Usable(n) == Exists(n) /\ (n.hybrid => n \in loaded)

\* What the fast path takes on trust.
ReadyIsUsable == \A s \in Stores : \A n \in ready[s] : Usable(n)

\* What a caller has established by the time it gets to each place.
Reached ==
  \A t \in Callers :
    /\ pc[t] = "create" => maker[name[t]] # StoreOf(t)
    /\ pc[t] \in {"load", "add"} => Exists(name[t])
    /\ pc[t] = "add" => Usable(name[t])
    /\ pc[t] = "use" => name[t] \in ready[StoreOf(t)]

IInv == TypeOK /\ Exclusive /\ ReadyIsUsable /\ Reached

-----------------------------------------------------------------------------
\* Every caller has a store, and nobody is none.
LEMMA StoresOfCallers ==
  /\ \A t \in Callers : StoreOf(t) \in Stores
  /\ None \notin Stores /\ None \notin Callers
BY ThreadAssumption DEF StoreOf, Stores, Callers

\* What callers may ask for are names.
LEMMA AskedNames == \A t \in Callers : \A n : hybrid \in BOOLEAN /\ MayAsk(t, n) => n \in Names
<1> SUFFICES ASSUME NEW t \in Callers, NEW n, hybrid \in BOOLEAN, MayAsk(t, n) PROVE n \in Names
  OBVIOUS
<1>1. \A d \in {DenseDim, VectorDim}, c \in Contexts, h \in BOOLEAN :
        CollectionFor(d, c, h) \in Names
  BY DEF Names
<1>2. CASE t = Main
  BY <1>1, <1>2, DefaultAssumption, ThreadAssumption DEF MayAsk, Warmed
<1>3. CASE t \in Threads
  BY <1>1, <1>3, ThreadAssumption DEF MayAsk, Filled
<1>4. CASE t \in Benchmarks
  BY <1>1, <1>4, ThreadAssumption DEF MayAsk
<1>5. QED
  BY <1>2, <1>3, <1>4 DEF Callers

\* A process starts with an empty store over whatever collections the server has.
LEMMA InitTyped == Init => TypeOK
<1> SUFFICES ASSUME Init PROVE TypeOK
  OBVIOUS
<1>1. maker \in [Names -> Stores \cup {None}] /\ loaded \subseteq Names
  BY DEF Init, Stores
<1>2. ready \in [Stores -> SUBSET Names] /\ lock \in [Stores -> Callers \cup {None}]
  BY DEF Init
<1>3. pc \in [Callers -> PC] /\ name \in [Callers -> Names \cup {None}]
      /\ \A t \in Callers : pc[t] = "idle"
  BY DEF Init, PC
<1>4. faults \in 0 .. MaxFaults
  BY BoundAssumption DEF Init
<1>5. QED
  BY <1>1, <1>2, <1>3, <1>4 DEF Init, TypeOK

\* The variables keep their types: names are collections, each lock has one owner at
\* most, whatever fails and whenever the process restarts.
THEOREM TypeCorrect == Spec => []TypeOK
<1>1. Init => TypeOK
  BY InitTyped
<1>2. TypeOK /\ [Next]_vars => TypeOK'
  <2> SUFFICES ASSUME TypeOK, [Next]_vars PROVE TypeOK'
    OBVIOUS
  <2> USE StoresOfCallers, BoundAssumption DEF TypeOK, PC, Critical, Go, Release
  <2>1. ASSUME NEW t \in Callers, NEW n \in Names, Call(t, n) PROVE TypeOK'
    BY <2>1 DEF Call
  <2>2. ASSUME NEW t \in Callers, EnsureStep(t) PROVE TypeOK'
    <3>1. CASE FastCheck(t)
      BY <3>1 DEF FastCheck
    <3>2. CASE Acquire(t)
      BY <3>2 DEF Acquire
    <3>3. CASE Recheck(t)
      BY <3>3 DEF Recheck
    <3>4. CASE HasCollection(t)
      BY <3>4 DEF HasCollection, Present
    <3>5. CASE CreateCollection(t)
      <4>1. maker' \in [Names -> Stores \cup {None}]
        BY <3>5 DEF CreateCollection, Made
      <4>2. QED
        BY <3>5, <4>1 DEF CreateCollection, Present
    <3>6. CASE LoadCollection(t)
      BY <3>6 DEF LoadCollection
    <3>7. CASE AddReady(t)
      <4>1. ready' \in [Stores -> SUBSET Names]
        BY <3>7 DEF AddReady, MarkReady
      <4>2. QED
        BY <3>7, <4>1 DEF AddReady
    <3>8. CASE ServerRaises(t)
      <4>1. maker' \in [Names -> Stores \cup {None}]
        BY <3>8 DEF ServerRaises, Made
      <4>2. faults' \in 0 .. MaxFaults
        BY <3>8 DEF ServerRaises
      <4>3. QED
        BY <3>8, <4>1, <4>2 DEF ServerRaises
    <3>9. CASE Use(t) \/ Abandon(t)
      <4>1. ready' \in [Stores -> SUBSET Names]
        BY <3>9 DEF Use, Abandon, Leave
      <4>2. serving' \in BOOLEAN
        BY <3>9 DEF Use, Abandon
      <4>3. QED
        BY <3>9, <4>1, <4>2 DEF Use, Abandon, Leave
    <3>10. QED
      BY <2>2, <3>1, <3>2, <3>3, <3>4, <3>5, <3>6, <3>7, <3>8, <3>9 DEF EnsureStep
  <2>3. CASE Restart
    BY <2>3 DEF Restart
  <2>4. CASE UNCHANGED vars
    BY <2>4 DEF vars
  <2>5. QED
    BY <2>1, <2>2, <2>3, <2>4 DEF Next
<1>3. QED
  BY <1>1, <1>2, PTL DEF Spec

-----------------------------------------------------------------------------
\* One step of a caller keeps the invariant.  Of the callers of one store only the owner of
\* the lock is inside the critical section; a caller of another store may create what this
\* one is about to create, and then is its maker.
LEMMA StepKeepsIInv ==
  ASSUME IInv, TypeOK', NEW t \in Callers, EnsureStep(t)
  PROVE  IInv'
<1> USE StoresOfCallers
    DEF IInv, TypeOK, Exclusive, ReadyIsUsable, Reached, Usable, Exists, Critical, PC, Go, Release
<1>1. CASE FastCheck(t)
  BY <1>1 DEF FastCheck
<1>2. CASE Acquire(t)
  BY <1>2 DEF Acquire
<1>3. CASE Recheck(t)
  BY <1>3 DEF Recheck
<1>4. CASE HasCollection(t)
  BY <1>4 DEF HasCollection, Present
<1>5. CASE CreateCollection(t)
  <2>1. \A n \in Names : Exists(n) => Exists(n)'
    BY <1>5 DEF CreateCollection, Made
  <2>2. \A s \in Callers : s # t /\ pc[s] \in Critical => StoreOf(s) # StoreOf(t)
    BY <1>5 DEF CreateCollection
  <2>3. \A s \in Callers : s # t /\ pc[s] = "create" => maker'[name[s]] # StoreOf(s)
    BY <1>5, <2>2 DEF CreateCollection, Made
  <2>4. Exclusive'
    BY <1>5 DEF CreateCollection, Present
  <2>5. ReadyIsUsable'
    BY <1>5, <2>1 DEF CreateCollection
  <2>6. Reached'
    <3>1. CASE Exists(name[t])
      BY <1>5, <3>1 DEF CreateCollection
    <3>2. CASE ~Exists(name[t])
      <4>1. Exists(name[t])' /\ pc'[t] \in {"load", "add"} /\ name' = name
            /\ (pc'[t] = "add" => ~name[t].hybrid)
        BY <1>5, <3>2 DEF CreateCollection, Made, Present
      <4>2. \A s \in Callers : s # t => pc'[s] = pc[s]
        BY <1>5 DEF CreateCollection
      <4>3. ready' = ready /\ loaded' = loaded
        BY <1>5 DEF CreateCollection
      <4>4. QED
        BY <2>1, <2>3, <4>1, <4>2, <4>3
    <3>3. QED
      BY <3>1, <3>2
  <2>7. QED
    BY <2>4, <2>5, <2>6
<1>6. CASE LoadCollection(t)
  BY <1>6 DEF LoadCollection
<1>7. CASE AddReady(t)
  <2>1. \A s \in Stores : ready'[s] \subseteq ready[s] \cup {name[t]}
    BY <1>7 DEF AddReady, MarkReady
  <2>2. \A s \in Stores : ready[s] \subseteq ready'[s]
    BY <1>7 DEF AddReady, MarkReady
  <2>3. name[t] \in ready'[StoreOf(t)]
    BY <1>7 DEF AddReady, MarkReady
  <2>4. Exclusive'
    BY <1>7 DEF AddReady
  <2>5. ReadyIsUsable'
    BY <1>7, <2>1 DEF AddReady
  <2>6. Reached'
    BY <1>7, <2>2, <2>3 DEF AddReady
  <2>7. QED
    BY <2>4, <2>5, <2>6
<1>8. CASE ServerRaises(t)
  <2>1. \A n \in Names : Exists(n) => Exists(n)'
    BY <1>8 DEF ServerRaises, Made
  <2>2. \A s \in Callers : s # t /\ pc[s] \in Critical => StoreOf(s) # StoreOf(t)
    BY <1>8 DEF ServerRaises
  <2>3. \A s \in Callers : s # t /\ pc[s] = "create" => maker'[name[s]] # StoreOf(s)
    BY <1>8, <2>2 DEF ServerRaises, Made
  <2>4. QED
    BY <1>8, <2>1, <2>3 DEF ServerRaises
<1>9. CASE Use(t) \/ Abandon(t)
  <2>1. \A s \in Stores : ready'[s] \subseteq ready[s]
    BY <1>9 DEF Use, Abandon, Leave
  <2>2. \A s \in Callers : s # t => ready'[StoreOf(s)] = ready[StoreOf(s)]
    BY <1>9, ThreadAssumption DEF Use, Abandon, Leave, StoreOf
  <2>3. QED
    BY <1>9, <2>1, <2>2 DEF Use, Abandon, Leave
<1>10. QED
  BY <1>1, <1>2, <1>3, <1>4, <1>5, <1>6, <1>7, <1>8, <1>9 DEF EnsureStep

\* The strengthened invariant holds throughout.
LEMMA IInvHolds == Spec => []IInv
<1>1. Init => IInv
  BY InitTyped, StoresOfCallers
  DEF Init, IInv, Exclusive, ReadyIsUsable, Reached, Critical
<1>2. IInv /\ TypeOK' /\ [Next]_vars => IInv'
  <2> SUFFICES ASSUME IInv, TypeOK', [Next]_vars PROVE IInv'
    OBVIOUS
  <2>1. ASSUME NEW t \in Callers, NEW n \in Names, Call(t, n) PROVE IInv'
    BY <2>1
    DEF Call, IInv, TypeOK, Exclusive, ReadyIsUsable, Reached, Usable, Exists, Critical, Go
  <2>2. CASE Restart
    <3>1. PICK inside \in SUBSET Benchmarks :
            LET gone == Threads \cup {Main} \cup inside IN
            /\ ready' = [s \in Stores |-> IF s \in gone THEN {} ELSE ready[s]]
            /\ lock' = [s \in Stores |-> IF s \in gone THEN None ELSE lock[s]]
            /\ pc' = [t \in Callers |-> IF t \in gone THEN "idle" ELSE pc[t]]
            /\ name' = [t \in Callers |-> IF t \in gone THEN None ELSE name[t]]
            /\ UNCHANGED <<maker, loaded, faults>>
      BY <2>2 DEF Restart
    <3> DEFINE gone == Threads \cup {Main} \cup inside
    <3>2. \A t \in Callers : StoreOf(t) \in gone <=> t \in gone
      BY ThreadAssumption DEF StoreOf, Callers
    <3>3. Exclusive'
      BY <3>1, <3>2, StoresOfCallers DEF IInv, Exclusive, Critical
    <3>4. ReadyIsUsable'
      BY <3>1 DEF IInv, ReadyIsUsable, Usable, Exists
    <3>5. Reached'
      BY <3>1, <3>2, StoresOfCallers DEF IInv, Reached, Usable, Exists
    <3>6. QED
      BY <3>3, <3>4, <3>5 DEF IInv
  <2>3. CASE UNCHANGED vars
    BY <2>3 DEF vars, IInv, TypeOK, Exclusive, ReadyIsUsable, Reached, Usable, Exists
  <2>4. QED
    BY <2>1, <2>2, <2>3, StepKeepsIInv DEF Next
<1>3. QED
  BY <1>1, <1>2, TypeCorrect, PTL DEF Spec

\* What has come to exist between a thread's has_collection() and its create_collection() was
\* created by another store's caller, a benchmark's, never by a thread of its own service.
THEOREM CreationIsSerialized == Spec => []OwnCreatesNeverClash
<1>1. IInv => OwnCreatesNeverClash
  BY DEF IInv, Reached, OwnCreatesNeverClash
<1>2. QED
  BY <1>1, IInvHolds, PTL

\* Getting past ensure_collection(), by either path, means that the collection is there
\* and if hybrid loaded: the set _ready never runs ahead of the server.
THEOREM FastPathIsSafe == Spec => []UseIsSafe
<1>1. IInv => UseIsSafe
  BY StoresOfCallers DEF IInv, TypeOK, ReadyIsUsable, Reached, Usable, UseIsSafe
<1>2. QED
  BY <1>1, IInvHolds, PTL

-----------------------------------------------------------------------------
\* While the service is open the pre-warmed collection is ready: the lifespan asks for
\* no other, and no thread asks for any before it is done.
Warm ==
  /\ pc[Main] # "idle" => name[Main] = Warmed
  /\ serving => Warmed \in ready[Main]
  /\ \A t \in Threads : pc[t] # "idle" => serving
  /\ \A t \in Threads : pc[t] \in Critical \cup {"lock", "raised"} => name[t] # Warmed

\* Once the service is open no thread ever takes the slow path over the collection that
\* the lifespan pre-warmed, nor fails over it, whatever benchmarks create.
THEOREM PrewarmHolds == Spec => []DefaultIsWarm
<1> USE ThreadAssumption DEF Callers
<1>1. Init => Warm
  BY DEF Init, Warm, Critical
<1>2. IInv /\ Warm /\ [Next]_vars => Warm'
  <2> SUFFICES ASSUME IInv, Warm, [Next]_vars PROVE Warm'
    OBVIOUS
  <2>1. Main \in Stores /\ \A t \in Threads \cup {Main} : StoreOf(t) = Main
    BY DEF Stores, StoreOf
  <2>2. hybrid' = hybrid => Warmed' = Warmed
    BY DEF Warmed, CollectionFor
  <2> USE <2>1, <2>2 DEF IInv, TypeOK, Reached, Warm, Go, PC, Critical
  <2>3. ASSUME NEW t \in Callers, NEW n \in Names, Call(t, n) PROVE Warm'
    BY <2>3 DEF Call, MayAsk
  <2>4. ASSUME NEW t \in Callers, EnsureStep(t) PROVE Warm'
    <3>1. CASE FastCheck(t)
      BY <3>1 DEF FastCheck
    <3>2. CASE Acquire(t) \/ Recheck(t) \/ HasCollection(t)
      BY <3>2 DEF Acquire, Recheck, HasCollection, Present
    <3>3. CASE CreateCollection(t) \/ LoadCollection(t)
      BY <3>3 DEF CreateCollection, LoadCollection, Present
    <3>4. CASE AddReady(t)
      <4>1. ready[Main] \subseteq ready'[Main]
        BY <3>4 DEF AddReady, MarkReady
      <4>2. QED
        BY <3>4, <4>1 DEF AddReady
    <3>5. CASE ServerRaises(t)
      BY <3>5 DEF ServerRaises
    <3>6. CASE Use(t) \/ Abandon(t)
      <4>1. ready'[Main] = ready[Main]
        BY <3>6 DEF Use, Abandon, Leave
      <4>2. CASE t = Main
        BY <3>6, <4>1, <4>2 DEF Use, Abandon, Leave
      <4>3. CASE t # Main
        BY <3>6, <4>1, <4>3 DEF Use, Abandon, Leave
      <4>4. QED
        BY <4>2, <4>3
    <3>7. QED
      BY <2>4, <3>1, <3>2, <3>3, <3>4, <3>5, <3>6 DEF EnsureStep
  <2>5. CASE Restart
    BY <2>5 DEF Restart
  <2>6. CASE UNCHANGED vars
    BY <2>6 DEF vars
  <2>7. QED
    BY <2>3, <2>4, <2>5, <2>6 DEF Next
<1>3. Warm => DefaultIsWarm
  BY DEF Warm, DefaultIsWarm, Warmed, Filled
<1>4. QED
  BY <1>1, <1>2, <1>3, IInvHolds, PTL DEF Spec
=============================================================================
