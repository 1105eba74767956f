-------------------------------- MODULE Tables --------------------------------
(***************************************************************************)
(* The tables of app/repository.py, kept twice: as rows of Postgres, which *)
(* the service uses, and as the in-memory doubles on which the scripted    *)
(* checks of src/backend/scripts run the same callers.  Every call of a    *)
(* caller changes both; what the calls that read answer from each is       *)
(* compared, and the wall time that a batch's summary reports is followed  *)
(* from poll to poll.  Rows carry the stamps that Postgres gives them, as  *)
(* do the doubles' here: now() is the start of a transaction, which is     *)
(* seen when it commits, so that stamps may tie and need not follow the    *)
(* insertions.  Calls that raise and kills, of a handler between its two   *)
(* statements too, are in BulkIngest; a worker that never comes back to a  *)
(* row is one of the behaviours.                                           *)
(***************************************************************************)
EXTENDS Integers, Sequences, SequencesExt, FiniteSetsExt, Functions, Sorting

CONSTANTS
  Files,       \* contents, told by their hashes
  Batches,     \* batches that may be created
  None,        \* batch_id NULL
  MaxDocs,     \* bound: rows of `documents`
  Pieces,      \* chunks of a document
  MaxTime,     \* bound: the clock
  CommitTime,  \* bound: from the start of a transaction to its commit
  BumpTime,    \* bound: from the start of create() to the end of bump_total()
  Limit        \* limit of the list() calls

ASSUME BoundAssumption ==
  /\ MaxDocs \in Nat /\ Pieces \in Nat \ {0} /\ MaxTime \in Nat
  /\ CommitTime \in Nat /\ BumpTime \in Nat /\ CommitTime <= BumpTime /\ Limit \in Nat
ASSUME NoneAssumption == None \notin Batches

VARIABLES
  now,    \* the clock, one for the service and its database
  tab,    \* tables of Postgres: sets of rows
  mem,    \* doubles: rows in the order they were put in
  place,  \* per row of `documents`, what its handler or worker does next
  poll,   \* a summary on its way: what its statements have read so far
  shown   \* per batch, the last wall time a client was told

tables == <<tab, mem>>
vars   == <<now, tab, mem, place, poll, shown>>

--------------------------------------------------------------------------------
(* Rows.  An id tells the place in the order of creation, as uuid or as `doc-N`;  *)
(* a stamp of 0 is NULL.                                                           *)

DocumentRow(id, file, batch, status, at) ==
  [id |-> id, file |-> file, batch |-> batch, status |-> status, created |-> at,
   updated |-> 0, profiled |-> FALSE, count |-> 0]
ChunkRow(d, i) == [doc |-> d, index |-> i]
Run(id, row, at) == [id |-> id, doc |-> row.id, count |-> row.count, created |-> at]

\* Rows with a column left NULL, None in Python.
Null(column, rows) == [i \in DOMAIN rows |-> [rows[i] EXCEPT ![column] = 0]]
\* _DOC_COLS: updated_at is not among the columns that Postgres is asked for.
Answer(rows) == Null("updated", rows)
First(rows)  == IF rows = << >> THEN << >> ELSE <<rows[1]>>
Take(s, n)   == SubSeq(s, 1, IF n < Len(s) THEN n ELSE Len(s))

\* ORDER BY created_at, as the set of its outcomes: rows of one stamp may come in any order.
Oldest(rows) ==
  {s \in [1 .. Cardinality(rows) -> rows] :
     Range(s) = rows /\ \A i, j \in DOMAIN s : i < j => s[i].created <= s[j].created}
Latest(rows)   == {Reverse(s) : s \in Oldest(rows)}
By(rows, key)  == Sorted(rows, {p \in rows \X rows : p[1][key] < p[2][key]})

\* Some entries of a sequence in the order of a relation on their places: a comprehension
\* keeps the order, sorted() does so among equals.
Picked(s, places, before) == [k \in 1 .. Cardinality(places) |-> s[Sorted(places, before)[k]]]
Only(s, key, value) ==
  LET places == {i \in DOMAIN s : s[i][key] = value}
  IN  Picked(s, places, {p \in places \X places : p[1] < p[2]})
SortedBy(s, key) ==
  Picked(s, DOMAIN s, {p \in (DOMAIN s) \X (DOMAIN s) :
    s[p[1]][key] < s[p[2]][key] \/ (s[p[1]][key] = s[p[2]][key] /\ p[1] < p[2])})

--------------------------------------------------------------------------------
(* Postgres.  An UPDATE of an id without a row changes nothing.                    *)

Written(row, columns) == [c \in DOMAIN row |-> IF c \in DOMAIN columns THEN columns[c] ELSE row[c]]

DbUpdate(t, d, columns) ==
  [t EXCEPT !.docs = {IF r.id = d THEN Written(r, columns) ELSE r : r \in @}]

DbCreate(t, row) == [t EXCEPT !.docs = @ \union {row}]
DbSetStatus(t, d, status, at) == DbUpdate(t, d, [status |-> status, updated |-> at])
DbSetResult(t, d, status, count, at) ==
  DbUpdate(t, d, [status |-> status, count |-> count, updated |-> at])
DbUpdateProfile(t, d) == DbUpdate(t, d, [profiled |-> TRUE])

\* The calls that sort by created_at have a set of possible answers.
DbGet(t, d)  == Answer(SetToSeq({r \in t.docs : r.id = d}))
DbList(t)    == {Answer(Take(s, Limit)) : s \in Latest(t.docs)}
DbFind(t, f) == {Answer(First(s)) : s \in Oldest({r \in t.docs : r.file = f})}

DbCreateBatch(t, b, at) ==
  [t EXCEPT !.batches = [x \in DOMAIN @ \union {b} |->
                          IF x = b THEN [total |-> 0, created |-> at] ELSE @[x]]]
DbBump(t, b) == [t EXCEPT !.batches[b].total = @ + 1]

\* INSERT ... ON CONFLICT (document_id, chunk_index) DO UPDATE
DbInsertChunks(t, rows) ==
  LET same(r, s) == r.doc = s.doc /\ r.index = s.index IN
  [t EXCEPT !.chunks = {r \in @ : \A i \in DOMAIN rows : ~same(r, rows[i])} \union Range(rows)]
DbChunksOf(t, d)   == By({r \in t.chunks : r.doc = d}, "index")
DbGetByIds(t, ids) == {r \in t.chunks : <<r.doc, r.index>> \in ids}

DbInsertBenchmark(t, row, at) ==
  [t EXCEPT !.bench = @ \union {Run(Cardinality(@) + 1, row, at)}]
DbInsertEval(t, row, at) ==
  [t EXCEPT !.evals = @ \union {Run(Cardinality(@) + 1, row, at)}]
DbBenchmarks(t) == {Take(s, Limit) : s \in Latest(t.bench)}
DbEvals(t)      == {Take(s, Limit) : s \in Latest(t.evals)}

--------------------------------------------------------------------------------
(* The doubles: dictionaries and lists of Python, in the order of insertion.       *)

MemUpdate(s, d, columns) ==
  [s EXCEPT !.docs = [i \in DOMAIN @ |-> IF @[i].id = d THEN Written(@[i], columns) ELSE @[i]]]

MemCreate(s, row) == [s EXCEPT !.docs = Append(@, row)]
MemSetStatus(s, d, status, at) == MemUpdate(s, d, [status |-> status, updated |-> at])
MemSetResult(s, d, status, count, at) ==
  MemUpdate(s, d, [status |-> status, count |-> count, updated |-> at])
MemUpdateProfile(s, d) == MemUpdate(s, d, [profiled |-> TRUE])

\* Rows as they are, with the stamps of their updates.
MemGet(s, d)  == Only(s.docs, "id", d)
\* Mutation: the dictionary is listed in its own order.
MemListOldest(s) == Take(s.docs, Limit)
MemList(s)    == Take(Reverse(s.docs), Limit)
MemFind(s, f) == First(Only(s.docs, "file", f))

MemCreateBatch(s, b, at) == DbCreateBatch(s, b, at)
MemBump(s, b) == IF b \in DOMAIN s.batches THEN DbBump(s, b) ELSE s

MemInsertChunks(s, rows) == [s EXCEPT !.chunks = @ \o rows]
MemChunksOf(s, d) == SortedBy(Only(s.chunks, "doc", d), "index")
MemGetByIds(s, ids) == {r \in Range(s.chunks) : <<r.doc, r.index>> \in ids}

MemInsertBenchmark(s, row, at) == [s EXCEPT !.bench = Append(@, Run(Len(@) + 1, row, at))]
MemInsertEval(s, row, at)      == [s EXCEPT !.evals = Append(@, Run(Len(@) + 1, row, at))]
\* reversed(self.runs[-limit:]), where -0 is the beginning; the stamp is answered as None.
Newest(runs) ==
  LET first == IF Limit = 0 THEN 1 ELSE Max({1, Len(runs) - Limit + 1})
  IN  Null("created", Reverse(SubSeq(runs, first, Len(runs))))
MemBenchmarks(s) == Newest(s.bench)
MemEvals(s)      == Newest(s.evals)

--------------------------------------------------------------------------------
(* The summary of a batch.  The parts that both kinds share are _batch_summary()   *)
(* and _elapsed_seconds().                                                         *)

\* GROUP BY status
Groups(members, Stamp(_)) ==
  [s \in {r.status : r \in members} |->
    LET group == {r \in members : r.status = s}
    IN  [n |-> Cardinality(group), count |-> SumFunction([r \in group |-> r.count]),
         last |-> Max({Stamp(r) : r \in group})]]

\* Mutation: the table takes the double's fallback.
DbGroupsFromStart(t, b) ==
  Groups({r \in t.docs : r.batch = b},
         LAMBDA r : IF r.updated # 0 THEN r.updated ELSE t.batches[b].created)
\* max(coalesce(updated_at, created_at))
DbGroups(t, b) ==
  Groups({r \in t.docs : r.batch = b},
         LAMBDA r : IF r.updated # 0 THEN r.updated ELSE r.created)
\* d.updated_at or started
MemGroups(s, b) ==
  Groups({r \in Range(s.docs) : r.batch = b},
         LAMBDA r : IF r.updated # 0 THEN r.updated ELSE s.batches[b].created)

\* counts.get(s, 0)
CountOf(groups, s) == IF s \in DOMAIN groups THEN groups[s].n ELSE 0
Settled(groups) ==
  CountOf(groups, "ready") + CountOf(groups, "failed") + CountOf(groups, "duplicate")
LastAt(groups) == Max({groups[s].last : s \in DOMAIN groups})

\* Mutation: failed documents do not finish a batch.
EndIfReady(groups, total) ==
  IF total > 0 /\ CountOf(groups, "ready") + CountOf(groups, "duplicate") >= total
  THEN LastAt(groups) ELSE 0
\* The latest transition of a finished batch, 0 while it is running.
End(groups, total) == IF total > 0 /\ Settled(groups) >= total THEN LastAt(groups) ELSE 0

Elapsed(start, end, time) == Max({0, (IF end # 0 THEN end ELSE time) - start})

Listed(row) == [id |-> row.id, status |-> row.status, count |-> row.count]
BatchSummary(batch, groups, docs) ==
  [total  |-> batch.total,
   counts |-> [s \in DOMAIN groups |-> groups[s].n],
   chunks |-> SumFunction([s \in DOMAIN groups |-> groups[s].count]),
   docs   |-> [i \in DOMAIN docs |-> Listed(docs[i])]]

DbSummary(t, b) ==
  {BatchSummary(t.batches[b], DbGroups(t, b), docs) :
     docs \in Oldest({r \in t.docs : r.batch = b})}
MemSummary(s, b) ==
  BatchSummary(s.batches[b], MemGroups(s, b), Only(s.docs, "batch", b))

DbElapsed(t, b)  == Elapsed(t.batches[b].created, End(DbGroups(t, b), t.batches[b].total), now)
MemElapsed(s, b) == Elapsed(s.batches[b].created, End(MemGroups(s, b), s.batches[b].total), now)

--------------------------------------------------------------------------------
(* The callers.                                                                    *)

NoBatches == [b \in {} |-> {}]
Ids       == DOMAIN place
RowOf(d)  == CHOOSE r \in tab.docs : r.id = d

\* Stamps of a transaction that commits now, begun when `after` was over; never 0.
Stamps(after) == {t \in 1 .. now : t >= after /\ t >= now - CommitTime}
LastUpload    == Max({0} \union {r.created : r \in {x \in tab.docs : x.batch # None}})
LastStamp(d)  == Max({RowOf(d).created, RowOf(d).updated})

Init ==
  /\ now = 1
  /\ tab = [docs |-> {}, batches |-> NoBatches, chunks |-> {}, bench |-> {}, evals |-> {}]
  /\ mem = [docs |-> << >>, batches |-> NoBatches, chunks |-> << >>, bench |-> << >>,
            evals |-> << >>]
  /\ place = << >>
  /\ poll = [pc |-> "idle"]
  /\ shown = [b \in Batches |-> [elapsed |-> 0, floor |-> 0, rows |-> 0]]

\* Nothing is awaited between create() and bump_total(): the event loop runs no other handler.
\* Threads go on meanwhile, and so does the time.
LoopFree == \A d \in Ids : place[d] # "bump"

Tick ==
  /\ now < MaxTime
  /\ \A d \in Ids : place[d] = "bump" => now < RowOf(d).created + BumpTime
  /\ now' = now + 1
  /\ UNCHANGED <<tables, place, poll, shown>>

CreateBatch(b) ==
  /\ b \notin DOMAIN tab.batches
  /\ \E at \in Stamps(0) :
       /\ tab' = DbCreateBatch(tab, b, at)
       /\ mem' = MemCreateBatch(mem, b, at)
  /\ UNCHANGED <<now, place, poll, shown>>

Create(file, batch, status, next, after) ==
  \E at \in Stamps(after) :
    LET row == DocumentRow(Len(place) + 1, file, batch, status, at) IN
    /\ Len(place) < MaxDocs
    /\ tab' = DbCreate(tab, row)
    /\ mem' = MemCreate(mem, row)
    /\ place' = Append(place, next)
    /\ UNCHANGED <<now, poll, shown>>

\* POST /batches/{id}/documents, or the loop of smoke_bulk: one at a time, so that the stamps of
\* uploads follow each other.
Upload(file, batch, dedup) ==
  /\ LoopFree /\ batch \in DOMAIN tab.batches
  /\ Create(file, batch,
            IF dedup /\ << >> \notin DbFind(tab, file) THEN "duplicate" ELSE "queued",
            "bump", Max({LastUpload, tab.batches[batch].created}))

Bump(d) ==
  /\ place[d] = "bump"
  /\ tab' = DbBump(tab, RowOf(d).batch)
  /\ mem' = MemBump(mem, RowOf(d).batch)
  /\ place' = [place EXCEPT ![d] = IF RowOf(d).status = "duplicate" THEN "done" ELSE "mark"]
  /\ UNCHANGED <<now, poll, shown>>

\* ingest(): the single upload, a combination of the benchmark, a file of a sweep.  The last
\* two ask for no dedup, so that a row of any file may appear, and run in threads, so that a
\* row may be committed after one of a later stamp.
Ingest(file) == Create(file, None, "processing", "profile", 0)

SetStatus(d, status, next) ==
  /\ \E at \in Stamps(LastStamp(d)) :
       /\ tab' = DbSetStatus(tab, d, status, at)
       /\ mem' = MemSetStatus(mem, d, status, at)
  /\ place' = [place EXCEPT ![d] = next]
  /\ UNCHANGED <<now, poll, shown>>

\* What follows the pipeline: the worker's second write, or the caller's own record.
Then(d) == IF RowOf(d).batch = None THEN "report" ELSE "result"

MarkProcessing(d) == place[d] = "mark" /\ SetStatus(d, "processing", "profile")
SetReady(d)       == place[d] = "ready" /\ SetStatus(d, "ready", Then(d))
Fail(d) == place[d] \in {"profile", "chunks", "ready"} /\ SetStatus(d, "failed", Then(d))

UpdateProfile(d) ==
  /\ place[d] = "profile"
  /\ tab' = DbUpdateProfile(tab, d)
  /\ mem' = MemUpdateProfile(mem, d)
  /\ place' = [place EXCEPT ![d] = "chunks"]
  /\ UNCHANGED <<now, poll, shown>>

InsertChunks(d) ==
  LET rows == [i \in 1 .. Pieces |-> ChunkRow(d, i - 1)] IN
  /\ place[d] = "chunks"
  /\ tab' = DbInsertChunks(tab, rows)
  /\ mem' = MemInsertChunks(mem, rows)
  /\ place' = [place EXCEPT ![d] = "ready"]
  /\ UNCHANGED <<now, poll, shown>>

Count(d) == IF RowOf(d).status = "ready" THEN Len(DbChunksOf(tab, d)) ELSE 0

SetResult(d) ==
  /\ place[d] = "result"
  /\ \E at \in Stamps(LastStamp(d)) :
       /\ tab' = DbSetResult(tab, d, RowOf(d).status, Count(d), at)
       /\ mem' = MemSetResult(mem, d, RowOf(d).status, Count(d), at)
  /\ place' = [place EXCEPT ![d] = "done"]
  /\ UNCHANGED <<now, poll, shown>>

\* run_matrix() keeps a run whatever the ingest came to, run_eval() one of ready documents:
\* here a corpus is one file.  A single upload keeps none.
RecordBenchmark(d) ==
  LET row == [RowOf(d) EXCEPT !.count = Count(d)] IN
  /\ place[d] = "report"
  /\ \E at \in Stamps(0) :
       /\ tab' = DbInsertBenchmark(tab, row, at)
       /\ mem' = MemInsertBenchmark(mem, row, at)
  /\ place' = [place EXCEPT ![d] = "done"]
  /\ UNCHANGED <<now, poll, shown>>

RecordEval(d) ==
  /\ place[d] = "report" /\ RowOf(d).status = "ready"
  /\ \E at \in Stamps(0) :
       /\ tab' = DbInsertEval(tab, RowOf(d), at)
       /\ mem' = MemInsertEval(mem, RowOf(d), at)
  /\ place' = [place EXCEPT ![d] = "done"]
  /\ UNCHANGED <<now, poll, shown>>

\* The number of rows of a batch that nobody will write to any more, 0 if there is work left.
AtRest(b) ==
  LET members == {r \in tab.docs : r.batch = b} IN
  IF \A r \in members : place[r.id] = "done" THEN Cardinality(members) ELSE 0

\* GET /batches/{id}: the batch's row, then the aggregate and the answer.
PollBatch(b) ==
  /\ poll.pc = "idle" /\ b \in DOMAIN tab.batches
  /\ poll' = [pc |-> "aggregate", batch |-> b, row |-> tab.batches[b], rows |-> AtRest(b),
              at |-> now]
  /\ UNCHANGED <<now, tables, place, shown>>

\* The list of documents, read in between, is in BatchProgress.
PollAnswer ==
  LET end == End(DbGroups(tab, poll.batch), poll.row.total) IN
  /\ poll.pc = "aggregate"
  /\ shown' = [shown EXCEPT ![poll.batch] =
       [elapsed |-> Elapsed(poll.row.created, end, now),
        floor   |-> Elapsed(poll.row.created, end, poll.at),
        rows    |-> IF poll.rows = AtRest(poll.batch) THEN poll.rows ELSE 0]]
  /\ poll' = [pc |-> "idle"]
  /\ UNCHANGED <<now, tables, place>>

Next ==
  \/ Tick
  \/ \E b \in Batches : CreateBatch(b) \/ PollBatch(b)
  \/ \E file \in Files : Ingest(file)
  \/ \E file \in Files, b \in Batches, dedup \in BOOLEAN : Upload(file, b, dedup)
  \/ \E d \in Ids :
       \/ Bump(d) \/ MarkProcessing(d) \/ UpdateProfile(d) \/ InsertChunks(d)
       \/ SetReady(d) \/ Fail(d) \/ SetResult(d)
       \/ RecordBenchmark(d) \/ RecordEval(d)
  \/ PollAnswer

Spec == Init /\ [][Next]_vars

--------------------------------------------------------------------------------
(* Properties.                                                                     *)

ChunkIds == (1 .. MaxDocs) \X (0 .. Pieces)

\* The stamps of a table's rows follow the insertions.
InTurn(rows) == \A r, s \in rows : r.id < s.id => r.created <= s.created

\* Whatever calls a service makes, in whatever order its handlers and workers make them, the
\* doubles answer as Postgres may (repository.py:517), except in what is named here: a row has
\* its updated_at, a run no created_at; lists, and the row that a look-up finds, need stamps in
\* the order of the insertions, while whether there is one does not, nor does the order within
\* a batch; a limit of 0 is none for a list of runs.  The wall time may be shorter than that of
\* Postgres, and is the same once every row of the batch has been written to again.
DoublesAgree ==
  /\ \A d \in 1 .. MaxDocs : Answer(MemGet(mem, d)) = DbGet(tab, d)
  /\ \A f \in Files : MemFind(mem, f) = << >> <=> << >> \in DbFind(tab, f)
  /\ InTurn(tab.docs) =>
       /\ Answer(MemList(mem)) \in DbList(tab)
       /\ \A f \in Files : Answer(MemFind(mem, f)) \in DbFind(tab, f)
  /\ \A d \in 1 .. MaxDocs : DbChunksOf(tab, d) = MemChunksOf(mem, d)
  /\ DbGetByIds(tab, ChunkIds) = MemGetByIds(mem, ChunkIds)
  /\ (Limit > 0 /\ InTurn(tab.bench)) =>
       \E runs \in DbBenchmarks(tab) : MemBenchmarks(mem) = Null("created", runs)
  /\ (Limit > 0 /\ InTurn(tab.evals)) =>
       \E runs \in DbEvals(tab) : MemEvals(mem) = Null("created", runs)
  /\ \A b \in DOMAIN tab.batches :
       /\ MemSummary(mem, b) \in DbSummary(tab, b)
       /\ MemElapsed(mem, b) <= DbElapsed(tab, b)
       /\ (\A r \in tab.docs : r.batch = b => r.updated # 0) =>
            MemElapsed(mem, b) = DbElapsed(tab, b)

\* Two polls of a batch that nobody has written to since before the first of them, and that
\* has all its rows settled, are told the same wall time (_elapsed_seconds(),
\* repository.py:279): a failed or duplicate document does not keep the clock running.
ElapsedPinned ==
  [][\A b \in Batches :
       shown[b].rows # 0 /\ shown'[b].rows = shown[b].rows =>
         shown'[b].elapsed = shown[b].elapsed]_vars

\* The wall time that a client is told never falls (repository.py:287), except for what a poll
\* takes itself and for the time that create() and bump_total() take together: until then a
\* batch is told as running that then turns out to have finished at the stamp of a duplicate.
\* A batch that finishes is pinned to a transition that comes after every poll that found it
\* running, but for that time; one that grows again counts on from there.
ElapsedNeverFalls ==
  [][\A b \in Batches : shown'[b].elapsed + BumpTime >= shown[b].floor]_vars
===============================================================================
