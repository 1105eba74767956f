---------------------------- MODULE BatchProgress ----------------------------
(***************************************************************************)
(* GET /batches/{id} (app/repository.py, summary) and the client that      *)
(* polls it (scripts/e2e_bulk.py), composed with BulkIngest.               *)
(*                                                                         *)
(* The endpoint is a sync def: it runs in a thread, beside the event loop  *)
(* and the workers.  It reads the batch row, then aggregates the document  *)
(* rows in one statement, then lists them in another, and every statement  *)
(* sees the rows committed by then.  An aggregate is kept here as the rows *)
(* it was taken over.                                                      *)
(*                                                                         *)
(* The client uploads its whole corpus, waits for every answer, polls      *)
(* until as many documents are terminal as the batch has, then fetches the *)
(* full summary and reports it.                                            *)
(***************************************************************************)
EXTENDS BulkIngest

CONSTANT Watched   \* the batch that is polled
ASSUME WatchedAssumption == Watched \in Batches

VARIABLES
  client,      \* what the client is doing
  get,         \* where the request for a summary is
  seenTotal,   \* batches.total, as read
  seenStatus,  \* the rows, as aggregated
  seenMetered, \* the rows whose metrics the aggregate added up
  reply        \* the last summary answered, until the next is asked for

answer == <<seenTotal, seenStatus, seenMetered>>
pvars  == <<client, get, answer, reply>>
allVars == <<vars, pvars>>

Mine   == {u \in Uploads : request[u].batch = Watched}
NoRows == [u \in Uploads |-> "absent"]
Rows(st)  == {u \in Mine : st[u] # "absent"}
Ready(st) == {u \in Mine : st[u] = "ready"}

\* Mutation: the client's TERMINAL_STATUSES leave duplicates out.
DoneWithoutDuplicates(st) == {u \in Mine : st[u] \in {"ready", "failed"}}
Done(st) == {u \in Mine : st[u] \in Terminal}

NoReply == [total |-> 0, status |-> NoRows, metered |-> {}, listed |-> NoRows]

ProgressInit ==
  /\ Init
  /\ client = "uploading"
  /\ get = "idle"
  /\ seenTotal = 0 /\ seenStatus = NoRows /\ seenMetered = {}
  /\ reply = NoReply

-----------------------------------------------------------------------------
(* The endpoint.  Anyone may ask, a dashboard or the client. *)

Ask ==
  /\ mode = "serving"
  /\ get = "idle"
  /\ client \notin {"reported", "failed"}
  /\ get' = "total"
  /\ reply' = NoReply
  /\ UNCHANGED <<vars, client, answer>>

ReadTotal ==
  /\ get = "total"
  /\ seenTotal' = total[Watched]
  /\ get' = "counts"
  /\ UNCHANGED <<vars, client, seenStatus, seenMetered, reply>>

ReadCounts ==
  /\ get = "counts"
  /\ seenStatus' = status
  /\ seenMetered' = metered
  /\ get' = "docs"
  /\ UNCHANGED <<vars, client, seenTotal, reply>>

\* The client leaves its polling loop when as many rows are terminal as the batch has,
\* or when it has waited too long; the next summary is the one it reports.
AfterPoll ==
  IF Cardinality(Done(seenStatus)) >= seenTotal THEN {"final"} ELSE {"polling", "late"}

ReadDocsAndAnswer ==
  /\ get = "docs"
  /\ reply' = [total |-> seenTotal, status |-> seenStatus, metered |-> seenMetered,
               listed |-> status]
  /\ \/ client = "uploading" /\ UNCHANGED client
     \/ client = "polling" /\ client' \in AfterPoll
     \/ client \in {"final", "late"} /\ client' = "reported"
  /\ get' = "idle"
  /\ seenTotal' = 0 /\ seenStatus' = NoRows /\ seenMetered' = {}
  /\ UNCHANGED vars

-----------------------------------------------------------------------------
(* The client. *)

\* Mutation: polling starts with the first answer instead of the last.
PollEarly ==
  /\ client = "uploading" /\ get = "idle"
  /\ \E u \in Mine : handler[u] = "done"
  /\ client' = "polling"
  /\ UNCHANGED <<vars, get, answer, reply>>

\* asyncio.gather() over the uploads returns.
StartPolling ==
  /\ client = "uploading" /\ get = "idle"
  /\ Mine # {} /\ \A u \in Mine : handler[u] = "done"
  /\ client' = "polling"
  /\ UNCHANGED <<vars, get, answer, reply>>

\* An upload that was not accepted, or a server that no longer answers, ends the script.
ClientRaises ==
  /\ client \notin {"reported", "failed"} /\ get = "idle"
  /\ \/ client = "uploading" /\ \E u \in Mine : handler[u] \in Answered \ {"done"}
     \/ client # "uploading" /\ mode # "serving"
  /\ client' = "failed"
  /\ UNCHANGED <<vars, get, answer, reply>>

-----------------------------------------------------------------------------
\* A drain lets the open request end; a kill takes it, and the client, with it.
ServiceStep ==
  /\ Next
  /\ BeginDrain => get = "idle"
  /\ IF Kill
       THEN /\ get' = "idle" /\ client' = "failed"
            /\ seenTotal' = 0 /\ seenStatus' = NoRows /\ seenMetered' = {}
            /\ UNCHANGED reply
       ELSE UNCHANGED pvars

Poll == ReadTotal \/ ReadCounts \/ ReadDocsAndAnswer \/ (client # "uploading" /\ Ask)

ProgressNext == ServiceStep \/ Ask \/ Poll \/ StartPolling \/ ClientRaises

\* The client keeps going: each request of its is answered or refused.  Its timeout never
\* has to strike.
ProgressFairness == Fairness /\ WF_allVars(Poll \/ ClientRaises)

ProgressSpec == ProgressInit /\ [][ProgressNext]_allVars /\ ProgressFairness

-----------------------------------------------------------------------------
\* The polling loop compares a count with a total read earlier, in another statement.
\* For a client that waited for its uploads the comparison is sound: when it leaves the
\* loop every document it uploaded has a row, and every row is terminal.
LeftLoopSettled ==
  client = "final" => \A u \in Mine : status[u] \in Terminal

\* The list of documents is read after the counts and may differ from them, in one
\* direction only: a document counted as terminal is listed with that status, and
\* none that was counted is missing.
ListIsNewer ==
  /\ Rows(reply.status) \subseteq Rows(reply.listed)
  /\ \A u \in Done(reply.status) : reply.listed[u] = reply.status[u]

\* A row turns ready before set_result() writes its metrics, so that the totals of a
\* summary may lack ready documents: never more than there are workers.
TotalsLagBounded ==
  Undisturbed => Cardinality(Ready(reply.status) \ reply.metered) <= Cardinality(Workers)

\* A poller gets its answer: without a raised call or a killed process, polling ends.
PollingEnds == client = "polling" ~> (client # "polling" \/ ~Undisturbed)

\* What the report is made for: "Final summary incl. per-doc list (failures + token
\* totals)" (scripts/e2e_bulk.py), after set_result(), the "Final write after ingest:
\* status + the metrics that feed batch totals" (app/repository.py).  A report on a
\* batch that is done adds up every ready document.
FinalTotalsComplete ==
  client = "reported" /\ Undisturbed /\ Cardinality(Done(reply.status)) >= reply.total =>
    Ready(reply.status) \subseteq reply.metered
=============================================================================
