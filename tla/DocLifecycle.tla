----------------------------- MODULE DocLifecycle -----------------------------
(***************************************************************************)
(* What the ingest service promises of one documents row, whatever runs    *)
(* it: the statuses of migrations/001_init.sql in their order, "ready"     *)
(* only over a complete document, "duplicate" only beside another row of   *)
(* the same bytes, and every accepted document settled in the end unless   *)
(* it is stranded by a failure.  No queue, no worker and no handler here.  *)
(***************************************************************************)
CONSTANTS Docs, Files

VARIABLES
  content,   \* the bytes each row stands for
  phase,     \* documents.status, "absent" before the row exists
  complete,  \* rows with all that a query needs stored
  stranded   \* rows that nobody will work on again

vars == <<content, phase, complete, stranded>>

Unsettled == {"queued", "processing"}
Live(d)   == phase[d] \in Unsettled /\ d \notin stranded

Init ==
  /\ content \in [Docs -> Files]
  /\ phase = [d \in Docs |-> "absent"]
  /\ complete = {}
  /\ stranded = {}

Move(d, from, to) ==
  /\ phase[d] = from
  /\ phase' = [phase EXCEPT ![d] = to]

Accept(d) ==
  /\ Move(d, "absent", "queued") \/ Move(d, "absent", "processing")
  /\ UNCHANGED <<content, complete, stranded>>

AcceptDuplicate(d) ==
  /\ \E e \in Docs : content[e] = content[d] /\ phase[e] \notin {"absent", "duplicate"}
  /\ Move(d, "absent", "duplicate")
  /\ UNCHANGED <<content, complete, stranded>>

Begin(d) ==
  /\ Live(d)
  /\ Move(d, "queued", "processing")
  /\ UNCHANGED <<content, complete, stranded>>

Complete(d) ==
  /\ Live(d)
  /\ phase[d] = "processing" /\ d \notin complete
  /\ complete' = complete \cup {d}
  /\ UNCHANGED <<content, phase, stranded>>

Succeed(d) ==
  /\ Live(d)
  /\ d \in complete
  /\ Move(d, "processing", "ready")
  /\ UNCHANGED <<content, complete, stranded>>

Fail(d) ==
  /\ Live(d)
  /\ Move(d, "processing", "failed")
  /\ UNCHANGED <<content, complete, stranded>>

Strand(S) ==
  /\ S # {} /\ \A d \in S : Live(d)
  /\ stranded' = stranded \cup S
  /\ UNCHANGED <<content, phase, complete>>

WorkOn(d) == Begin(d) \/ Complete(d) \/ Succeed(d) \/ Fail(d)

Next ==
  \/ \E d \in Docs : Accept(d) \/ AcceptDuplicate(d) \/ WorkOn(d)
  \/ \E S \in SUBSET Docs : Strand(S)

Spec     == Init /\ [][Next]_vars
FairSpec == Spec /\ \A d \in Docs : WF_vars(WorkOn(d))
=============================================================================
