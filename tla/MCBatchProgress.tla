--------------------------- MODULE MCBatchProgress ---------------------------
(* A small instance of BatchProgress for TLC: every upload goes to the batch *)
(* that is polled. *)
EXTENDS BatchProgress

MCInit == ProgressInit /\ \A u \in Uploads : request[u].batch = Watched

MCSpec == MCInit /\ [][ProgressNext]_allVars /\ ProgressFairness
=============================================================================
