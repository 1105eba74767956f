----------------------------- MODULE MCBulkIngest -----------------------------
(* Small instances of BulkIngest for TLC. *)
EXTENDS BulkIngest, TLC

\* Which upload is which does not matter to any invariant or step property.
UploadSymmetry == Permutations(Uploads)
=============================================================================
