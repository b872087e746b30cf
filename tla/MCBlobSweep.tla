----------------------------- MODULE MCBlobSweep -----------------------------
(* Small instances of BlobSweep. *)
EXTENDS BlobSweep
=============================================================================
