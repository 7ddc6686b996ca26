----------------------------- MODULE MCPublish -----------------------------
(***************************************************************************)
(* A snapshot generation of one blob.                                      *)
(***************************************************************************)
EXTENDS SnapshotPublish

CONSTANT b1

OneBlob == {[blobs |-> {b1}, previous |-> {}]}
=============================================================================
