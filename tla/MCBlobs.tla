------------------------------ MODULE MCBlobs -------------------------------
(***************************************************************************)
(* Two calls of Put and two readers, which are alike.                      *)
(***************************************************************************)
EXTENDS BlobStore, TLC

CallSymmetry == Permutations(Writers) \cup Permutations(Readers)
=============================================================================
