------------------------------- MODULE MCRead -------------------------------
(***************************************************************************)
(* Three nodes, one of which is queried; the other two are alike.          *)
(***************************************************************************)
EXTENDS LocalRead, TLC

AskedSymmetry == Permutations(Nodes \ Readers)
=============================================================================
