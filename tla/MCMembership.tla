---------------------------- MODULE MCMembership ----------------------------
(***************************************************************************)
(* Three founders and one joining node that does not support the next      *)
(* capability gate.                                                        *)
(***************************************************************************)
EXTENDS Membership, TLC

FoundersSymmetry == Permutations(Founders)
=============================================================================
