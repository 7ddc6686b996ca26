----------------------------- MODULE MCMetadata -----------------------------
(***************************************************************************)
(* Two nodes and callers that reuse command ids: single and batch writes   *)
(* (one of them with an empty key), manifests of both schemas, the gate    *)
(* that switches to schema 2 and monotonic sequences, and the request for  *)
(* the legacy gate with every field absent.                                *)
(***************************************************************************)
EXTENDS MetadataFSM, TLC

CONSTANTS k1, v1, v2

Symmetry == Permutations(Nodes) \cup Permutations(CommandIDs \ {NoID})

MCWrites == {k1 :> v1, (k1 :> v2) @@ (EmptyKey :> v2)}

Draft(sequence, version) ==
  [cluster |-> ClusterID, sequence |-> sequence, schema |-> version,
   datasets |-> "wan" :> version]

\* Version 0 in a manifest is the legacy schema.
MCDrafts ==
  {Draft(1, 2), Draft(2, 2), Draft(1, 0), Draft(MaxSequence, 0)}

Gate2 == [protocol |-> 1, command |-> 0, manifest |-> 2,
          datasets |-> Wildcard :> 2, minLeader |-> 3, minVoter |-> 3]
Gate0 == [protocol |-> 0, command |-> 0, manifest |-> 0,
          datasets |-> <<>>, minLeader |-> 0, minVoter |-> 0]
MCGates == {Gate2, Gate0}
=============================================================================
