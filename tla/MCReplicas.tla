----------------------------- MODULE MCReplicas -----------------------------
(***************************************************************************)
(* Replicas under a gate switch: two nodes, the current binary and the one *)
(* before it (testV1Capabilities of node_integration_test.go), a write, a  *)
(* manifest of the old schema and the gate that switches schemas.          *)
(***************************************************************************)
EXTENDS ReplicatedFSM, TLC

CONSTANTS k1, v1

MCWrites == {k1 :> v1}
MCDrafts ==
  {[cluster |-> ClusterID, sequence |-> 1, schema |-> 1,
    datasets |-> "wan" :> 1]}

Gate2 == [protocol |-> 1, command |-> 0, manifest |-> 2,
          datasets |-> Wildcard :> 2, minLeader |-> 3, minVoter |-> 3]
MCGates == {Gate2}

V1Capabilities ==
  [level |-> 1, protocol |-> VersionRange(1, 1), command |-> VersionRange(1, 1),
   manifest |-> VersionRange(1, 1), dataset |-> VersionRange(1, 1)]
MCBinaries == {V1Capabilities, SupportedNodeCapabilities}
=============================================================================
