--------------------------- MODULE MembershipSpec ---------------------------
(***************************************************************************)
(* What a membership change promises: the order in which the replicated    *)
(* log may change Raft's configuration, the recorded operation and the     *)
(* committed members, whoever leads and whatever fails between two         *)
(* entries.  Membership, with its leaders, time-outs and crashes, is       *)
(* checked to implement it.                                                *)
(***************************************************************************)
EXTENDS MembershipSteps

VARIABLE cluster

Init == cluster = Bootstrapped

Next == cluster' \in Steps(cluster)

Spec == Init /\ [][Next]_cluster

-----------------------------------------------------------------------------
(* Every cluster value is well formed. *)
ClusterTypeOK == cluster \in Clusters

(* The recorded phase never runs ahead of Raft's configuration, and where  *)
(* no operation accounts for a difference the committed members are the    *)
(* voters: a leader that dies between a configuration change and the       *)
(* metadata command that records it leaves nothing that its successor      *)
(* would misread (node.go:1338-1415).                                      *)
MembersFollowRaft ==
  LET c == cluster  n == c.op.node
  IN  /\ \A m \in Nodes \ {n} : c.config[m] = IF m \in c.members THEN "voter"
                                              ELSE "absent"
      /\ c.op.type = "join" =>
           /\ c.op.phase \in {"nonvoter", "caughtup"} => c.config[n] # "absent"
           /\ c.op.phase \in {"voter", "completed"} => c.config[n] = "voter"
           /\ c.config[n] = "voter" =>
                c.op.phase \in {"caughtup", "voter", "completed"}
           /\ (c.op.phase = "completed") = (n \in c.members)
      /\ c.op.type = "remove" =>
           /\ c.op.phase # "prepared" => c.config[n] = "absent"
           /\ (c.op.phase = "completed") = (n \notin c.members)

(* A removal leaves at least BootstrapExpect voters (node.go:1168), also   *)
(* when the leader that checked this is not the one that carries it out.   *)
EnoughVoters == Cardinality(Voters(cluster)) >= BootstrapExpect
=============================================================================
