------------------------ MODULE MembershipSpecProofs ------------------------
(***************************************************************************)
(* The invariants of MembershipSpec for any founders and joining nodes.    *)
(*                                                                         *)
(* MembersFollowRaft is inductive on top of the types.  EnoughVoters needs *)
(* Room: the members, which are counted when a removal begins, stay more   *)
(* than BootstrapExpect until the removal is completed, and all of them    *)
(* but the one that is being removed are voters.                           *)
(***************************************************************************)
EXTENDS MembershipSpec, FiniteSetTheorems, TLAPS

Room ==
  /\ Cardinality(cluster.members) >= BootstrapExpect
  /\ Active(cluster) /\ cluster.op.type = "remove" =>
       Cardinality(cluster.members) > BootstrapExpect

IInv == ClusterTypeOK /\ MembersFollowRaft /\ Room

(* There are finitely many nodes, so every set of members has a size. *)
LEMMA NodesFinite ==
  /\ IsFiniteSet(Nodes)
  /\ \A S \in SUBSET Nodes : IsFiniteSet(S) /\ Cardinality(S) \in Nat
  /\ BootstrapExpect \in Nat
<1>1. IsFiniteSet(Nodes)
  BY NodesAssumption, FS_Union DEF Nodes
<1>2. ASSUME NEW S \in SUBSET Nodes
      PROVE  IsFiniteSet(S) /\ Cardinality(S) \in Nat
  BY <1>1, FS_Subset, FS_CardinalityType
<1>3. BootstrapExpect \in Nat
  BY NodesAssumption, FS_CardinalityType DEF BootstrapExpect
<1> QED
  BY <1>1, <1>2, <1>3

(* Between two operations the members are the voters, and every other node *)
(* is absent from Raft's configuration (node.go:1162, 1202).               *)
LEMMA InactiveAgrees ==
  ASSUME ClusterTypeOK, MembersFollowRaft, ~Active(cluster)
  PROVE  \A m \in Nodes : cluster.config[m] =
           IF m \in cluster.members THEN "voter" ELSE "absent"
<1> SUFFICES ASSUME NEW m \in Nodes
             PROVE  cluster.config[m] =
                      IF m \in cluster.members THEN "voter" ELSE "absent"
  OBVIOUS
<1>1. CASE m # cluster.op.node
  BY <1>1 DEF MembersFollowRaft
<1>2. CASE m = cluster.op.node
  <2>1. cluster.op.type \in {"join", "remove"}
    BY <1>2, NodesAssumption DEF ClusterTypeOK, Clusters, Operations, Nodes
  <2> QED
    BY <1>2, <2>1 DEF MembersFollowRaft, Active
<1> QED
  BY <1>1, <1>2

-----------------------------------------------------------------------------
(* Facts about one state that both kinds of operation rest on.             *)

(* The node of an active operation is a node, not "none". *)
LEMMA ActiveNode ==
  ASSUME ClusterTypeOK, Active(cluster)
  PROVE  /\ cluster.op.node \in Nodes
         /\ cluster.op.type \in {"join", "remove"}
  BY DEF ClusterTypeOK, Clusters, Operations, Active

(* The initial cluster has everything. *)
LEMMA InitInvariant ==
  ASSUME Init
  PROVE  IInv
<1>1. ClusterTypeOK
  BY NodesAssumption
  DEF Init, ClusterTypeOK, Clusters, Bootstrapped, NoOperation, Operations,
      Suffrages, Nodes
<1>2. MembersFollowRaft
  BY NodesAssumption DEF Init, MembersFollowRaft, Bootstrapped, NoOperation,
                         Nodes
<1>3. Room
  BY NodesFinite DEF Init, Room, Bootstrapped, NoOperation, Active,
                     BootstrapExpect
<1> QED
  BY <1>1, <1>2, <1>3 DEF IInv

(* A join or a removal begins: nothing but the operation changes. *)
LEMMA BegunPreserves ==
  ASSUME IInv, ~Active(cluster), cluster' \in Begun(cluster)
  PROVE  IInv'
<1> USE DEF IInv
<1>1. PICK type \in {"join", "remove"}, n \in Nodes :
        /\ cluster' = Begin(cluster, type, n)
        /\ type = "join" => n \notin cluster.members
        /\ type = "remove" =>
             n \in cluster.members
             /\ Cardinality(cluster.members) > BootstrapExpect
  BY DEF Begun, Nodes, ClusterTypeOK, Clusters
<1>2. /\ cluster'.config = cluster.config
      /\ cluster'.members = cluster.members
      /\ cluster'.op = [type |-> type, node |-> n, phase |-> "prepared"]
      /\ cluster' \in Clusters
  BY <1>1 DEF Begin, ClusterTypeOK, Clusters, Operations, Phases
<1>3. MembersFollowRaft'
  BY <1>1, <1>2, InactiveAgrees DEF MembersFollowRaft
<1>4. Room'
  BY <1>1, <1>2 DEF Room, Active, BootstrapExpect
<1> QED
  BY <1>2, <1>3, <1>4 DEF ClusterTypeOK

(* A step of a join. *)
LEMMA JoinPreserves ==
  ASSUME IInv, Active(cluster), cluster.op.type = "join",
         cluster' \in JoinSteps(cluster)
  PROVE  IInv'
<1> DEFINE n == cluster.op.node  s == cluster.config[n]  p == cluster.op.phase
<1> USE DEF IInv
<1>0. n \in Nodes /\ cluster \in Clusters
  BY ActiveNode DEF ClusterTypeOK
<1>1. CASE \E u \in Suffrages : /\ cluster' = WithSuffrage(cluster, n, u)
                               /\ \/ s = "absent" /\ u = "nonvoter"
                                  \/ s = "nonvoter" /\ p = "caughtup" /\ u = "voter"
  <2>1. PICK u \in Suffrages :
          /\ cluster' = WithSuffrage(cluster, n, u)
          /\ \/ s = "absent" /\ u = "nonvoter"
             \/ s = "nonvoter" /\ p = "caughtup" /\ u = "voter"
    BY <1>1
  <2>2. /\ cluster' \in Clusters
        /\ cluster'.op = cluster.op /\ cluster'.members = cluster.members
        /\ cluster'.config = [cluster.config EXCEPT ![n] = u]
    BY <1>0, <2>1 DEF WithSuffrage, Clusters
  <2>3. MembersFollowRaft'
    BY <1>0, <2>1, <2>2 DEF MembersFollowRaft, Clusters, Active
  <2>4. Room'
    BY <2>2 DEF Room, Active
  <2> QED
    BY <2>2, <2>3, <2>4 DEF ClusterTypeOK
<1>2. CASE \E q \in Phases : /\ cluster' = WithPhase(cluster, q)
                            /\ \/ s = "nonvoter" /\ q \in {"nonvoter", "caughtup"}
                               \/ s = "voter" /\ q = "voter"
  <2>1. PICK q \in Phases :
          /\ cluster' = WithPhase(cluster, q)
          /\ \/ s = "nonvoter" /\ q \in {"nonvoter", "caughtup"}
             \/ s = "voter" /\ q = "voter"
    BY <1>2
  <2>2. /\ cluster' \in Clusters
        /\ cluster'.op = [cluster.op EXCEPT !.phase = q]
        /\ cluster'.members = cluster.members
        /\ cluster'.config = cluster.config
    BY <1>0, <2>1 DEF WithPhase, Clusters, Operations, Active
  <2>3. MembersFollowRaft'
    BY <1>0, <2>1, <2>2 DEF MembersFollowRaft, Clusters, Active, Operations
  <2>4. Room'
    BY <2>2, <1>0 DEF Room, Active, Clusters, Operations
  <2> QED
    BY <2>2, <2>3, <2>4 DEF ClusterTypeOK
<1>3. CASE /\ s = "voter" /\ p = "voter"
           /\ cluster' = [WithPhase(cluster, "completed")
                            EXCEPT !.members = @ \cup {n}]
  <2>1. /\ cluster' \in Clusters
        /\ cluster'.op = [cluster.op EXCEPT !.phase = "completed"]
        /\ cluster'.members = cluster.members \cup {n}
        /\ cluster'.config = cluster.config
    BY <1>0, <1>3 DEF WithPhase, Clusters, Operations, Phases, Active
  <2>2. MembersFollowRaft'
    BY <1>0, <1>3, <2>1 DEF MembersFollowRaft, Clusters, Active, Operations
  <2>3. Cardinality(cluster.members \cup {n}) >= Cardinality(cluster.members)
    <3>1. cluster.members \cup {n} \in SUBSET Nodes
      BY <1>0 DEF Clusters
    <3> QED
      BY <3>1, NodesFinite, FS_Subset
  <2>4. Room'
    BY <2>1, <2>3, <1>0, NodesFinite DEF Room, Active, Clusters, Operations
  <2> QED
    BY <2>1, <2>2, <2>4 DEF ClusterTypeOK
<1> QED
  BY <1>0, <1>1, <1>2, <1>3 DEF JoinSteps, Phases, Suffrages

(* A step of a removal. *)
LEMMA RemovePreserves ==
  ASSUME IInv, Active(cluster), cluster.op.type = "remove",
         cluster' \in RemoveSteps(cluster)
  PROVE  IInv'
<1> DEFINE n == cluster.op.node  s == cluster.config[n]  p == cluster.op.phase
<1> USE DEF IInv
<1>0. n \in Nodes /\ cluster \in Clusters
  BY ActiveNode DEF ClusterTypeOK
<1>1. CASE cluster' = WithSuffrage(cluster, n, "absent")
  <2>1. /\ cluster' \in Clusters
        /\ cluster'.op = cluster.op /\ cluster'.members = cluster.members
        /\ cluster'.config = [cluster.config EXCEPT ![n] = "absent"]
    BY <1>0, <1>1 DEF WithSuffrage, Clusters, Suffrages
  <2>2. MembersFollowRaft'
    BY <1>0, <2>1 DEF MembersFollowRaft, Clusters, Active
  <2>3. Room'
    BY <2>1 DEF Room, Active
  <2> QED
    BY <2>1, <2>2, <2>3 DEF ClusterTypeOK
<1>2. CASE s = "absent" /\ cluster' = WithPhase(cluster, "removed")
  <2>1. /\ cluster' \in Clusters
        /\ cluster'.op = [cluster.op EXCEPT !.phase = "removed"]
        /\ cluster'.members = cluster.members
        /\ cluster'.config = cluster.config
    BY <1>0, <1>2 DEF WithPhase, Clusters, Operations, Phases, Active
  <2>2. MembersFollowRaft'
    BY <1>0, <1>2, <2>1 DEF MembersFollowRaft, Clusters, Active, Operations
  <2>3. Room'
    BY <2>1, <1>0 DEF Room, Active, Clusters, Operations
  <2> QED
    BY <2>1, <2>2, <2>3 DEF ClusterTypeOK
<1>3. CASE /\ s = "absent"
           /\ cluster' = [WithPhase(cluster, "completed")
                            EXCEPT !.members = @ \ {n}]
  <2>1. /\ cluster' \in Clusters
        /\ cluster'.op = [cluster.op EXCEPT !.phase = "completed"]
        /\ cluster'.members = cluster.members \ {n}
        /\ cluster'.config = cluster.config
    BY <1>0, <1>3 DEF WithPhase, Clusters, Operations, Phases, Active
  <2>2. MembersFollowRaft'
    BY <1>0, <1>3, <2>1 DEF MembersFollowRaft, Clusters, Active, Operations
  <2>3. /\ IsFiniteSet(cluster.members) /\ n \in cluster.members
        /\ Cardinality(cluster.members) > BootstrapExpect
    BY <1>0, NodesFinite DEF Clusters, MembersFollowRaft, Active, Room
  <2>4. Cardinality(cluster.members \ {n}) >= BootstrapExpect
    BY <2>3, FS_RemoveElement, FS_CardinalityType, NodesFinite
  <2>5. Room'
    BY <2>1, <2>4, <1>0 DEF Room, Active, Clusters, Operations
  <2> QED
    BY <2>1, <2>2, <2>5 DEF ClusterTypeOK
<1> QED
  BY <1>0, <1>1, <1>2, <1>3 DEF RemoveSteps

-----------------------------------------------------------------------------
(* Every step keeps the invariant. *)
LEMMA InductiveStep == IInv /\ [Next]_cluster => IInv'
<1> SUFFICES ASSUME IInv, [Next]_cluster
             PROVE  IInv'
  OBVIOUS
<1>1. CASE Next /\ ~Active(cluster)
  BY <1>1, BegunPreserves DEF Next, Steps
<1>2. CASE Next /\ Active(cluster)
  BY <1>2, ActiveNode, JoinPreserves, RemovePreserves DEF Next, Steps, IInv
<1>3. CASE UNCHANGED cluster
  BY <1>3 DEF IInv, ClusterTypeOK, MembersFollowRaft, Room
<1> QED
  BY <1>1, <1>2, <1>3

(* The invariant is inductive. *)
LEMMA Inductive == Spec => []IInv
<1>1. Init => IInv
  BY InitInvariant
<1> QED
  BY <1>1, InductiveStep, PTL DEF Spec

(* Every member but the one that is being removed votes, and the count was *)
(* taken with that one included.                                           *)
LEMMA RoomForVoters ==
  ASSUME IInv
  PROVE  EnoughVoters
<1> DEFINE n == cluster.op.node
           K == IF Active(cluster) /\ cluster.op.type = "remove"
                THEN cluster.members \ {n} ELSE cluster.members
<1> USE DEF IInv
<1>1. /\ cluster.members \in SUBSET Nodes /\ K \in SUBSET Nodes
      /\ Voters(cluster) \in SUBSET Nodes
  BY DEF ClusterTypeOK, Clusters, Voters
<1>2. K \subseteq Voters(cluster)
  <2> SUFFICES ASSUME NEW m \in K PROVE m \in Voters(cluster)
    OBVIOUS
  <2>1. CASE ~Active(cluster)
    BY <1>1, <2>1, InactiveAgrees DEF Voters
  <2>2. CASE Active(cluster)
    <3>1. m # n
      BY <2>2, ActiveNode DEF MembersFollowRaft, Active
    <3> QED
      BY <1>1, <2>2, <3>1 DEF MembersFollowRaft, Voters
  <2> QED
    BY <2>1, <2>2
<1>3. Cardinality(K) >= BootstrapExpect
  <2>1. CASE Active(cluster) /\ cluster.op.type = "remove"
    <3>1. /\ IsFiniteSet(cluster.members) /\ n \in cluster.members
          /\ Cardinality(cluster.members) > BootstrapExpect
      BY <1>1, <2>1, NodesFinite DEF MembersFollowRaft, Active, Room
    <3> QED
      BY <2>1, <3>1, FS_RemoveElement, FS_CardinalityType, NodesFinite
  <2>2. CASE ~(Active(cluster) /\ cluster.op.type = "remove")
    BY <2>2 DEF Room
  <2> QED
    BY <2>1, <2>2
<1>4. Cardinality(K) <= Cardinality(Voters(cluster))
  BY <1>1, <1>2, NodesFinite, FS_Subset
<1>5. /\ Cardinality(K) \in Nat /\ Cardinality(Voters(cluster)) \in Nat
      /\ BootstrapExpect \in Nat
  BY <1>1, NodesFinite
<1> QED
  BY <1>3, <1>4, <1>5 DEF EnoughVoters

(* Every state of the log is well formed (node.go:90-109). *)
THEOREM ClusterTypeCorrect == Spec => []ClusterTypeOK
  BY Inductive, PTL DEF IInv

(* The recorded phase never runs ahead of Raft's configuration, and the    *)
(* committed members are the voters but for the node of the operation, for *)
(* any founders and joining nodes (node.go:1338-1415).                     *)
THEOREM MembersAlwaysFollowRaft == Spec => []MembersFollowRaft
  BY Inductive, PTL DEF IInv

(* No removal, whoever carries it out, leaves fewer than bootstrap_expect  *)
(* voters (node.go:1168).                                                  *)
THEOREM VotersAreAlwaysEnough == Spec => []EnoughVoters
<1>1. IInv => EnoughVoters
  BY RoomForVoters
<1> QED
  BY <1>1, Inductive, PTL
=============================================================================
