-------------------------- MODULE MembershipSteps --------------------------
(***************************************************************************)
(* The states the replicated log goes through while membership changes and *)
(* the steps between them: Raft's configuration, the recorded operation    *)
(* and the committed members are one record.  MembershipSpec is the state  *)
(* machine that takes these steps; PeerNetwork keeps the log of them.      *)
(***************************************************************************)
EXTENDS Naturals, FiniteSets

CONSTANTS
  Founders,  \* the nodes of initial_members, as many as bootstrap_expect
  Joiners    \* nodes started with join_existing

ASSUME NodesAssumption ==
  /\ IsFiniteSet(Founders) /\ Founders # {}
  /\ IsFiniteSet(Joiners) /\ Founders \cap Joiners = {}
  /\ "none" \notin Founders \cup Joiners

Nodes == Founders \cup Joiners

BootstrapExpect == Cardinality(Founders)

-----------------------------------------------------------------------------
Suffrages == {"absent", "nonvoter", "voter"}

Phases == {"prepared", "nonvoter", "caughtup", "voter", "removed", "completed"}

(* No operation yet reads as one that is completed. *)
Operations == [type : {"join", "remove"}, node : Nodes, phase : Phases]
              \cup [type : {"none"}, node : {"none"}, phase : {"completed"}]

NoOperation == [type |-> "none", node |-> "none", phase |-> "completed"]

Clusters == [config : [Nodes -> Suffrages], op : Operations,
             members : SUBSET Nodes]

Active(c) == c.op.phase # "completed"

Voters(c) == {n \in Nodes : c.config[n] = "voter"}

(* BootstrapCluster makes the founders voters. *)
Bootstrapped ==
  [config |-> [n \in Nodes |-> IF n \in Founders THEN "voter" ELSE "absent"],
   op |-> NoOperation, members |-> Founders]

\* Mutant of PeersOf: a removal revokes the member before Raft has removed it.
PeersWithout(c) ==
  IF Active(c) /\ c.op.type = "remove" THEN c.members \ {c.op.node}
  ELSE IF Active(c) THEN c.members \cup {c.op.node} ELSE c.members

(* refreshPeerRegistry, but for pendingMembers: the committed members and  *)
(* the member of the active operation unless Raft has removed it.          *)
PeersOf(c) ==
  IF ~Active(c) THEN c.members
  ELSE IF c.op.type = "remove" /\ c.op.phase = "removed"
  THEN c.members \ {c.op.node} ELSE c.members \cup {c.op.node}

-----------------------------------------------------------------------------
WithSuffrage(c, n, s) == [c EXCEPT !.config[n] = s]

WithPhase(c, p) == [c EXCEPT !.op.phase = p]

Begin(c, type, n) ==
  [c EXCEPT !.op = [type |-> type, node |-> n, phase |-> "prepared"]]

\* Mutant of Begun: the members are not counted.
BegunForAny(c) ==
  {Begin(c, "join", n) : n \in Joiners \ c.members}
    \cup {Begin(c, "remove", n) : n \in c.members}

\* Mutant of Begun: a join that names no node is let through.
BegunForNobody(c) ==
  {Begin(c, "join", n) : n \in (Joiners \cup {"none"}) \ c.members}

(* A join may begin for a node that is no member, a removal as long as     *)
(* BootstrapExpect members are left.                                       *)
Begun(c) ==
  {Begin(c, "join", n) : n \in Joiners \ c.members}
    \cup {Begin(c, "remove", n) :
            n \in {m \in c.members : Cardinality(c.members) > BootstrapExpect}}

(* reconcileJoinOperation *)
JoinSteps(c) ==
  LET n == c.op.node  s == c.config[n]  p == c.op.phase
  IN  (IF s = "absent" THEN {WithSuffrage(c, n, "nonvoter")} ELSE {})
      \cup (IF s = "nonvoter" /\ p = "prepared"
            THEN {WithPhase(c, "nonvoter")} ELSE {})
      \cup (IF s = "nonvoter" /\ p \in {"prepared", "nonvoter"}
            THEN {WithPhase(c, "caughtup")} ELSE {})
      \cup (IF s = "nonvoter" /\ p = "caughtup"
            THEN {WithSuffrage(c, n, "voter")} ELSE {})
      \cup (IF s = "voter" /\ p # "voter" THEN {WithPhase(c, "voter")} ELSE {})
      \cup (IF s = "voter" /\ p = "voter"
            THEN {[WithPhase(c, "completed") EXCEPT !.members = @ \cup {n}]}
            ELSE {})

\* Mutant of RemoveSteps: the removal is recorded before Raft knows of it.
RemoveRecordedFirst(c) ==
  LET n == c.op.node  p == c.op.phase
  IN  IF p = "prepared" THEN {WithPhase(c, "removed")}
      ELSE IF c.config[n] # "absent" THEN {WithSuffrage(c, n, "absent")}
      ELSE {[WithPhase(c, "completed") EXCEPT !.members = @ \ {n}]}

(* reconcileRemoveOperation *)
RemoveSteps(c) ==
  LET n == c.op.node  s == c.config[n]  p == c.op.phase
  IN  (IF s # "absent" THEN {WithSuffrage(c, n, "absent")} ELSE {})
      \cup (IF s = "absent" /\ p # "removed" THEN {WithPhase(c, "removed")}
            ELSE {})
      \cup (IF s = "absent" /\ p = "removed"
            THEN {[WithPhase(c, "completed") EXCEPT !.members = @ \ {n}]}
            ELSE {})

Steps(c) ==
  IF ~Active(c) THEN Begun(c)
  ELSE IF c.op.type = "join" THEN JoinSteps(c) ELSE RemoveSteps(c)
=============================================================================
