----------------------------- MODULE Membership -----------------------------
(***************************************************************************)
(* How the leaders carry a join or a removal out: JoinVoter, RemoveServer, *)
(* ActivateCapabilities and the maintenance loop that resumes a recorded   *)
(* operation, each under its node's membershipMu, which another node's     *)
(* lock does not exclude.                                                  *)
(*                                                                         *)
(* A step of a node goes from one blocking call to the next: a Raft        *)
(* configuration change, a metadata command, a request to the joining      *)
(* node.  A node that is deposed finds out at its next step; with          *)
(* MaxPauses it may lead again before that step.  A metadata command reads *)
(* the revision it expects and is applied in one step: a command for which *)
(* the metadata changed in between is refused by the state machine, which  *)
(* is one of the failures below.                                           *)
(***************************************************************************)
EXTENDS Naturals, FiniteSets

CONSTANTS
  Founders, Joiners,
  Modern,       \* the nodes that support the next capability gate
  NoNode,
  MaxOps,       \* bound: operations begun
  MaxFaults,    \* bound: leaders deposed by an election, calls that fail or
                \*   report failure for other reasons, and crashes
  MaxPauses     \* bound: nodes re-elected in the middle of a call

Nodes == Founders \cup Joiners

ASSUME MembershipAssumption ==
  /\ IsFiniteSet(Founders) /\ Founders # {}
  /\ IsFiniteSet(Joiners) /\ Founders \cap Joiners = {}
  /\ {NoNode, "none"} \cap Nodes = {}
  /\ Modern \subseteq Nodes
  /\ {MaxOps, MaxFaults, MaxPauses} \subseteq Nat

VARIABLES
  config,    \* Raft's configuration
  op,        \* the recorded operation, with the number in its identity
  members,   \* the value of cluster/members
  gate,      \* the active capability gate: 1 or 2
  used,      \* the command identities of phases already applied
  leader,    \* the node that holds business leadership
  proc,      \* proc[n]: the call that holds n's membershipMu
  change,    \* change[n]: the configuration change that holds configurationMu
  pending,   \* n.pendingMembers
  fresh,     \* the joiners whose state machine has the leader's revision
  synced,    \* and those that have applied the recorded operation
  unjoined,  \* the joiners that have not seen themselves in a configuration
  budget     \* what is left of the bounds

replicated == <<config, op, members, gate, used>>
vars == <<config, op, members, gate, used, leader, proc, change, pending,
          fresh, synced, unjoined, budget>>

Op(id, type, n, p) == [id |-> id, type |-> type, node |-> n, phase |-> p]

NoOp == Op(0, "none", "none", "completed")

Idle == [pc |-> "idle", op |-> NoOp, gate |-> 1]

NoChange == [node |-> NoNode, to |-> "absent"]

Active == op.phase # "completed"

Voters == {n \in Nodes : config[n] = "voter"}

Supports(n, g) == g = 1 \/ n \in Modern

(* The replicated state as MembershipSpec sees it. *)
Abstract == INSTANCE MembershipSpec WITH
  cluster <- [config |-> config, members |-> members,
              op |-> [type |-> op.type, node |-> op.node, phase |-> op.phase]]

(* refreshPeerRegistry, with pendingMembers. *)
Peers(n) ==
  Abstract!PeersOf([config |-> config, members |-> members, op |-> op])
    \cup (pending[n] \ (IF Active /\ op.phase = "removed" THEN {op.node} ELSE {}))

Spend(bound) == budget[bound] > 0 /\ budget' = [budget EXCEPT ![bound] = @ - 1]

Init ==
  /\ config = [n \in Nodes |-> IF n \in Founders THEN "voter" ELSE "absent"]
  /\ op = NoOp /\ members = Founders /\ gate = 1 /\ used = {}
  /\ leader = NoNode
  /\ proc = [n \in Nodes |-> Idle]
  /\ change = [n \in Nodes |-> NoChange]
  /\ pending = [n \in Nodes |-> {}]
  /\ fresh = {} /\ synced = {} /\ unjoined = Joiners
  /\ budget = [ops |-> MaxOps, faults |-> MaxFaults, pauses |-> MaxPauses]

-----------------------------------------------------------------------------
(* A call goes on or returns.  A reconciliation that returns drops its     *)
(* member from pendingMembers once it reads the operation as completed or  *)
(* as a removal that is done in Raft; a node that no longer leads may read *)
(* an older operation.                                                     *)
Goto(n, pc) == proc' = [proc EXCEPT ![n].pc = pc]

Settled(o) == o.phase \in {"completed", "removed"}

Return(n) ==
  /\ proc' = [proc EXCEPT ![n] = Idle]
  /\ \E lags \in IF leader = n THEN {FALSE} ELSE BOOLEAN :
       pending' = IF Settled(op') /\ ~lags
                  THEN [pending EXCEPT ![n] = @ \ {proc[n].op.node}]
                  ELSE pending

(* The state machine applies a command unless its identity was used. *)
Apply(o, ms) ==
  /\ <<o.id, o.phase>> \notin used
  /\ op' = o /\ members' = ms
  /\ used' = used \cup {<<o.id, o.phase>>}
  /\ fresh' = {} /\ synced' = {}
  /\ UNCHANGED <<config, gate>>

(* What PutMetadata and PutMetadataBatch do for the caller: the command is *)
(* applied and the call goes on, it is applied although the caller is told *)
(* that it failed, or it is not applied.                                   *)
PutSucceeds(n, o, ms) == leader = n /\ Apply(o, ms) /\ UNCHANGED budget

PutFails(n, o, ms) ==
  \/ /\ leader = n /\ Apply(o, ms)
     /\ Spend("faults")
  \/ /\ leader = n /\ <<o.id, o.phase>> \notin used
     /\ Spend("faults") /\ UNCHANGED <<replicated, fresh, synced>>
  \/ /\ leader # n \/ <<o.id, o.phase>> \in used
     /\ UNCHANGED <<replicated, fresh, synced, budget>>

-----------------------------------------------------------------------------
(* JoinVoter of a node that is no member, while no operation is active: it *)
(* is asked to prepare.  For the active operation the call reconciles, as  *)
(* the maintenance loop does; any other call changes nothing.              *)
JoinVoter(n, j) ==
  /\ leader = n /\ proc[n].pc = "idle"
  /\ ~Active /\ j \in Joiners \ members /\ j # n
  /\ Spend("ops")
  /\ pending' = [pending EXCEPT ![n] = @ \cup {j}]
  /\ proc' = [proc EXCEPT ![n] = [@ EXCEPT !.pc = "prepare",
                !.op = Op(MaxOps - budget'.ops, "join", j, "prepared")]]
  /\ UNCHANGED <<replicated, leader, change, fresh, synced, unjoined>>

(* The joining node answers /internal/v1/join/prepare if it is unjoined,   *)
(* and its capabilities must satisfy the gate.                             *)
PrepareJoin(n) ==
  /\ proc[n].pc = "prepare"
  /\ \/ /\ proc[n].op.node \in unjoined /\ Supports(proc[n].op.node, gate)
        /\ Goto(n, "begin") /\ UNCHANGED <<pending, budget>>
     \/ /\ proc[n].op.node \notin unjoined \/ ~Supports(proc[n].op.node, gate)
        /\ proc' = [proc EXCEPT ![n] = Idle]
        /\ pending' = [pending EXCEPT ![n] = @ \ {proc[n].op.node}]
        /\ UNCHANGED budget
     \/ /\ Spend("faults")
        /\ proc' = [proc EXCEPT ![n] = Idle]
        /\ pending' = [pending EXCEPT ![n] = @ \ {proc[n].op.node}]
  /\ UNCHANGED <<replicated, leader, change, fresh, synced, unjoined>>

\* Mutant of RemoveServer: the members are not counted.
RemoveAnyServer(n, m) ==
  /\ leader = n /\ proc[n].pc = "idle"
  /\ ~Active /\ m \in members /\ m # n
  /\ Spend("ops")
  /\ proc' = [proc EXCEPT ![n] = [@ EXCEPT !.pc = "begin",
                !.op = Op(MaxOps - budget'.ops, "remove", m, "prepared")]]
  /\ UNCHANGED <<replicated, leader, change, pending, fresh, synced, unjoined>>

(* RemoveServer of another member, as long as enough are left. *)
RemoveServer(n, m) ==
  /\ leader = n /\ proc[n].pc = "idle"
  /\ ~Active /\ m \in members /\ m # n
  /\ Cardinality(members) > Cardinality(Founders)
  /\ Spend("ops")
  /\ proc' = [proc EXCEPT ![n] = [@ EXCEPT !.pc = "begin",
                !.op = Op(MaxOps - budget'.ops, "remove", m, "prepared")]]
  /\ UNCHANGED <<replicated, leader, change, pending, fresh, synced, unjoined>>

(* beginMembershipOperation records the operation unless another is active;*)
(* that the same one is active already is no failure.  A node that no      *)
(* longer leads may read an older operation, but its command fails.        *)
BeginOperation(n) ==
  LET o    == proc[n].op
      same == op.type = o.type /\ op.node = o.node
  IN  /\ proc[n].pc = "begin"
      /\ \/ /\ ~Active /\ PutSucceeds(n, o, members)
            /\ UNCHANGED pending
         \/ /\ Active /\ same
            /\ UNCHANGED <<replicated, fresh, synced, budget, pending>>
         \/ /\ \/ ~Active /\ PutFails(n, o, members)
               \/ /\ Active /\ (leader # n \/ ~same)
                  /\ UNCHANGED <<replicated, fresh, synced, budget>>
            /\ pending' = IF o.type = "join"
                          THEN [pending EXCEPT ![n] = @ \ {o.node}] ELSE pending
      /\ proc' = [proc EXCEPT ![n] = Idle]
      /\ UNCHANGED <<leader, change, unjoined>>

-----------------------------------------------------------------------------
(* A join or a removal goes on where Raft's configuration stands; a phase  *)
(* that is recorded is not recorded again.                                 *)
NextPcOf(s, phase) ==
  CASE op.type = "join" /\ s = "absent" -> "addNonvoter"
    [] op.type = "join" /\ s = "nonvoter" -> "catchup"
    [] op.type = "join" /\ s = "voter" ->
         IF phase = "voter" THEN "complete" ELSE "voter"
    [] op.type = "remove" /\ s # "absent" -> "removeServer"
    [] op.type = "remove" /\ s = "absent" ->
         IF phase = "removed" THEN "complete" ELSE "removed"

\* Mutant of NextPc: a recorded phase is recorded again.
NextPcAgain == NextPcOf(config[op.node], "prepared")

(* reconcileMembershipOperation reads the operation and the configuration  *)
(* and takes the next step from both.  The call that began the operation   *)
(* goes on here too.                                                       *)
NextPc == NextPcOf(config[op.node], op.phase)

Reconcile(n) ==
  /\ leader = n /\ proc[n].pc = "idle" /\ Active
  /\ pending' = [pending EXCEPT ![n] = @ \cup {op.node}]
  /\ IF op.type = "join" /\ ~Supports(op.node, gate)
     THEN pending' # pending /\ UNCHANGED proc
     ELSE proc' = [proc EXCEPT ![n] = [pc |-> NextPc, op |-> op, gate |-> gate]]
  /\ UNCHANGED <<replicated, leader, change, fresh, synced, unjoined, budget>>

\* Mutant of Recording: the joining node is not asked again.
RecordingOnce == [nonvoter |-> "catchup", caughtup |-> "addVoter",
                  voter |-> "complete", removed |-> "complete"]

(* updateMembershipOperation: the phase each state of a call records, and  *)
(* what the call does next.                                                *)
Recording == [nonvoter |-> "catchup", caughtup |-> "recheck",
              voter |-> "complete", removed |-> "complete"]

RecordPhase(n) ==
  LET o == [proc[n].op EXCEPT !.phase = proc[n].pc]
  IN  /\ proc[n].pc \in DOMAIN Recording
      /\ \/ /\ PutSucceeds(n, o, members)
            /\ proc' = [proc EXCEPT ![n].op = o, ![n].pc = Recording[@]]
            /\ pending' = IF o.phase = "removed"
                          THEN [pending EXCEPT ![n] = @ \ {o.node}] ELSE pending
         \/ PutFails(n, o, members) /\ Return(n)
      /\ UNCHANGED <<leader, change, unjoined>>

\* Mutant of NewMembers: a removal leaves the member in the map.
AllMembers(o) == members \cup {o.node}

(* The last command writes the members and the completed operation. *)
NewMembers(o) ==
  IF o.type = "join" THEN members \cup {o.node} ELSE members \ {o.node}

CompleteOperation(n) ==
  LET o == [proc[n].op EXCEPT !.phase = "completed"]
  IN  /\ proc[n].pc = "complete"
      /\ \/ PutSucceeds(n, o, NewMembers(o))
         \/ PutFails(n, o, NewMembers(o))
      /\ Return(n)
      /\ UNCHANGED <<leader, change, unjoined>>

(* waitForJoiningNodeCatchUp: the joining node has the leader's revision   *)
(* and gate.  It is asked twice, before and after the phase is recorded.   *)
CatchUp(n) ==
  LET p == proc[n]
  IN  /\ p.pc \in {"catchup", "recheck"}
      /\ p.op.node \in fresh /\ gate = p.gate
      /\ Goto(n, CASE p.pc = "recheck" -> "addVoter"
                   [] p.pc = "catchup" /\ p.op.phase = "caughtup" -> "recheck"
                   [] OTHER -> "caughtup")
      /\ UNCHANGED <<replicated, leader, change, pending, fresh, synced,
                     unjoined, budget>>

(* The wait ends without it: the node is deposed, the gate has changed, or *)
(* the caller's time is up.                                                *)
CatchUpFails(n) ==
  /\ proc[n].pc \in {"catchup", "recheck"}
  /\ \/ (leader # n \/ gate # proc[n].gate) /\ UNCHANGED budget
     \/ leader = n /\ Spend("faults")
  /\ UNCHANGED <<replicated, leader, change, fresh, synced, unjoined>>
  /\ Return(n)

-----------------------------------------------------------------------------
(* runConfigurationChange: the change is handed to Raft once the one       *)
(* before has ended.                                                       *)
Changes == [addNonvoter |-> "nonvoter", addVoter |-> "voter",
            removeServer |-> "absent"]

ChangeConfiguration(n) ==
  /\ proc[n].pc \in DOMAIN Changes
  /\ change[n] = NoChange
  /\ change' = [change EXCEPT ![n] = [node |-> proc[n].op.node,
                                      to |-> Changes[proc[n].pc]]]
  /\ Goto(n, "changing")
  /\ UNCHANGED <<replicated, leader, pending, fresh, synced, unjoined, budget>>

(* Raft commits the change of its leader.  AddNonvoter leaves a voter one, *)
(* and a leader that removes itself steps down.                            *)
Changed(c) ==
  IF c.to = "nonvoter" /\ config[c.node] = "voter" THEN config
  ELSE [config EXCEPT ![c.node] = c.to]

AfterChange(n) ==
  CASE change[n].to = "nonvoter" -> "nonvoter"
    [] change[n].to = "voter" -> "voter"
    [] change[n].to = "absent" ->
         IF proc[n].op.phase = "removed" THEN "complete" ELSE "removed"

CommitChange(n) ==
  /\ leader = n /\ change[n] # NoChange
  /\ config' = Changed(change[n])
  /\ change' = [change EXCEPT ![n] = NoChange]
  /\ leader' = IF change[n] = [node |-> n, to |-> "absent"] THEN NoNode ELSE n
  /\ UNCHANGED <<op, members, gate, used, fresh, synced, unjoined>>
  /\ \/ /\ proc[n].pc = "changing"
        /\ Goto(n, AfterChange(n)) /\ UNCHANGED <<pending, budget>>
     \/ proc[n].pc = "changing" /\ Spend("faults") /\ Return(n)
     \/ proc[n].pc # "changing" /\ UNCHANGED <<proc, pending, budget>>

\* Mutant of DropChange: the caller is not told.
DropQuietly(n) ==
  /\ change[n] # NoChange /\ leader # n
  /\ change' = [change EXCEPT ![n] = NoChange]
  /\ UNCHANGED <<replicated, leader, fresh, synced, unjoined, budget, proc,
                 pending>>

(* It ends without effect: always once the node is deposed. *)
DropChange(n) ==
  /\ change[n] # NoChange
  /\ \/ leader # n /\ UNCHANGED budget
     \/ leader = n /\ Spend("faults")
  /\ change' = [change EXCEPT ![n] = NoChange]
  /\ UNCHANGED <<replicated, leader, fresh, synced, unjoined>>
  /\ \/ proc[n].pc = "changing" /\ Return(n)
     \/ proc[n].pc # "changing" /\ UNCHANGED <<proc, pending>>

(* The caller's time is up; the change goes on without it. *)
AbandonChange(n) ==
  /\ proc[n].pc = "changing" /\ change[n] # NoChange
  /\ Spend("faults")
  /\ UNCHANGED <<replicated, leader, change, fresh, synced, unjoined>>
  /\ Return(n)

-----------------------------------------------------------------------------
\* Mutant of ActivateCapabilities: nobody is asked.
ActivateUnasked(n) ==
  /\ leader = n /\ proc[n].pc = "idle"
  /\ ~Active /\ gate = 1
  /\ Goto(n, "activate")
  /\ UNCHANGED <<replicated, leader, change, pending, fresh, synced,
                     unjoined, budget>>

(* ActivateCapabilities refuses to start while an operation is active, and *)
(* asks every voter for its capabilities.  It reads the revision it        *)
(* expects only after the answers.                                         *)
ActivateCapabilities(n) ==
  /\ leader = n /\ proc[n].pc = "idle"
  /\ ~Active /\ gate = 1 /\ Voters \subseteq Modern
  /\ Goto(n, "activate")
  /\ UNCHANGED <<replicated, leader, change, pending, fresh, synced,
                     unjoined, budget>>

FinishActivation(n) ==
  /\ proc[n].pc = "activate"
  /\ \/ /\ leader = n /\ gate' = 2 /\ fresh' = {} /\ UNCHANGED budget
     \/ leader = n /\ Spend("faults") /\ UNCHANGED <<gate, fresh>>
     \/ leader # n /\ UNCHANGED <<gate, fresh, budget>>
  /\ proc' = [proc EXCEPT ![n] = Idle]
  /\ UNCHANGED <<config, op, members, used, leader, change, pending, synced,
                 unjoined>>

-----------------------------------------------------------------------------
(* External: Raft elects a voter, which acquires leadership if its         *)
(* capabilities allow.  A deposed node has answered the configuration      *)
(* changes handed to it before it leads again.                             *)
Elect(n) ==
  /\ n \in Voters /\ n # leader /\ Supports(n, gate)
  /\ change[n] = NoChange
  /\ leader # NoNode => budget.faults > 0
  /\ proc[n] # Idle => budget.pauses > 0
  /\ budget' = [budget EXCEPT !.faults = @ - IF leader # NoNode THEN 1 ELSE 0,
                              !.pauses = @ - IF proc[n] # Idle THEN 1 ELSE 0]
  /\ leader' = n
  /\ fresh' = {}
  /\ UNCHANGED <<replicated, proc, change, pending, synced, unjoined>>

(* External: a joining node that is in the configuration receives the log; *)
(* refreshStatus then finds the node there.                                *)
Replicate(j) ==
  /\ leader # NoNode /\ config[j] # "absent" /\ j \in Joiners \ fresh
  /\ fresh' = fresh \cup {j} /\ synced' = synced \cup {j}
  /\ unjoined' = unjoined \ {j}
  /\ UNCHANGED <<replicated, leader, proc, change, pending, budget>>

(* The application writes metadata of its own, which moves the revision. *)
WriteMetadata ==
  /\ leader # NoNode /\ fresh # {}
  /\ fresh' = {}
  /\ UNCHANGED <<replicated, leader, proc, change, pending, synced, unjoined,
                 budget>>

(* A node crashes and restarts: its calls and pendingMembers are gone. *)
Crash(n) ==
  /\ Spend("faults")
  /\ leader' = IF leader = n THEN NoNode ELSE leader
  /\ proc' = [proc EXCEPT ![n] = Idle]
  /\ change' = [change EXCEPT ![n] = NoChange]
  /\ pending' = [pending EXCEPT ![n] = {}]
  /\ UNCHANGED <<replicated, fresh, synced, unjoined>>

Step(n) ==
  \/ PrepareJoin(n) \/ BeginOperation(n) \/ Reconcile(n)
  \/ RecordPhase(n) \/ CompleteOperation(n)
  \/ CatchUp(n) \/ CatchUpFails(n)
  \/ ChangeConfiguration(n) \/ CommitChange(n) \/ DropChange(n)
  \/ FinishActivation(n)

Next ==
  \/ \E n \in Nodes : Step(n) \/ AbandonChange(n) \/ Elect(n) \/ Crash(n)
                      \/ ActivateCapabilities(n)
  \/ \E n, j \in Nodes : JoinVoter(n, j) \/ RemoveServer(n, j)
  \/ \E j \in Joiners : Replicate(j)
  \/ WriteMetadata

Spec == Init /\ [][Next]_vars

(* The scheduler lets some call go on as long as one can, Raft elects a    *)
(* leader when there is none, and replicates to the joining node.  The     *)
(* leader polls it every 100 ms, so that writes do not always come         *)
(* between.  Faults are finitely many.                                     *)
FairSpec ==
  /\ Spec
  /\ WF_vars(\E n \in Nodes : Step(n)) /\ SF_vars(\E n \in Nodes : CatchUp(n))
  /\ WF_vars(leader = NoNode /\ \E n \in Nodes : Elect(n))
  /\ \A j \in Joiners : WF_vars(Replicate(j))

-----------------------------------------------------------------------------
(* Every variable has its type. *)
MembershipTypeOK ==
  /\ config \in [Nodes -> {"absent", "nonvoter", "voter"}]
  /\ members \subseteq Nodes /\ gate \in 1..2
  /\ leader \in Nodes \cup {NoNode}
  /\ pending \in [Nodes -> SUBSET Nodes]
  /\ fresh \subseteq synced /\ synced \cup unjoined \subseteq Joiners
  /\ \A n \in Nodes :
       /\ change[n] = NoChange \/ change[n].node \in Nodes
       /\ proc[n].pc \in {"idle", "prepare", "begin", "catchup", "recheck",
                          "changing", "complete", "activate"}
                         \cup DOMAIN Recording \cup DOMAIN Changes
       /\ proc[n].pc \notin {"idle", "activate"} => proc[n].op.node \in Nodes
       /\ proc[n].pc = "changing" => change[n] # NoChange

(* Whoever leads, crashes or times out, the log changes membership only as *)
(* MembershipSpec allows: the operations are serial, no step is repeated   *)
(* or skipped, and a resumed operation goes on where Raft's configuration  *)
(* stands (node.go:1305-1415).                                             *)
Implements == Abstract!Spec

(* The recorded phase never runs ahead of Raft's configuration, and the    *)
(* committed members are the voters but for the node of the operation:     *)
(* MembershipSpec proves it of what Implements promises (node.go:1338-     *)
(* 1415).                                                                  *)
MembersFollowRaft == Abstract!MembersFollowRaft

(* A node becomes a voter only from a non-voter that has applied the       *)
(* record that it caught up (node.go:1355-1374).                           *)
JoinIsStaged ==
  [][\A j \in Joiners : config'[j] = "voter" /\ config[j] # "voter" =>
       config[j] = "nonvoter" /\ op.phase = "caughtup" /\ j \in synced]_vars

(* Every voter supports the active gate: neither does a node that lacks it *)
(* become a voter nor is it activated over a voter's head (node.go:596,    *)
(* 606, 1340, 1371).                                                       *)
VotersSupportGate == \A n \in Voters : Supports(n, gate)

(* An operation that is begun is completed, whatever leader it takes: none *)
(* is left active to refuse all that follow (node.go:325-348, 1305-1415).  *)
OperationCompletes == Active ~> ~Active

(* The leader is never the node that is removed (node.go:1152). *)
LeaderIsNotRemoved ==
  [][\A n \in Nodes : leader = n /\ config[n] # "absent" =>
       config'[n] # "absent"]_vars

(* With no operation active, the peers an idle node accepts are the        *)
(* committed members (transport.go:106, internal_http.go:180).             *)
PeersAreMembers ==
  \A n \in Nodes : ~Active /\ proc[n].pc = "idle" => Peers(n) \subseteq members
=============================================================================
