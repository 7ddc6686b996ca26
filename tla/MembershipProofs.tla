-------------------------- MODULE MembershipProofs --------------------------
(***************************************************************************)
(* Membership changes for any founders, joining nodes, operations, faults  *)
(* and crashes.                                                            *)
(*                                                                         *)
(* Only the calls of the node that leads can change what is replicated.    *)
(* What such a call remembers is therefore what it found, as long as no    *)
(* node leads again in the middle of a call (Unpaused): Call says what     *)
(* holds before each step of a call, and Submitted what a configuration    *)
(* change that is with Raft, possibly without a caller any more, can still *)
(* do.  The steps of MembershipSpec follow from the two, and with them the *)
(* invariants that are proved there.                                       *)
(***************************************************************************)
EXTENDS Membership, TLAPS

Replicated == INSTANCE MembershipSpecProofs WITH
  cluster <- [config |-> config, members |-> members,
              op |-> [type |-> op.type, node |-> op.node, phase |-> op.phase]]

Suffrages == {"absent", "nonvoter", "voter"}
Phases == {"prepared", "nonvoter", "caughtup", "voter", "removed", "completed"}
Joining == {"addNonvoter", "nonvoter", "catchup", "caughtup", "recheck",
            "addVoter", "voter"}
Removing == {"removeServer", "removed"}
Reconciling == Joining \cup Removing \cup {"changing", "complete"}
Pcs == {"idle", "prepare", "begin", "activate"} \cup Reconciling

RealOps == [id : 0..MaxOps, type : {"join", "remove"}, node : Nodes,
            phase : Phases]
Procs == [pc : Pcs, op : RealOps \cup {NoOp}, gate : 1..2]
Submissions == [node : Nodes, to : Suffrages]
Budgets == [ops : 0..MaxOps, faults : 0..MaxFaults, pauses : 0..MaxPauses]

\* What is replicated, and what the nodes keep, has its type.
TypeInv ==
  /\ config \in [Nodes -> Suffrages] /\ op \in RealOps \cup {NoOp}
  /\ members \subseteq Nodes /\ gate \in 1..2
  /\ leader \in Nodes \cup {NoNode}
  /\ proc \in [Nodes -> Procs]
  /\ change \in [Nodes -> Submissions \cup {NoChange}]
  /\ pending \in [Nodes -> SUBSET Nodes]
  /\ fresh \subseteq synced /\ synced \subseteq Joiners /\ unjoined \subseteq Joiners
  /\ synced \cap unjoined = {}
  /\ budget \in Budgets
  /\ \A n \in Nodes :
       /\ proc[n].pc \notin {"idle", "activate"} => proc[n].op \in RealOps
       /\ proc[n].pc = "changing" => change[n] # NoChange

\* No node has been re-elected in the middle of a call so far.
Unpaused == budget.pauses = MaxPauses

\* A call that begins an operation, and one that activates a gate.
Beginning(p) ==
  /\ p.pc \in {"prepare", "begin"} =>
       /\ ~Active /\ p.op.phase = "prepared"
       /\ p.op.type = "join" => /\ p.op.node \in Joiners \ members
                                /\ p.pc = "begin" => p.op.node \in unjoined
       /\ p.op.type = "remove" =>
            /\ p.op.node \in members /\ p.pc = "begin"
            /\ Cardinality(members) > Cardinality(Founders)
  /\ p.pc = "activate" => ~Active /\ Voters \subseteq Modern

\* What a call that carries a join out has found, before each of its steps.
JoinCall(p, c) ==
  LET s == config[op.node]
  IN  /\ p.pc = "addNonvoter" => op.phase = "prepared" /\ s # "voter"
      /\ p.pc = "nonvoter" => op.phase = "prepared" /\ s = "nonvoter" /\ c = NoChange
      /\ p.pc = "catchup" => s = "nonvoter" \/ (s = "voter" /\ op.phase = "caughtup")
      /\ p.pc = "caughtup" => s = "nonvoter" /\ op.phase \in {"prepared", "nonvoter"}
      /\ p.pc \in {"recheck", "addVoter"} => op.phase = "caughtup"
      /\ p.pc = "addVoter" => op.node \in synced
      /\ p.pc = "changing" => /\ c.to \in {"nonvoter", "voter"}
                              /\ c.to = "nonvoter" => op.phase = "prepared"
      /\ p.pc = "voter" => s = "voter"
      /\ p.pc = "complete" => s = "voter" /\ op.phase = "voter"

RemoveCall(p, c) ==
  LET s == config[op.node]
  IN  /\ p.pc = "changing" => c.to = "absent"
      /\ p.pc = "removed" => s = "absent"
      /\ p.pc = "complete" => s = "absent" /\ op.phase = "removed"

\* The call p of the leader, whose configuration change is c.
Call(p, c) ==
  /\ Beginning(p)
  /\ p.pc \in Reconciling =>
       /\ Active /\ p.op = op /\ p.gate = gate
       /\ p.pc = "changing" => c.node = op.node
       /\ op.type = "join" => /\ p.pc \notin Removing /\ JoinCall(p, c)
                              /\ Supports(op.node, gate)
       /\ op.type = "remove" => p.pc \notin Joining /\ RemoveCall(p, c)

\* What the leader's configuration change can still do.
Submitted(c) ==
  LET joins == Active /\ op.type = "join" /\ op.node = c.node
  IN  /\ c.to = "nonvoter" => joins /\ config[c.node] # "voter"
      /\ c.to = "voter" /\ config[c.node] # "voter" =>
           /\ joins /\ config[c.node] = "nonvoter" /\ op.phase = "caughtup"
           /\ c.node \in synced /\ Supports(c.node, gate)
      /\ c.to = "absent" =>
           /\ ~joins /\ c.node \notin unjoined
           /\ config[c.node] # "absent" =>
                Active /\ op.type = "remove" /\ op.node = c.node

LeaderInv(n) == /\ Call(proc[n], change[n])
                /\ change[n] # NoChange => Submitted(change[n])

\* A join and a removal have their own phases, and a node that has joined is
\* never unjoined again.
ClusterInv ==
  /\ op.type = "join" => op.phase # "removed"
  /\ op.type = "remove" => op.phase \in {"prepared", "removed", "completed"}
  /\ members \cap unjoined = {} /\ Voters \cap unjoined = {}
  /\ Replicated!IInv /\ VotersSupportGate

StepInv == ClusterInv /\ \A n \in Nodes : leader = n => LeaderInv(n)

MInv == TypeInv /\ (Unpaused => StepInv)

-----------------------------------------------------------------------------
(* What every step shows.                                                  *)

Cluster == [config |-> config, members |-> members,
            op |-> [type |-> op.type, node |-> op.node, phase |-> op.phase]]

\* A step of MembershipSpec, or none.
RStep == Cluster' = Cluster \/ Replicated!Next

Staged ==
  \A j \in Joiners : config'[j] = "voter" /\ config[j] # "voter" =>
    config[j] = "nonvoter" /\ op.phase = "caughtup" /\ j \in synced

Good == /\ TypeInv'
        /\ Unpaused' => Unpaused /\ StepInv' /\ RStep /\ Staged

\* What is replicated stands still.
StandsStill == config' = config /\ op' = op /\ members' = members /\ gate' = gate

-----------------------------------------------------------------------------
(* Types.                                                                  *)

\* What a step spends; only an election spends a pause.
LEMMA Budget ==
  ASSUME budget \in Budgets
  PROVE  /\ Spend("ops") => /\ budget' \in Budgets /\ budget.ops > 0
                            /\ budget'.pauses = budget.pauses
         /\ Spend("faults") => /\ budget' \in Budgets
                               /\ budget'.pauses = budget.pauses
         /\ UNCHANGED budget => /\ budget' \in Budgets
                                /\ budget'.pauses = budget.pauses
<1> USE MembershipAssumption DEF Budgets
<1>1. CASE Spend("ops")
  BY <1>1 DEF Spend
<1>2. CASE Spend("faults")
  BY <1>2 DEF Spend
<1> QED BY <1>1, <1>2

\* The kinds of values.
LEMMA Values ==
  /\ NoNode \notin Nodes /\ "none" \notin Nodes /\ Founders \subseteq Nodes /\ Joiners \subseteq Nodes
  /\ Idle \in Procs /\ Idle.pc = "idle"
  /\ NoOp.phase = "completed" /\ NoOp.node \notin Nodes /\ NoOp.type = "none"
  /\ \A o \in RealOps : o # NoOp
  /\ \A c \in Submissions : c # NoChange
<1>1. NoNode \notin Nodes /\ "none" \notin Nodes /\ Founders \subseteq Nodes /\ Joiners \subseteq Nodes
  BY MembershipAssumption DEF Nodes
<1>2. Idle \in Procs /\ Idle.pc = "idle"
  BY DEF Idle, Procs, Pcs
<1>3. NoOp.phase = "completed" /\ NoOp.node = "none" /\ NoOp.type = "none"
  BY DEF NoOp, Op
<1> QED BY <1>1, <1>2, <1>3 DEF RealOps, Submissions, NoChange

\* A call returns or goes on; what the nodes keep has its type.
LEMMA CallTypes ==
  ASSUME TypeInv, NEW n \in Nodes, NEW q \in Procs,
         proc' = [proc EXCEPT ![n] = q],
         q.pc \notin {"idle", "activate"} => q.op \in RealOps,
         q.pc = "changing" => change'[n] # NoChange,
         change' \in [Nodes -> Submissions \cup {NoChange}],
         \A m \in Nodes : m # n => change'[m] = change[m]
  PROVE  /\ proc' \in [Nodes -> Procs]
         /\ \A m \in Nodes :
              /\ proc'[m].pc \notin {"idle", "activate"} => proc'[m].op \in RealOps
              /\ proc'[m].pc = "changing" => change'[m] # NoChange
<1>1. proc \in [Nodes -> Procs]
  BY DEF TypeInv
<1>2. proc' \in [Nodes -> Procs] /\ proc'[n] = q
      /\ \A m \in Nodes : m # n => proc'[m] = proc[m]
  BY <1>1
<1> QED BY <1>2 DEF TypeInv

\* A call returns.
LEMMA ReturnTypes ==
  ASSUME TypeInv, NEW n \in Nodes, Return(n)
  PROVE  /\ proc' = [proc EXCEPT ![n] = Idle]
         /\ pending' \in [Nodes -> SUBSET Nodes]
<1>1. pending \in [Nodes -> SUBSET Nodes]
  BY DEF TypeInv
<1> QED BY <1>1 DEF Return

\* A command of the leader is applied, or nothing is.
LEMMA PutTypes ==
  ASSUME TypeInv, NEW n \in Nodes, NEW o \in RealOps, NEW ms \in SUBSET Nodes,
         PutSucceeds(n, o, ms) \/ PutFails(n, o, ms)
  PROVE  /\ budget' \in Budgets /\ budget'.pauses = budget.pauses
         /\ config' = config /\ gate' = gate
         /\ op' \in RealOps \cup {NoOp} /\ members' \subseteq Nodes
         /\ fresh' \subseteq synced' /\ synced' \subseteq synced
         /\ \/ leader = n /\ op' = o /\ members' = ms /\ synced' = {}
            \/ op' = op /\ members' = members /\ synced' = synced
<1>1. budget \in Budgets /\ op \in RealOps \cup {NoOp} /\ members \subseteq Nodes
      /\ fresh \subseteq synced
  BY DEF TypeInv
<1>2. CASE leader = n /\ Apply(o, ms) /\ (UNCHANGED budget \/ Spend("faults"))
  BY <1>1, <1>2, Budget DEF Apply
<1>3. CASE UNCHANGED <<replicated, fresh, synced>> /\ (UNCHANGED budget \/ Spend("faults"))
  BY <1>1, <1>3, Budget DEF replicated
<1> QED BY <1>2, <1>3 DEF PutSucceeds, PutFails

\* One call of a step, its configuration change, and the rest.
LEMMA TypeStep ==
  ASSUME TypeInv, NEW n \in Nodes, NEW q \in Procs, NEW c \in Submissions \cup {NoChange},
         proc' = [proc EXCEPT ![n] = q], change' = [change EXCEPT ![n] = c],
         q.pc \notin {"idle", "activate"} => q.op \in RealOps,
         q.pc = "changing" => c # NoChange,
         config' \in [Nodes -> Suffrages], op' \in RealOps \cup {NoOp},
         members' \subseteq Nodes, gate' \in 1..2,
         leader' \in Nodes \cup {NoNode}, pending' \in [Nodes -> SUBSET Nodes],
         fresh' \subseteq synced', synced' \subseteq synced, unjoined' = unjoined,
         budget' \in Budgets
  PROVE  TypeInv'
<1>1. /\ change' \in [Nodes -> Submissions \cup {NoChange}] /\ change'[n] = c
      /\ \A m \in Nodes : m # n => change'[m] = change[m]
  BY DEF TypeInv
<1>2. /\ proc' \in [Nodes -> Procs]
      /\ \A m \in Nodes :
           /\ proc'[m].pc \notin {"idle", "activate"} => proc'[m].op \in RealOps
           /\ proc'[m].pc = "changing" => change'[m] # NoChange
  BY <1>1, CallTypes
<1>3. synced' \subseteq Joiners /\ unjoined' \subseteq Joiners /\ synced' \cap unjoined' = {}
  BY DEF TypeInv
<1> QED BY <1>1, <1>2, <1>3 DEF TypeInv

\* The same when what is replicated stands still.
LEMMA TypeStill ==
  ASSUME TypeInv, StandsStill, NEW n \in Nodes, NEW q \in Procs,
         NEW c \in Submissions \cup {NoChange},
         proc' = [proc EXCEPT ![n] = q], change' = [change EXCEPT ![n] = c],
         q.pc \notin {"idle", "activate"} => q.op \in RealOps,
         q.pc = "changing" => c # NoChange,
         fresh' \subseteq synced, UNCHANGED <<synced, unjoined>>,
         leader' = leader \/ leader' = NoNode,
         pending' \in [Nodes -> SUBSET Nodes], budget' \in Budgets
  PROVE  TypeInv'
<1>1. /\ config' \in [Nodes -> Suffrages] /\ op' \in RealOps \cup {NoOp}
      /\ members' \subseteq Nodes /\ gate' \in 1..2
      /\ leader' \in Nodes \cup {NoNode}
      /\ fresh' \subseteq synced' /\ synced' \subseteq synced /\ unjoined' = unjoined
  BY DEF TypeInv, StandsStill
<1> QED BY <1>1, TypeStep

\* The fields a call has.
LEMMA CallFields ==
  ASSUME TypeInv, NEW n \in Nodes
  PROVE  /\ proc[n] \in Procs /\ proc[n].pc \in Pcs /\ proc[n].gate \in 1..2
         /\ proc[n].pc \notin {"idle", "activate"} =>
              /\ proc[n].op \in RealOps /\ proc[n].op.node \in Nodes
              /\ proc[n].op.type \in {"join", "remove"}
              /\ proc[n].op.phase \in Phases
         /\ change[n] \in Submissions \cup {NoChange}
         /\ change[n] # NoChange => /\ change[n].node \in Nodes
                                    /\ change[n].to \in Suffrages
         /\ change = [change EXCEPT ![n] = change[n]]
         /\ proc = [proc EXCEPT ![n] = proc[n]]
         /\ op \in RealOps \cup {NoOp}
         /\ Active => /\ op \in RealOps /\ op.node \in Nodes
                      /\ op.type \in {"join", "remove"} /\ op.phase \in Phases
                      /\ config[op.node] \in Suffrages
         /\ pending \in [Nodes -> SUBSET Nodes] /\ budget \in Budgets
<1>1. proc[n] \in Procs /\ (proc[n].pc \notin {"idle", "activate"} => proc[n].op \in RealOps)
  BY DEF TypeInv
<1>2. proc[n].pc \in Pcs /\ proc[n].gate \in 1..2
  BY <1>1 DEF Procs
<1>3. \A o \in RealOps : /\ o.node \in Nodes /\ o.type \in {"join", "remove"}
                         /\ o.phase \in Phases
  BY DEF RealOps
<1>4. change[n] \in Submissions \cup {NoChange}
  BY DEF TypeInv
<1>5. \A c \in Submissions : c.node \in Nodes /\ c.to \in Suffrages
  BY DEF Submissions
<1>6. op \in RealOps \cup {NoOp} /\ (Active => op \in RealOps)
  BY Values DEF TypeInv, Active
<1>7. change = [change EXCEPT ![n] = change[n]] /\ proc = [proc EXCEPT ![n] = proc[n]]
  BY DEF TypeInv
<1> QED BY <1>1, <1>2, <1>3, <1>4, <1>5, <1>6, <1>7 DEF TypeInv

-----------------------------------------------------------------------------
(* Steps that change nothing that is replicated.                           *)

\* What a call knows, and what its change can do, stays true of it.
LEMMA StillTrue ==
  ASSUME StandsStill, UNCHANGED <<synced, unjoined>>, NEW q, NEW c
  PROVE  /\ Call(q, c) => Call(q, c)'
         /\ Submitted(c) => Submitted(c)'
<1>1. Voters' = Voters /\ (Active' <=> Active)
  BY DEF StandsStill, Voters, Active
<1>2. Beginning(q) => Beginning(q)'
  BY <1>1 DEF StandsStill, Beginning
<1>3. (JoinCall(q, c) => JoinCall(q, c)') /\ (RemoveCall(q, c) => RemoveCall(q, c)')
  BY DEF StandsStill, JoinCall, RemoveCall
<1>4. Call(q, c) => Call(q, c)'
  BY <1>1, <1>2, <1>3 DEF StandsStill, Call, Supports
<1>5. Submitted(c) => Submitted(c)'
  BY <1>1 DEF StandsStill, Submitted, Supports
<1> QED BY <1>4, <1>5

\* The operators of FiniteSets are the same under the names of an instance.
LEMMA SameSets ==
  /\ \A S : IsFiniteSet(S) <=> Replicated!IsFiniteSet(S)
  /\ \A S : Cardinality(S) = Replicated!Cardinality(S)
  /\ \A S : Cardinality(S) = Abstract!Cardinality(S)
<1>1. \A S : IsFiniteSet(S) <=> Replicated!IsFiniteSet(S)
  BY DEF IsFiniteSet, Replicated!IsFiniteSet
<1>2. \A S : Cardinality(S) = Replicated!Cardinality(S)
  BY DEF Cardinality, Replicated!Cardinality
<1>3. \A S : Cardinality(S) = Abstract!Cardinality(S)
  BY DEF Cardinality, Abstract!Cardinality
<1> QED BY <1>1, <1>2, <1>3

\* The invariant of MembershipSpec is kept by its steps.
LEMMA RStepKeeps ==
  ASSUME Replicated!IInv, RStep
  PROVE  Replicated!IInv'
<1>1. CASE Replicated!Next
  BY <1>1, Replicated!InductiveStep, MembershipAssumption, SameSets DEF Nodes
<1>2. CASE Cluster' = Cluster
  BY <1>2, Replicated!InductiveStep, MembershipAssumption, SameSets DEF Cluster, Nodes
<1> QED BY <1>1, <1>2 DEF RStep

\* Nothing of it changes while what is replicated stands still.
LEMMA StillCluster ==
  ASSUME ClusterInv, StandsStill, unjoined' \subseteq unjoined
  PROVE  ClusterInv' /\ RStep /\ Staged
<1>1. RStep /\ Staged
  BY DEF RStep, Cluster, Staged, StandsStill
<1>2. Replicated!IInv'
  BY <1>1, RStepKeeps DEF ClusterInv
<1>3. Voters' = Voters
  BY DEF StandsStill, Voters
<1> QED BY <1>1, <1>2, <1>3 DEF ClusterInv, StandsStill, VotersSupportGate, Supports

\* The leader's calls, after the call of n went on and became q.
LEMMA OneCall ==
  ASSUME TypeInv, NEW n \in Nodes, NEW q \in Procs,
         NEW c \in Submissions \cup {NoChange},
         proc' = [proc EXCEPT ![n] = q], change' = [change EXCEPT ![n] = c]
  PROVE  /\ proc'[n] = q /\ change'[n] = c
         /\ \A m \in Nodes : m # n => proc'[m] = proc[m] /\ change'[m] = change[m]
BY DEF TypeInv

\* A step of one call that leaves what is replicated alone.
LEMMA StillKeeps ==
  ASSUME MInv, StandsStill, NEW n \in Nodes, NEW q \in Procs,
         NEW c \in Submissions \cup {NoChange},
         proc' = [proc EXCEPT ![n] = q], change' = [change EXCEPT ![n] = c],
         q.pc \notin {"idle", "activate"} => q.op \in RealOps,
         q.pc = "changing" => c # NoChange,
         fresh' \subseteq synced, UNCHANGED <<synced, unjoined>>,
         leader' = leader \/ leader' = NoNode,
         pending' \in [Nodes -> SUBSET Nodes],
         budget' \in Budgets, budget'.pauses = budget.pauses,
         StepInv /\ leader' = n => Call(q, c) /\ (c # NoChange => Submitted(c))
  PROVE  Good
<1>1. TypeInv'
  BY TypeStill DEF MInv
<1> SUFFICES ASSUME Unpaused' PROVE Unpaused /\ StepInv' /\ RStep /\ Staged
  BY <1>1 DEF Good
<1>2. Unpaused /\ StepInv
  BY DEF Unpaused, MInv
<1>3. ClusterInv' /\ RStep /\ Staged
  BY <1>2, StillCluster DEF StepInv
<1>4. ASSUME NEW m \in Nodes, leader' = m
      PROVE  LeaderInv(m)'
  <2>0. leader = m
    BY <1>4, Values
  <2>1. CASE m = n
    <3>1. proc'[n] = q /\ change'[n] = c
      BY OneCall DEF MInv
    <3>2. Call(q, c)' /\ (c # NoChange => Submitted(c)')
      BY <1>2, <1>4, <2>1, StillTrue
    <3> QED BY <2>1, <3>1, <3>2 DEF LeaderInv
  <2>2. CASE m # n
    <3> PICK p, d : p = proc[m] /\ d = change[m]
      OBVIOUS
    <3>1. proc'[m] = p /\ change'[m] = d
      BY <2>2, OneCall DEF MInv
    <3>2. Call(p, d) /\ (d # NoChange => Submitted(d))
      BY <1>2, <2>0 DEF StepInv, LeaderInv
    <3>3. Call(p, d)' /\ (d # NoChange => Submitted(d)')
      BY <3>2, StillTrue
    <3> QED BY <3>1, <3>3 DEF LeaderInv
  <2> QED BY <2>1, <2>2
<1> QED BY <1>2, <1>3, <1>4 DEF StepInv

\* A call that has returned knows nothing.
LEMMA IdleCall == \A c : Call(Idle, c)
BY Values DEF Call, Beginning, Reconciling, Joining, Removing

\* The call of n returns.
LEMMA ReturnKeeps ==
  ASSUME MInv, StandsStill, NEW n \in Nodes, NEW c \in Submissions \cup {NoChange},
         proc' = [proc EXCEPT ![n] = Idle], change' = [change EXCEPT ![n] = c],
         c = change[n] \/ c = NoChange,
         fresh' \subseteq synced, UNCHANGED <<synced, unjoined>>,
         leader' = leader \/ leader' = NoNode,
         pending' \in [Nodes -> SUBSET Nodes],
         budget' \in Budgets, budget'.pauses = budget.pauses
  PROVE  Good
<1>1. ASSUME StepInv, leader' = n
      PROVE  Call(Idle, c) /\ (c # NoChange => Submitted(c))
  BY <1>1, IdleCall, Values DEF StepInv, LeaderInv
<1> QED BY <1>1, Values, StillKeeps

\* What the recorded operation and Raft's configuration say of each other.
LEMMA ClusterFacts ==
  ASSUME TypeInv, ClusterInv, Active
  PROVE  LET s == config[op.node]
         IN  /\ op.type = "join" =>
                  /\ op.node \notin members
                  /\ op.phase \in {"prepared", "nonvoter", "caughtup", "voter"}
                  /\ s = "absent" => op.phase = "prepared"
                  /\ s = "nonvoter" => op.phase # "voter"
                  /\ s = "voter" => op.phase \in {"caughtup", "voter"}
             /\ op.type = "remove" =>
                  /\ op.node \in members /\ op.node \notin unjoined
                  /\ op.phase \in {"prepared", "removed"}
                  /\ op.phase = "removed" => s = "absent"
<1>1. op \in RealOps /\ op.node \in Nodes /\ config[op.node] \in Suffrages
      /\ op.phase \in Phases /\ op.phase # "completed"
  BY Values DEF TypeInv, Active, RealOps
<1>2. Replicated!MembersFollowRaft
  BY DEF ClusterInv, Replicated!IInv
<1>3. CASE op.type = "join"
  BY <1>1, <1>2, <1>3 DEF ClusterInv, Replicated!MembersFollowRaft, Phases, Suffrages
<1>4. CASE op.type = "remove"
  BY <1>1, <1>2, <1>4 DEF ClusterInv, Replicated!MembersFollowRaft, Phases, Suffrages
<1> QED BY <1>3, <1>4

\* A call goes on.
LEMMA GotoCall ==
  ASSUME TypeInv, NEW n \in Nodes, NEW pc \in Pcs, Goto(n, pc)
  PROVE  \E q \in Procs : /\ proc' = [proc EXCEPT ![n] = q]
                          /\ q.pc = pc /\ q.op = proc[n].op /\ q.gate = proc[n].gate
<1> DEFINE q == [proc[n] EXCEPT !.pc = pc]
<1>1. proc' = [proc EXCEPT ![n] = q]
  BY DEF Goto
<1>2. q \in Procs /\ q.pc = pc /\ q.op = proc[n].op /\ q.gate = proc[n].gate
  BY CallFields DEF Procs
<1> QED BY <1>1, <1>2

\* The leader's call and its change, for a call of n.
LEMMA LeadersCall ==
  ASSUME TypeInv, StepInv, NEW n \in Nodes, leader = n
  PROVE  /\ Call(proc[n], change[n])
         /\ change[n] # NoChange => Submitted(change[n])
         /\ ClusterInv
BY DEF StepInv, LeaderInv

\* A new operation of a call.
LEMMA NewOp ==
  ASSUME TypeInv, NEW m \in Nodes, NEW type \in {"join", "remove"}, Spend("ops")
  PROVE  \E o \in RealOps :
           /\ o = Op(MaxOps - budget'.ops, type, m, "prepared")
           /\ o.type = type /\ o.node = m /\ o.phase = "prepared"
<1> DEFINE o == Op(MaxOps - budget'.ops, type, m, "prepared")
<1>1. budget'.ops \in 0..MaxOps /\ MaxOps \in Nat
  BY Budget, MembershipAssumption DEF Budgets, TypeInv
<1>2. o \in RealOps /\ o.type = type /\ o.node = m /\ o.phase = "prepared"
  BY <1>1 DEF Op, RealOps, Phases
<1> QED BY <1>2

\* JoinVoter
LEMMA JoinVoterKeeps ==
  ASSUME MInv, NEW n \in Nodes, NEW j \in Nodes, JoinVoter(n, j)
  PROVE  Good
<1>0. TypeInv
  BY DEF MInv
<1>1. /\ Spend("ops") /\ StandsStill /\ UNCHANGED <<leader, change, fresh, synced, unjoined>>
      /\ ~Active /\ j \in Joiners \ members
      /\ pending' \in [Nodes -> SUBSET Nodes] /\ fresh' \subseteq synced
  BY <1>0, CallFields DEF JoinVoter, StandsStill, replicated, TypeInv
<1>2. budget' \in Budgets /\ budget'.pauses = budget.pauses
  BY <1>0, <1>1, CallFields, Budget
<1> PICK o \in RealOps :
      /\ o = Op(MaxOps - budget'.ops, "join", j, "prepared")
      /\ o.type = "join" /\ o.node = j /\ o.phase = "prepared"
  BY <1>0, <1>1, NewOp
<1> DEFINE q == [proc[n] EXCEPT !.pc = "prepare", !.op = o]
<1>3. proc' = [proc EXCEPT ![n] = q]
  BY DEF JoinVoter
<1>4. q \in Procs /\ q.pc = "prepare" /\ q.op = o
  BY <1>0, CallFields DEF Procs, Pcs
<1> HIDE DEF q
<1>5. \A c : Call(q, c)
  BY <1>1, <1>4 DEF Call, Beginning, Reconciling, Joining, Removing
<1> PICK c \in Submissions \cup {NoChange} : c = change[n]
  BY <1>0, CallFields
<1>6. change' = [change EXCEPT ![n] = c] /\ leader' = leader
  BY <1>0, <1>1, CallFields
<1>7. StepInv /\ leader' = n => Call(q, c) /\ (c # NoChange => Submitted(c))
  BY <1>0, <1>1, <1>5, LeadersCall
<1> QED BY <1>1, <1>2, <1>3, <1>4, <1>6, <1>7, StillKeeps

\* RemoveServer
LEMMA RemoveServerKeeps ==
  ASSUME MInv, NEW n \in Nodes, NEW m \in Nodes, RemoveServer(n, m)
  PROVE  Good
<1>0. TypeInv
  BY DEF MInv
<1>1. /\ Spend("ops") /\ StandsStill /\ UNCHANGED <<leader, change, fresh, synced, unjoined>>
      /\ ~Active /\ m \in members /\ Cardinality(members) > Cardinality(Founders)
      /\ pending' \in [Nodes -> SUBSET Nodes] /\ fresh' \subseteq synced
  BY <1>0, CallFields DEF RemoveServer, StandsStill, replicated, TypeInv
<1>2. budget' \in Budgets /\ budget'.pauses = budget.pauses
  BY <1>0, <1>1, CallFields, Budget
<1> PICK o \in RealOps :
      /\ o = Op(MaxOps - budget'.ops, "remove", m, "prepared")
      /\ o.type = "remove" /\ o.node = m /\ o.phase = "prepared"
  BY <1>0, <1>1, NewOp
<1> DEFINE q == [proc[n] EXCEPT !.pc = "begin", !.op = o]
<1>3. proc' = [proc EXCEPT ![n] = q]
  BY DEF RemoveServer
<1>4. q \in Procs /\ q.pc = "begin" /\ q.op = o
  BY <1>0, CallFields DEF Procs, Pcs
<1> HIDE DEF q
<1>5. \A c : Call(q, c)
  BY <1>1, <1>4 DEF Call, Beginning, Reconciling, Joining, Removing
<1> PICK c \in Submissions \cup {NoChange} : c = change[n]
  BY <1>0, CallFields
<1>6. change' = [change EXCEPT ![n] = c] /\ leader' = leader
  BY <1>0, <1>1, CallFields
<1>7. StepInv /\ leader' = n => Call(q, c) /\ (c # NoChange => Submitted(c))
  BY <1>0, <1>1, <1>5, LeadersCall
<1> QED BY <1>1, <1>2, <1>3, <1>4, <1>6, <1>7, StillKeeps

\* A call goes on without a configuration change.
LEMMA GoKeeps ==
  ASSUME MInv, StandsStill, NEW n \in Nodes, NEW q \in Procs,
         proc' = [proc EXCEPT ![n] = q],
         q.pc \notin {"idle", "activate"} => q.op \in RealOps,
         q.pc = "changing" => change[n] # NoChange,
         UNCHANGED <<leader, change, synced, unjoined>>, fresh' \subseteq synced,
         pending' \in [Nodes -> SUBSET Nodes],
         budget' \in Budgets, budget'.pauses = budget.pauses,
         StepInv /\ leader = n => Call(q, change[n])
  PROVE  Good
<1>0. TypeInv
  BY DEF MInv
<1> PICK c \in Submissions \cup {NoChange} : c = change[n]
  BY <1>0, CallFields
<1>1. change' = [change EXCEPT ![n] = c] /\ leader' = leader
  BY <1>0, CallFields
<1>2. StepInv /\ leader' = n => Call(q, c) /\ (c # NoChange => Submitted(c))
  BY <1>0, <1>1, LeadersCall
<1> QED BY <1>1, <1>2, StillKeeps

\* The joining node's answer.
LEMMA PrepareKeeps ==
  ASSUME MInv, NEW n \in Nodes, PrepareJoin(n)
  PROVE  Good
<1>0. TypeInv
  BY DEF MInv
<1>1. /\ StandsStill /\ UNCHANGED <<leader, change, synced, unjoined>>
      /\ fresh' \subseteq synced /\ proc[n].pc = "prepare"
      /\ pending' \in [Nodes -> SUBSET Nodes]
  BY <1>0, CallFields DEF PrepareJoin, StandsStill, replicated, TypeInv
<1>2. budget' \in Budgets /\ budget'.pauses = budget.pauses
  BY <1>0, CallFields, Budget DEF PrepareJoin
<1>3. CASE proc[n].op.node \in unjoined /\ Goto(n, "begin")
  <2>1. "begin" \in Pcs
    BY DEF Pcs
  <2> PICK q \in Procs : /\ proc' = [proc EXCEPT ![n] = q]
                         /\ q.pc = "begin" /\ q.op = proc[n].op
    BY <1>0, <1>3, <2>1, GotoCall
  <2>2. q.op \in RealOps
    BY <1>0, <1>1, CallFields
  <2>3. ASSUME StepInv, leader = n PROVE Call(q, change[n])
    BY <1>0, <1>1, <1>3, <2>3, LeadersCall
    DEF Call, Beginning, Reconciling, Joining, Removing
  <2> QED BY <1>1, <1>2, <2>2, <2>3, GoKeeps
<1>4. CASE proc' = [proc EXCEPT ![n] = Idle]
  BY <1>1, <1>2, <1>4, Values, IdleCall, GoKeeps
<1> QED BY <1>3, <1>4 DEF PrepareJoin

\* What reconcileMembershipOperation is going to do fits what it has read.
LEMMA NextCall ==
  ASSUME TypeInv, ClusterInv, Active, op.type = "join" => Supports(op.node, gate)
  PROVE  \A c : /\ [pc |-> NextPc, op |-> op, gate |-> gate] \in Procs
                /\ NextPc \notin {"idle", "activate", "changing"}
                /\ Call([pc |-> NextPc, op |-> op, gate |-> gate], c)
<1> TAKE c
<1> DEFINE q == [pc |-> NextPc, op |-> op, gate |-> gate]
           s == config[op.node]
<1>1. /\ op \in RealOps /\ op.type \in {"join", "remove"} /\ s \in Suffrages
      /\ gate \in 1..2
  BY Values DEF TypeInv, Active, RealOps
<1>2. CASE op.type = "join" /\ s = "absent"
  <2>1. NextPc = "addNonvoter"
    BY <1>2 DEF NextPc, NextPcOf
  <2>2. q \in Procs /\ q.pc = "addNonvoter" /\ q.op = op /\ q.gate = gate
    BY <1>1, <2>1 DEF Procs, Pcs, Reconciling, Joining
  <2> HIDE DEF q
  <2>3. Call(q, c)
    BY <1>2, <2>2, ClusterFacts
    DEF Call, Beginning, JoinCall, Reconciling, Joining, Removing
  <2> QED BY <2>1, <2>2, <2>3 DEF q
<1>3. CASE op.type = "join" /\ s = "nonvoter"
  <2>1. NextPc = "catchup"
    BY <1>3 DEF NextPc, NextPcOf
  <2>2. q \in Procs /\ q.pc = "catchup" /\ q.op = op /\ q.gate = gate
    BY <1>1, <2>1 DEF Procs, Pcs, Reconciling, Joining
  <2> HIDE DEF q
  <2>3. Call(q, c)
    BY <1>3, <2>2 DEF Call, Beginning, JoinCall, Reconciling, Joining, Removing
  <2> QED BY <2>1, <2>2, <2>3 DEF q
<1>4. CASE op.type = "join" /\ s = "voter"
  <2>1. NextPc = IF op.phase = "voter" THEN "complete" ELSE "voter"
    BY <1>4 DEF NextPc, NextPcOf
  <2>2. q \in Procs /\ q.pc = NextPc /\ q.op = op /\ q.gate = gate
    BY <1>1, <2>1 DEF Procs, Pcs, Reconciling, Joining
  <2> HIDE DEF q
  <2>3. Call(q, c)
    BY <1>4, <2>1, <2>2 DEF Call, Beginning, JoinCall, Reconciling, Joining, Removing
  <2> QED BY <2>1, <2>2, <2>3 DEF q
<1>5. CASE op.type = "remove" /\ s # "absent"
  <2>1. NextPc = "removeServer"
    BY <1>5 DEF NextPc, NextPcOf
  <2>2. q \in Procs /\ q.pc = "removeServer" /\ q.op = op /\ q.gate = gate
    BY <1>1, <2>1 DEF Procs, Pcs, Reconciling, Removing
  <2> HIDE DEF q
  <2>3. Call(q, c)
    BY <1>5, <2>2 DEF Call, Beginning, RemoveCall, Reconciling, Joining, Removing
  <2> QED BY <2>1, <2>2, <2>3 DEF q
<1>6. CASE op.type = "remove" /\ s = "absent"
  <2>1. NextPc = IF op.phase = "removed" THEN "complete" ELSE "removed"
    BY <1>6 DEF NextPc, NextPcOf
  <2>2. q \in Procs /\ q.pc = NextPc /\ q.op = op /\ q.gate = gate
    BY <1>1, <2>1 DEF Procs, Pcs, Reconciling, Removing
  <2> HIDE DEF q
  <2>3. Call(q, c)
    BY <1>6, <2>1, <2>2 DEF Call, Beginning, RemoveCall, Reconciling, Joining, Removing
  <2> QED BY <2>1, <2>2, <2>3 DEF q
<1> QED BY <1>1, <1>2, <1>3, <1>4, <1>5, <1>6 DEF Suffrages

\* Where reconcileMembershipOperation goes on.
LEMMA NextPcType ==
  ASSUME TypeInv, Active
  PROVE  NextPc \in Reconciling \ {"changing"}
<1>1. op.type \in {"join", "remove"} /\ config[op.node] \in Suffrages
  BY Values DEF TypeInv, Active, RealOps
<1>2. CASE op.type = "join"
  BY <1>1, <1>2 DEF NextPc, NextPcOf, Suffrages, Reconciling, Joining
<1>3. CASE op.type = "remove" /\ config[op.node] # "absent"
  BY <1>3 DEF NextPc, NextPcOf, Reconciling, Removing
<1>4. CASE op.type = "remove" /\ config[op.node] = "absent"
  BY <1>4 DEF NextPc, NextPcOf, Reconciling, Removing
<1> QED BY <1>1, <1>2, <1>3, <1>4

\* reconcileMembershipOperation
LEMMA ReconcileKeeps ==
  ASSUME MInv, NEW n \in Nodes, Reconcile(n)
  PROVE  Good
<1>0. TypeInv
  BY DEF MInv
<1>1. /\ StandsStill /\ UNCHANGED <<leader, change, synced, unjoined>>
      /\ fresh' \subseteq synced /\ proc[n].pc = "idle" /\ Active /\ leader = n
      /\ op \in RealOps /\ op.node \in Nodes
  BY <1>0, CallFields DEF Reconcile, StandsStill, replicated, TypeInv
<1>2. budget' \in Budgets /\ budget'.pauses = budget.pauses
  BY <1>0, CallFields, Budget DEF Reconcile
<1>3. pending' \in [Nodes -> SUBSET Nodes]
  <2>1. pending \in [Nodes -> SUBSET Nodes]
    BY <1>0, CallFields
  <2>2. pending[n] \cup {op.node} \in SUBSET Nodes
    BY <1>1, <2>1
  <2> QED BY <2>1, <2>2 DEF Reconcile
<1>4. CASE op.type = "join" /\ ~Supports(op.node, gate)
  <2>1. proc' = [proc EXCEPT ![n] = proc[n]]
    BY <1>0, <1>4, CallFields DEF Reconcile
  <2>2. StepInv => Call(proc[n], change[n])
    BY <1>0, <1>1, LeadersCall
  <2> QED BY <1>0, <1>1, <1>2, <1>3, <2>1, <2>2, CallFields, GoKeeps
<1>5. CASE ~(op.type = "join" /\ ~Supports(op.node, gate))
  <2> DEFINE q == [pc |-> NextPc, op |-> op, gate |-> gate]
  <2>1. proc' = [proc EXCEPT ![n] = q]
    BY <1>5 DEF Reconcile
  <2>2. q \in Procs /\ q.pc \in Reconciling \ {"changing"} /\ q.op = op
    BY <1>0, <1>1, NextPcType DEF TypeInv, Procs, Pcs
  <2>3. StepInv => Call(q, change[n])
    BY <1>0, <1>1, <1>5, NextCall DEF StepInv
  <2>4. q.pc # "changing"
    BY <2>2
  <2> HIDE DEF q
  <2> QED BY <1>1, <1>2, <1>3, <2>1, <2>2, <2>3, <2>4, GoKeeps
<1> QED BY <1>4, <1>5

\* The joining node has caught up.
LEMMA CatchUpKeeps ==
  ASSUME MInv, NEW n \in Nodes, CatchUp(n)
  PROVE  Good
<1>0. TypeInv
  BY DEF MInv
<1>1. /\ StandsStill /\ UNCHANGED <<leader, change, synced, unjoined>>
      /\ fresh' \subseteq synced /\ proc[n].pc \in {"catchup", "recheck"}
      /\ proc[n].op.node \in synced
      /\ pending' \in [Nodes -> SUBSET Nodes]
  BY <1>0, CallFields DEF CatchUp, StandsStill, replicated, TypeInv
<1>2. budget' \in Budgets /\ budget'.pauses = budget.pauses
  BY <1>0, CallFields, Budget DEF CatchUp
<1>3. PICK pc \in Pcs :
        /\ Goto(n, pc)
        /\ \/ proc[n].pc = "recheck" /\ pc = "addVoter"
           \/ /\ proc[n].pc = "catchup" /\ proc[n].op.phase = "caughtup"
              /\ pc = "recheck"
           \/ /\ proc[n].pc = "catchup" /\ proc[n].op.phase # "caughtup"
              /\ pc = "caughtup"
  <2>1. {"addVoter", "recheck", "caughtup"} \subseteq Pcs
    BY DEF Pcs, Reconciling, Joining
  <2>2. CASE proc[n].pc = "recheck"
    BY <2>1, <2>2 DEF CatchUp
  <2>3. CASE proc[n].pc = "catchup" /\ proc[n].op.phase = "caughtup"
    BY <2>1, <2>3 DEF CatchUp
  <2>4. CASE proc[n].pc = "catchup" /\ proc[n].op.phase # "caughtup"
    <3>1. Goto(n, "caughtup")
      BY <2>4 DEF CatchUp
    <3> QED BY <2>1, <2>4, <3>1
  <2> QED BY <1>1, <2>2, <2>3, <2>4
<1> PICK q \in Procs : /\ proc' = [proc EXCEPT ![n] = q]
                       /\ q.pc = pc /\ q.op = proc[n].op /\ q.gate = proc[n].gate
  BY <1>0, <1>3, GotoCall
<1>4. q.op \in RealOps /\ q.pc # "changing"
  BY <1>0, <1>1, <1>3, CallFields
<1>5. ASSUME StepInv, leader = n PROVE Call(q, change[n])
  <2>1. Call(proc[n], change[n]) /\ ClusterInv
    BY <1>0, <1>5, LeadersCall
  <2>2. /\ Active /\ proc[n].op = op /\ proc[n].gate = gate /\ op.type = "join"
        /\ JoinCall(proc[n], change[n]) /\ Supports(op.node, gate)
    BY <1>0, <1>1, <2>1, CallFields DEF Call, Reconciling, Joining, Removing
  <2>3. JoinCall(q, change[n])
    BY <1>0, <1>1, <1>3, <2>1, <2>2, ClusterFacts DEF JoinCall
  <2> QED BY <1>3, <2>2, <2>3 DEF Call, Beginning, Reconciling, Joining, Removing
<1> QED BY <1>1, <1>2, <1>4, <1>5, GoKeeps

\* Calls that fail, and changes without a caller.
LEMMA FailuresKeep ==
  ASSUME MInv, NEW n \in Nodes, CatchUpFails(n) \/ AbandonChange(n)
  PROVE  Good
<1>0. TypeInv
  BY DEF MInv
<1>1. /\ StandsStill /\ UNCHANGED <<leader, change, synced, unjoined>>
      /\ fresh' \subseteq synced /\ Return(n)
  BY <1>0 DEF CatchUpFails, AbandonChange, StandsStill, replicated, TypeInv
<1>2. budget' \in Budgets /\ budget'.pauses = budget.pauses
  BY <1>0, CallFields, Budget DEF CatchUpFails, AbandonChange
<1>3. proc' = [proc EXCEPT ![n] = Idle] /\ pending' \in [Nodes -> SUBSET Nodes]
  BY <1>0, <1>1, ReturnTypes
<1> QED BY <1>1, <1>2, <1>3, Values, IdleCall, GoKeeps

\* ActivateCapabilities
LEMMA ActivateKeeps ==
  ASSUME MInv, NEW n \in Nodes, ActivateCapabilities(n)
  PROVE  Good
<1>0. TypeInv
  BY DEF MInv
<1>1. /\ StandsStill /\ UNCHANGED <<leader, change, synced, unjoined>>
      /\ fresh' \subseteq synced /\ ~Active /\ Voters \subseteq Modern
      /\ Goto(n, "activate") /\ pending' \in [Nodes -> SUBSET Nodes]
  BY <1>0, CallFields DEF ActivateCapabilities, StandsStill, replicated, TypeInv
<1>2. budget' \in Budgets /\ budget'.pauses = budget.pauses
  BY <1>0, CallFields, Budget DEF ActivateCapabilities
<1>3. "activate" \in Pcs
  BY DEF Pcs
<1> PICK q \in Procs : proc' = [proc EXCEPT ![n] = q] /\ q.pc = "activate"
  BY <1>0, <1>1, <1>3, GotoCall
<1>4. Call(q, change[n])
  BY <1>1 DEF Call, Beginning, Reconciling, Joining, Removing
<1> QED BY <1>1, <1>2, <1>4, GoKeeps

\* The application's own writes.
LEMMA WriteKeeps ==
  ASSUME MInv, WriteMetadata
  PROVE  Good
<1>0. TypeInv
  BY DEF MInv
<1> PICK n \in Nodes : n = leader
  BY <1>0 DEF TypeInv, WriteMetadata
<1>1. /\ StandsStill /\ UNCHANGED <<leader, proc, change, synced, unjoined>>
      /\ fresh' \subseteq synced /\ pending' \in [Nodes -> SUBSET Nodes]
  BY <1>0, CallFields DEF WriteMetadata, StandsStill, replicated
<1>2. budget' \in Budgets /\ budget'.pauses = budget.pauses
  BY <1>0, CallFields, Budget DEF WriteMetadata
<1>3. proc' = [proc EXCEPT ![n] = proc[n]]
  BY <1>0, <1>1, CallFields
<1>4. StepInv => Call(proc[n], change[n])
  BY <1>0, LeadersCall
<1>5. proc[n].pc = "changing" => change[n] # NoChange
  BY <1>0 DEF TypeInv
<1> QED BY <1>0, <1>1, <1>2, <1>3, <1>4, <1>5, CallFields, GoKeeps

\* The change is handed to Raft.
LEMMA ChangeKeeps ==
  ASSUME MInv, NEW n \in Nodes, ChangeConfiguration(n)
  PROVE  Good
<1>0. TypeInv
  BY DEF MInv
<1>1. /\ StandsStill /\ UNCHANGED <<leader, synced, unjoined>>
      /\ fresh' \subseteq synced /\ proc[n].pc \in {"addNonvoter", "addVoter", "removeServer"}
      /\ Goto(n, "changing") /\ pending' \in [Nodes -> SUBSET Nodes]
      /\ leader' = leader
  BY <1>0, CallFields DEF ChangeConfiguration, Changes, StandsStill, replicated, TypeInv
<1>2. budget' \in Budgets /\ budget'.pauses = budget.pauses
  BY <1>0, CallFields, Budget DEF ChangeConfiguration
<1>3. PICK c \in Submissions :
        /\ change' = [change EXCEPT ![n] = c] /\ c.node = proc[n].op.node
        /\ proc[n].pc = "addNonvoter" => c.to = "nonvoter"
        /\ proc[n].pc = "addVoter" => c.to = "voter"
        /\ proc[n].pc = "removeServer" => c.to = "absent"
  <2> DEFINE c == [node |-> proc[n].op.node, to |-> Changes[proc[n].pc]]
  <2>1. /\ Changes["addNonvoter"] = "nonvoter" /\ Changes["addVoter"] = "voter"
        /\ Changes["removeServer"] = "absent"
    BY DEF Changes
  <2>2. Changes[proc[n].pc] \in Suffrages /\ proc[n].op.node \in Nodes
    BY <1>0, <1>1, <2>1, CallFields DEF Suffrages
  <2>3. c \in Submissions /\ c.node = proc[n].op.node /\ c.to = Changes[proc[n].pc]
    BY <2>2 DEF Submissions
  <2>4. change' = [change EXCEPT ![n] = c]
    BY DEF ChangeConfiguration
  <2> QED BY <2>1, <2>3, <2>4
<1>4. "changing" \in Pcs
  BY DEF Pcs, Reconciling
<1> PICK q \in Procs : /\ proc' = [proc EXCEPT ![n] = q]
                       /\ q.pc = "changing" /\ q.op = proc[n].op
                       /\ q.gate = proc[n].gate
  BY <1>0, <1>1, <1>4, GotoCall
<1>5. q.op \in RealOps
  BY <1>0, <1>1, CallFields
<1>6. ASSUME StepInv, leader = n PROVE Call(q, c) /\ Submitted(c)
  <2>1. Call(proc[n], change[n]) /\ ClusterInv
    BY <1>0, <1>6, LeadersCall
  <2>2. /\ Active /\ proc[n].op = op /\ proc[n].gate = gate
        /\ op.type \in {"join", "remove"} /\ config[op.node] \in Suffrages
    BY <1>0, <1>1, <2>1, CallFields DEF Call, Reconciling, Joining, Removing
  <2>3. CASE op.type = "join"
    <3>1. /\ proc[n].pc \in {"addNonvoter", "addVoter"}
          /\ JoinCall(proc[n], change[n]) /\ Supports(op.node, gate)
      BY <1>1, <2>1, <2>3 DEF Call, Reconciling, Joining, Removing
    <3>2. JoinCall(q, c)
      BY <1>3, <3>1 DEF JoinCall
    <3>3. Call(q, c)
      BY <1>3, <2>2, <2>3, <3>1, <3>2 DEF Call, Beginning, Reconciling, Joining, Removing
    <3>4. Submitted(c)
      BY <1>0, <1>3, <2>1, <2>2, <2>3, <3>1, ClusterFacts
      DEF Submitted, JoinCall, Suffrages
    <3> QED BY <3>3, <3>4
  <2>4. CASE op.type = "remove"
    <3>1. proc[n].pc = "removeServer"
      BY <1>1, <2>1, <2>4 DEF Call, Reconciling, Joining, Removing
    <3>2. Call(q, c)
      BY <1>3, <2>2, <2>4, <3>1
      DEF Call, Beginning, RemoveCall, Reconciling, Joining, Removing
    <3>3. Submitted(c)
      BY <1>0, <1>3, <2>1, <2>2, <2>4, <3>1, ClusterFacts DEF Submitted
    <3> QED BY <3>2, <3>3
  <2> QED BY <2>2, <2>3, <2>4
<1>7. c # NoChange /\ c \in Submissions \cup {NoChange}
  BY Values
<1> QED BY <1>1, <1>2, <1>3, <1>5, <1>6, <1>7, StillKeeps

\* The change ends without effect.
LEMMA DropKeeps ==
  ASSUME MInv, NEW n \in Nodes, DropChange(n)
  PROVE  Good
<1>0. TypeInv
  BY DEF MInv
<1>1. /\ StandsStill /\ UNCHANGED <<leader, synced, unjoined>>
      /\ fresh' \subseteq synced /\ leader' = leader
      /\ change' = [change EXCEPT ![n] = NoChange]
  BY <1>0 DEF DropChange, StandsStill, replicated, TypeInv
<1>2. budget' \in Budgets /\ budget'.pauses = budget.pauses
  BY <1>0, CallFields, Budget DEF DropChange
<1>3. CASE Return(n)
  <2>1. proc' = [proc EXCEPT ![n] = Idle] /\ pending' \in [Nodes -> SUBSET Nodes]
    BY <1>0, <1>3, ReturnTypes
  <2> QED BY <1>1, <1>2, <2>1, ReturnKeeps
<1>4. CASE proc[n].pc # "changing" /\ UNCHANGED <<proc, pending>>
  <2> PICK q \in Procs : q = proc[n]
    BY <1>0, CallFields
  <2>1. proc' = [proc EXCEPT ![n] = q] /\ pending' \in [Nodes -> SUBSET Nodes]
    BY <1>0, <1>4, CallFields
  <2>2. ASSUME StepInv, leader = n PROVE Call(q, NoChange)
    <3>1. Call(q, change[n])
      BY <1>0, <2>2, LeadersCall
    <3> QED BY <1>4, <3>1 DEF Call, JoinCall, RemoveCall
  <2>3. q.pc \notin {"idle", "activate"} => q.op \in RealOps
    BY <1>0, CallFields
  <2> QED BY <1>1, <1>2, <1>4, <2>1, <2>2, <2>3, StillKeeps
<1> QED BY <1>3, <1>4 DEF DropChange

\* A node crashes and restarts.
LEMMA CrashKeeps ==
  ASSUME MInv, NEW n \in Nodes, Crash(n)
  PROVE  Good
<1>0. TypeInv
  BY DEF MInv
<1>1. /\ StandsStill /\ UNCHANGED <<synced, unjoined>>
      /\ fresh' \subseteq synced /\ (leader' = leader \/ leader' = NoNode)
      /\ change' = [change EXCEPT ![n] = NoChange]
      /\ proc' = [proc EXCEPT ![n] = Idle]
      /\ pending' \in [Nodes -> SUBSET Nodes]
  BY <1>0, CallFields DEF Crash, StandsStill, replicated, TypeInv
<1>2. budget' \in Budgets /\ budget'.pauses = budget.pauses
  BY <1>0, CallFields, Budget DEF Crash
<1> QED BY <1>1, <1>2, ReturnKeeps

-----------------------------------------------------------------------------
(* Steps of MembershipSpec.                                                *)

\* Names for the steps of MembershipSpec from the cluster as it is.
LEMMA ClusterSteps ==
  /\ ~Active /\ Cluster' \in Replicated!Begun(Cluster) => RStep
  /\ Active /\ op.type = "join" /\ Cluster' \in Replicated!JoinSteps(Cluster) => RStep
  /\ Active /\ op.type = "remove" /\ Cluster' \in Replicated!RemoveSteps(Cluster)
       => RStep
BY DEF RStep, Cluster, Replicated!Next, Replicated!Steps, Replicated!Active, Active

\* An operation is recorded.
LEMMA MapBegin ==
  ASSUME TypeInv, ~Active, NEW o \in RealOps, op' = o, o.phase = "prepared",
         config' = config, members' = members,
         o.type = "join" => o.node \in Joiners \ members,
         o.type = "remove" => /\ o.node \in members
                              /\ Cardinality(members) > Cardinality(Founders)
  PROVE  RStep
<1>1. Cluster' = Replicated!Begin(Cluster, o.type, o.node)
  BY DEF Cluster, Replicated!Begin
<1>2. o.type \in {"join", "remove"} /\ Cluster.members = members
  BY DEF RealOps, Cluster
<1>3. Cluster' \in Replicated!Begun(Cluster)
  BY <1>1, <1>2, SameSets DEF Replicated!Begun, Replicated!BootstrapExpect
<1> QED BY <1>3, ClusterSteps

\* A phase is recorded.
LEMMA MapPhase ==
  ASSUME TypeInv, Active, NEW p \in Phases, NEW o, o = [op EXCEPT !.phase = p],
         op' = o, config' = config, members' = members,
         \/ /\ op.type = "join" /\ config[op.node] = "nonvoter"
            /\ \/ p = "nonvoter" /\ op.phase = "prepared"
               \/ p = "caughtup" /\ op.phase \in {"prepared", "nonvoter"}
         \/ op.type = "join" /\ config[op.node] = "voter" /\ p = "voter"
         \/ op.type = "remove" /\ config[op.node] = "absent" /\ p = "removed"
  PROVE  RStep
<1>1. op \in RealOps
  BY Values DEF TypeInv, Active
<1>2. o.type = op.type /\ o.node = op.node /\ o.phase = p
  BY <1>1 DEF RealOps
<1>3. Cluster' = Replicated!WithPhase(Cluster, p)
  BY <1>2 DEF Cluster, Replicated!WithPhase
<1>4. /\ Cluster.op.phase = op.phase /\ Cluster.op.node = op.node
      /\ Cluster.config = config
  BY DEF Cluster
<1>5. CASE op.phase = p
  <2>1. Cluster' = Cluster
    BY <1>2, <1>5 DEF Cluster
  <2> QED BY <2>1 DEF RStep
<1>6. CASE op.phase # p /\ op.type = "join"
  BY <1>3, <1>4, <1>6, ClusterSteps DEF Replicated!JoinSteps
<1>7. CASE op.phase # p /\ op.type = "remove"
  BY <1>3, <1>4, <1>7, ClusterSteps DEF Replicated!RemoveSteps
<1> QED BY <1>5, <1>6, <1>7

\* The operation is completed.
LEMMA MapComplete ==
  ASSUME TypeInv, Active, NEW o, o = [op EXCEPT !.phase = "completed"],
         op' = o, config' = config,
         \/ /\ op.type = "join" /\ config[op.node] = "voter" /\ op.phase = "voter"
            /\ members' = members \cup {op.node}
         \/ /\ op.type = "remove" /\ config[op.node] = "absent"
            /\ op.phase = "removed" /\ members' = members \ {op.node}
  PROVE  RStep
<1>1. op \in RealOps
  BY Values DEF TypeInv, Active
<1>2. o.type = op.type /\ o.node = op.node /\ o.phase = "completed"
  BY <1>1 DEF RealOps
<1>3. /\ Cluster.op.phase = op.phase /\ Cluster.op.node = op.node
      /\ Cluster.config = config /\ Cluster.members = members
  BY DEF Cluster
<1> DEFINE done == [type |-> op.type, node |-> op.node, phase |-> "completed"]
           W == [config |-> config, members |-> members, op |-> done]
<1>w. Replicated!WithPhase(Cluster, "completed") = W
  BY DEF Cluster, Replicated!WithPhase
<1>c. Cluster' = [config |-> config, members |-> members', op |-> done]
  BY <1>2 DEF Cluster
<1>4. CASE op.type = "join"
  <2>1. Cluster' = [Replicated!WithPhase(Cluster, "completed")
                      EXCEPT !.members = @ \cup {op.node}]
    BY <1>4, <1>w, <1>c
  <2> QED BY <1>3, <1>4, <2>1, ClusterSteps DEF Replicated!JoinSteps
<1>5. CASE op.type = "remove"
  <2>0. members' = members \ {op.node}
    BY <1>5
  <2> HIDE DEF done
  <2>1. Cluster' = [Replicated!WithPhase(Cluster, "completed")
                      EXCEPT !.members = @ \ {op.node}]
    BY <2>0, <1>w, <1>c
  <2> QED BY <1>3, <1>5, <2>1, ClusterSteps DEF Replicated!RemoveSteps
<1> QED BY <1>4, <1>5

\* Raft's configuration changes.
LEMMA MapSuffrage ==
  ASSUME TypeInv, Active, op' = op, members' = members, NEW u,
         config' = [config EXCEPT ![op.node] = u],
         \/ op.type = "join" /\ config[op.node] = "absent" /\ u = "nonvoter"
         \/ /\ op.type = "join" /\ config[op.node] = "nonvoter"
            /\ op.phase = "caughtup" /\ u = "voter"
         \/ op.type = "remove" /\ config[op.node] # "absent" /\ u = "absent"
  PROVE  RStep
<1>1. Cluster' = Replicated!WithSuffrage(Cluster, op.node, u)
  BY DEF Cluster, Replicated!WithSuffrage
<1>2. /\ Cluster.op.phase = op.phase /\ Cluster.op.node = op.node
      /\ Cluster.config = config
  BY DEF Cluster
<1>3. CASE op.type = "join"
  BY <1>1, <1>2, <1>3, ClusterSteps DEF Replicated!JoinSteps
<1>4. CASE op.type = "remove"
  BY <1>1, <1>2, <1>4, ClusterSteps DEF Replicated!RemoveSteps
<1> QED BY <1>3, <1>4

-----------------------------------------------------------------------------
(* Metadata commands.                                                      *)

\* A command of the leader is applied.
LEMMA ApplyKeeps ==
  ASSUME MInv, NEW n \in Nodes, leader = n, NEW q \in Procs,
         NEW c \in Submissions \cup {NoChange}, c = change[n],
         NEW o \in RealOps, op' = o, members' \subseteq Nodes,
         proc' = [proc EXCEPT ![n] = q],
         q.pc \notin {"idle", "activate"} => q.op \in RealOps, q.pc # "changing",
         config' = config, gate' = gate, UNCHANGED <<leader, change, unjoined>>,
         fresh' \subseteq synced', synced' \subseteq synced,
         pending' \in [Nodes -> SUBSET Nodes],
         budget' \in Budgets, budget'.pauses = budget.pauses,
         StepInv => /\ RStep /\ members' \cap unjoined = {}
                    /\ o.type = "join" => o.phase # "removed"
                    /\ o.type = "remove" => o.phase \in {"prepared", "removed", "completed"}
                    /\ Call(q, c)' /\ (c # NoChange => Submitted(c)')
  PROVE  Good
<1>0. TypeInv
  BY DEF MInv
<1>1. /\ config' \in [Nodes -> Suffrages] /\ op' \in RealOps \cup {NoOp}
      /\ gate' \in 1..2 /\ leader' \in Nodes \cup {NoNode} /\ unjoined' = unjoined
      /\ change' = [change EXCEPT ![n] = c]
  BY <1>0, CallFields DEF TypeInv
<1>2. TypeInv'
  BY <1>0, <1>1, TypeStep
<1> SUFFICES ASSUME Unpaused' PROVE Unpaused /\ StepInv' /\ RStep /\ Staged
  BY <1>2 DEF Good
<1>3. Unpaused /\ StepInv
  BY DEF Unpaused, MInv
<1>4. Replicated!IInv'
  BY <1>3, RStepKeeps DEF StepInv, ClusterInv
<1>5. Voters' = Voters
  BY DEF Voters
<1>6. ClusterInv'
  BY <1>3, <1>4, <1>5 DEF StepInv, ClusterInv, VotersSupportGate, Supports
<1>7. ASSUME NEW m \in Nodes, leader' = m PROVE LeaderInv(m)'
  <2>1. proc'[n] = q /\ change'[n] = c
    <3>1. proc \in [Nodes -> Procs]
      BY <1>0 DEF TypeInv
    <3>2. proc'[n] = q
      BY <3>1
    <3> QED BY <3>2
  <2>2. m = n
    BY <1>7
  <2> QED BY <1>3, <2>1, <2>2 DEF LeaderInv
<1>8. Staged
  BY DEF Staged
<1> QED BY <1>3, <1>6, <1>7, <1>8 DEF StepInv

\* A call that has returned knows nothing afterwards either.
LEMMA IdleCallNext == \A c : Call(Idle, c)'
BY Values DEF Call, Beginning, Reconciling, Joining, Removing

\* A command is not applied, and its call returns.
LEMMA NotApplied ==
  ASSUME MInv, NEW n \in Nodes, StandsStill,
         proc' = [proc EXCEPT ![n] = Idle], UNCHANGED <<leader, change, unjoined>>,
         synced' = synced, fresh' \subseteq synced',
         pending' \in [Nodes -> SUBSET Nodes],
         budget' \in Budgets, budget'.pauses = budget.pauses
  PROVE  Good
BY Values, IdleCall, GoKeeps

\* beginMembershipOperation
LEMMA BeginKeeps ==
  ASSUME MInv, NEW n \in Nodes, BeginOperation(n)
  PROVE  Good
<1>0. TypeInv
  BY DEF MInv
<1>1. /\ proc[n].pc = "begin" /\ proc' = [proc EXCEPT ![n] = Idle]
      /\ UNCHANGED <<leader, change, unjoined>>
      /\ pending' \in [Nodes -> SUBSET Nodes] /\ members \in SUBSET Nodes
      /\ fresh \subseteq synced /\ budget \in Budgets
  BY <1>0, CallFields DEF BeginOperation, TypeInv
<1> PICK o \in RealOps : o = proc[n].op
  BY <1>0, <1>1, CallFields
<1>2. CASE Active /\ UNCHANGED <<replicated, fresh, synced, budget>>
  BY <1>1, <1>2, NotApplied DEF replicated, StandsStill
<1>3. CASE ~Active /\ (PutSucceeds(n, o, members) \/ PutFails(n, o, members))
  <2>1. /\ budget' \in Budgets /\ budget'.pauses = budget.pauses
        /\ config' = config /\ gate' = gate /\ members' \subseteq Nodes
        /\ fresh' \subseteq synced' /\ synced' \subseteq synced
        /\ \/ leader = n /\ op' = o /\ members' = members /\ synced' = {}
           \/ op' = op /\ members' = members /\ synced' = synced
    BY <1>0, <1>1, <1>3, PutTypes
  <2>2. CASE op' = op /\ members' = members /\ synced' = synced
    BY <1>1, <2>1, <2>2, NotApplied DEF StandsStill
  <2>3. CASE leader = n /\ op' = o /\ members' = members /\ synced' = {}
    <3> PICK c \in Submissions \cup {NoChange} : c = change[n]
      BY <1>0, CallFields
    <3>1. ASSUME StepInv
          PROVE  /\ RStep /\ members' \cap unjoined = {} /\ o.phase = "prepared"
                 /\ Call(Idle, c)' /\ (c # NoChange => Submitted(c)')
      <4>1. Call(proc[n], c) /\ (c # NoChange => Submitted(c)) /\ ClusterInv
        BY <1>0, <2>3, <3>1, LeadersCall
      <4>2. /\ o.phase = "prepared"
            /\ o.type = "join" => o.node \in Joiners \ members /\ o.node \in unjoined
            /\ o.type = "remove" => /\ o.node \in members
                                    /\ Cardinality(members) > Cardinality(Founders)
        BY <1>1, <4>1 DEF Call, Beginning
      <4>3. RStep
        BY <1>0, <1>3, <2>1, <2>3, <4>2, MapBegin
      <4>4. c # NoChange => Submitted(c)'
        BY <1>1, <1>3, <2>1, <2>3, <4>1, <4>2 DEF Submitted, Active
      <4> QED BY <2>3, <4>1, <4>2, <4>3, <4>4, IdleCallNext DEF ClusterInv
    <3> QED BY <1>1, <2>1, <2>3, <3>1, Values, ApplyKeeps
  <2> QED BY <2>1, <2>2, <2>3
<1> QED BY <1>2, <1>3 DEF BeginOperation

\* What a change can still do once the operation moves to another phase.
LEMMA SubmittedInPhase ==
  ASSUME Active, NEW o \in RealOps, op' = o, o.type = op.type, o.node = op.node,
         o.phase # "completed", config' = config, unjoined' = unjoined,
         NEW c, Submitted(c), ~(c.to = "voter" /\ config[c.node] # "voter")
  PROVE  Submitted(c)'
BY DEF Submitted, Active

\* What a call finds that is about to record a phase, and what it knows next.
LEMMA RecordCall ==
  ASSUME TypeInv, StepInv, NEW n \in Nodes, leader = n,
         proc[n].pc \in {"nonvoter", "caughtup", "voter", "removed"},
         NEW c, c = change[n], NEW o \in RealOps, op' = o,
         o = [proc[n].op EXCEPT !.phase = proc[n].pc],
         config' = config, gate' = gate, members' = members, unjoined' = unjoined,
         NEW q \in Procs, q.op = o, q.gate = proc[n].gate,
         q.pc = Recording[proc[n].pc]
  PROVE  /\ RStep
         /\ o.type = "join" => o.phase # "removed"
         /\ o.type = "remove" => o.phase \in {"prepared", "removed", "completed"}
         /\ Call(q, c)' /\ (c # NoChange => Submitted(c)')
<1>1. Call(proc[n], c) /\ (c # NoChange => Submitted(c)) /\ ClusterInv
  BY LeadersCall
<1>2. /\ Active /\ proc[n].op = op /\ proc[n].gate = gate
      /\ op \in RealOps /\ op.type \in {"join", "remove"}
  BY <1>1, CallFields DEF Call, Reconciling, Joining, Removing
<1>3. o = [op EXCEPT !.phase = proc[n].pc] /\ proc[n].pc \in Phases
  BY <1>2 DEF Phases
<1>4. o.type = op.type /\ o.node = op.node /\ o.phase = proc[n].pc
  BY <1>2, <1>3 DEF RealOps
<1>5. Active'
  BY <1>4 DEF Active
<1>6. /\ Recording["nonvoter"] = "catchup" /\ Recording["caughtup"] = "recheck"
      /\ Recording["voter"] = "complete" /\ Recording["removed"] = "complete"
  BY DEF Recording
<1>7. CASE op.type = "join"
  <2>1. /\ proc[n].pc \in {"nonvoter", "caughtup", "voter"}
        /\ JoinCall(proc[n], c) /\ Supports(op.node, gate)
    BY <1>1, <1>2, <1>7 DEF Call, Reconciling, Joining, Removing
  <2>2. /\ proc[n].pc = "nonvoter" =>
             config[op.node] = "nonvoter" /\ op.phase = "prepared" /\ c = NoChange
        /\ proc[n].pc = "caughtup" =>
             config[op.node] = "nonvoter" /\ op.phase \in {"prepared", "nonvoter"}
        /\ proc[n].pc = "voter" => config[op.node] = "voter"
    BY <2>1 DEF JoinCall
  <2>3. RStep
    BY <1>2, <1>3, <1>7, <2>1, <2>2, MapPhase
  <2>4. ASSUME c # NoChange PROVE ~(c.to = "voter" /\ config[c.node] # "voter")
    BY <1>1, <2>1, <2>2, <2>4 DEF Submitted
  <2>5. c # NoChange => Submitted(c)'
    BY <1>1, <1>2, <1>4, <2>1, <2>4, SubmittedInPhase
  <2>6. op'.node = op.node /\ op'.type = "join" /\ op'.phase = proc[n].pc
        /\ config'[op.node] = config[op.node]
    BY <1>4, <1>7
  <2>7. JoinCall(q, c)'
    BY <1>6, <2>1, <2>2, <2>6 DEF JoinCall
  <2>8. Call(q, c)'
    BY <1>2, <1>5, <1>6, <2>1, <2>6, <2>7
    DEF Call, Beginning, Reconciling, Joining, Removing, Supports
  <2> QED BY <1>4, <1>7, <2>1, <2>3, <2>5, <2>8
<1>8. CASE op.type = "remove"
  <2>1. proc[n].pc = "removed" /\ config[op.node] = "absent"
    BY <1>1, <1>2, <1>8 DEF Call, RemoveCall, Reconciling, Joining, Removing
  <2>2. RStep
    BY <1>2, <1>3, <1>8, <2>1, MapPhase
  <2>3. ASSUME c # NoChange PROVE ~(c.to = "voter" /\ config[c.node] # "voter")
    BY <1>1, <1>8, <2>3 DEF Submitted
  <2>4. c # NoChange => Submitted(c)'
    BY <1>1, <1>2, <1>4, <2>1, <2>3, SubmittedInPhase
  <2>5. op'.node = op.node /\ op'.type = "remove" /\ op'.phase = "removed"
        /\ config'[op.node] = config[op.node] /\ q.pc = "complete"
    BY <1>4, <1>6, <1>8, <2>1
  <2>6. Call(q, c)'
    BY <1>2, <1>5, <2>1, <2>5
    DEF Call, Beginning, RemoveCall, Reconciling, Joining, Removing
  <2> QED BY <1>4, <1>8, <2>1, <2>2, <2>4, <2>6
<1> QED BY <1>2, <1>7, <1>8

\* updateMembershipOperation
LEMMA RecordPhaseKeeps ==
  ASSUME MInv, NEW n \in Nodes, RecordPhase(n)
  PROVE  Good
<1>0. TypeInv
  BY DEF MInv
<1>1. /\ proc[n].pc \in {"nonvoter", "caughtup", "voter", "removed"}
      /\ UNCHANGED <<leader, change, unjoined>> /\ members \in SUBSET Nodes
      /\ pending \in [Nodes -> SUBSET Nodes]
  BY <1>0 DEF RecordPhase, Recording, TypeInv
<1>2. /\ proc[n] \in Procs /\ proc[n].op \in RealOps /\ proc[n].pc \in Phases
      /\ Recording[proc[n].pc] \in {"catchup", "recheck", "complete"}
  BY <1>0, <1>1, CallFields DEF Phases, Recording
<1>3. PICK o \in RealOps : o = [proc[n].op EXCEPT !.phase = proc[n].pc]
  BY <1>2 DEF RealOps
<1>4. PICK q \in Procs : q = [proc[n] EXCEPT !.op = o, !.pc = Recording[proc[n].pc]]
  BY <1>2 DEF Procs, Pcs, Reconciling, Joining
<1>5. /\ q.op = o /\ q.pc = Recording[proc[n].pc] /\ q.gate = proc[n].gate
      /\ q.pc \in {"catchup", "recheck", "complete"}
  BY <1>2, <1>4 DEF Procs
<1>6. PutSucceeds(n, o, members) \/ PutFails(n, o, members)
  BY <1>3 DEF RecordPhase
<1>7. /\ budget' \in Budgets /\ budget'.pauses = budget.pauses
      /\ config' = config /\ gate' = gate /\ members' \subseteq Nodes
      /\ fresh' \subseteq synced' /\ synced' \subseteq synced
      /\ \/ leader = n /\ op' = o /\ members' = members /\ synced' = {}
         \/ op' = op /\ members' = members /\ synced' = synced
  BY <1>0, <1>1, <1>6, PutTypes
<1> PICK c \in Submissions \cup {NoChange} : c = change[n]
  BY <1>0, CallFields
<1>8. ASSUME StepInv, leader = n, op' = o, members' = members
      PROVE  /\ RStep /\ members' \cap unjoined = {}
             /\ o.type = "join" => o.phase # "removed"
             /\ o.type = "remove" => o.phase \in {"prepared", "removed", "completed"}
             /\ Call(q, c)' /\ (c # NoChange => Submitted(c)')
  <2>1. members \cap unjoined = {}
    BY <1>8 DEF StepInv, ClusterInv
  <2>2. unjoined' = unjoined
    BY <1>1
  <2> QED BY <1>0, <1>1, <1>3, <1>5, <1>7, <1>8, <2>1, <2>2, RecordCall
<1>9. CASE PutSucceeds(n, o, members) /\ proc' = [proc EXCEPT ![n] = q]
           /\ pending' \in [Nodes -> SUBSET Nodes]
  <2>1. leader = n /\ op' = o /\ members' = members
    BY <1>9 DEF PutSucceeds, Apply
  <2>2. q.pc # "changing"
    BY <1>5
  <2> QED BY <1>1, <1>5, <1>7, <1>8, <1>9, <2>1, <2>2, ApplyKeeps
<1>10. CASE Return(n)
  <2>1. proc' = [proc EXCEPT ![n] = Idle] /\ pending' \in [Nodes -> SUBSET Nodes]
    BY <1>0, <1>10, ReturnTypes
  <2>2. CASE op' = op /\ members' = members /\ synced' = synced
    BY <1>1, <1>7, <2>1, <2>2, NotApplied DEF StandsStill
  <2>3. CASE leader = n /\ op' = o /\ members' = members
    BY <1>1, <1>7, <1>8, <2>1, <2>3, Values, IdleCallNext, ApplyKeeps
  <2> QED BY <1>7, <2>2, <2>3
<1>11. CASE /\ PutSucceeds(n, o, members)
            /\ proc' = [proc EXCEPT ![n].op = o, ![n].pc = Recording[@]]
            /\ pending' = IF o.phase = "removed"
                          THEN [pending EXCEPT ![n] = @ \ {o.node}] ELSE pending
  <2>1. proc' = [proc EXCEPT ![n] = q]
    BY <1>4, <1>11
  <2>2. pending' \in [Nodes -> SUBSET Nodes]
    BY <1>1, <1>11
  <2> QED BY <1>9, <1>11, <2>1, <2>2
<1> QED BY <1>3, <1>10, <1>11 DEF RecordPhase

\* The last command.
LEMMA CompleteOperationKeeps ==
  ASSUME MInv, NEW n \in Nodes, CompleteOperation(n)
  PROVE  Good
<1>0. TypeInv
  BY DEF MInv
<1>1. /\ proc[n].pc = "complete" /\ UNCHANGED <<leader, change, unjoined>>
      /\ members \in SUBSET Nodes /\ Return(n)
  BY <1>0 DEF CompleteOperation, TypeInv
<1>2. proc[n].op \in RealOps /\ "completed" \in Phases
  BY <1>0, <1>1, CallFields DEF Phases
<1>3. PICK o \in RealOps : o = [proc[n].op EXCEPT !.phase = "completed"]
  BY <1>2 DEF RealOps
<1>4. o.type = proc[n].op.type /\ o.node = proc[n].op.node /\ o.phase = "completed"
  BY <1>2, <1>3 DEF RealOps
<1>5. PICK ms \in SUBSET Nodes : ms = NewMembers(o)
  BY <1>1 DEF NewMembers, RealOps
<1>6. PutSucceeds(n, o, ms) \/ PutFails(n, o, ms)
  BY <1>3, <1>5 DEF CompleteOperation
<1>7. /\ budget' \in Budgets /\ budget'.pauses = budget.pauses
      /\ config' = config /\ gate' = gate /\ members' \subseteq Nodes
      /\ fresh' \subseteq synced' /\ synced' \subseteq synced
      /\ \/ leader = n /\ op' = o /\ members' = ms /\ synced' = {}
         \/ op' = op /\ members' = members /\ synced' = synced
  BY <1>0, <1>6, PutTypes
<1>8. proc' = [proc EXCEPT ![n] = Idle] /\ pending' \in [Nodes -> SUBSET Nodes]
  BY <1>0, <1>1, ReturnTypes
<1>9. CASE op' = op /\ members' = members /\ synced' = synced
  BY <1>1, <1>7, <1>8, <1>9, NotApplied DEF StandsStill
<1>10. CASE leader = n /\ op' = o /\ members' = ms
  <2> PICK c \in Submissions \cup {NoChange} : c = change[n]
    BY <1>0, CallFields
  <2>1. ASSUME StepInv
        PROVE  /\ RStep /\ members' \cap unjoined = {}
               /\ Call(Idle, c)' /\ (c # NoChange => Submitted(c)')
    <3>1. Call(proc[n], c) /\ (c # NoChange => Submitted(c)) /\ ClusterInv
      BY <1>0, <1>10, <2>1, LeadersCall
    <3>2. /\ Active /\ proc[n].op = op /\ op.type \in {"join", "remove"}
          /\ op.node \in Nodes
          /\ op.type = "join" => config[op.node] = "voter" /\ op.phase = "voter"
          /\ op.type = "remove" => config[op.node] = "absent" /\ op.phase = "removed"
      BY <1>0, <1>1, <3>1, CallFields
      DEF Call, JoinCall, RemoveCall, Reconciling, Joining, Removing
    <3>3. o = [op EXCEPT !.phase = "completed"] /\ o.node = op.node /\ o.type = op.type
      BY <1>3, <1>4, <3>2
    <3>4. /\ op.type = "join" => members' = members \cup {op.node}
          /\ op.type = "remove" => members' = members \ {op.node}
      BY <1>5, <1>10, <3>3 DEF NewMembers
    <3>5. RStep
      BY <1>0, <1>7, <1>10, <3>2, <3>3, <3>4, MapComplete
    <3>6. op.type = "join" => op.node \notin unjoined
      BY <3>1, <3>2 DEF ClusterInv, Voters
    <3>7. members' \cap unjoined = {}
      BY <3>1, <3>2, <3>4, <3>6 DEF ClusterInv
    <3>8. ~Active'
      BY <1>4, <1>10 DEF Active
    <3>9. ASSUME c # NoChange
          PROVE  /\ c.to # "nonvoter" /\ (c.to = "voter" => config[c.node] = "voter")
                 /\ c.to = "absent" => config[c.node] = "absent" /\ c.node \notin unjoined
      BY <3>1, <3>2, <3>9 DEF Submitted
    <3>10. c # NoChange => Submitted(c)'
      BY <1>1, <1>7, <3>8, <3>9 DEF Submitted
    <3> QED BY <3>5, <3>7, <3>10, IdleCallNext
  <2> QED BY <1>1, <1>4, <1>7, <1>8, <1>10, <2>1, Values, ApplyKeeps
<1> QED BY <1>7, <1>9, <1>10

-----------------------------------------------------------------------------
(* Configuration changes that are committed.                               *)

\* What a change of the leader does when it is committed.
LEMMA CommitEffect ==
  ASSUME TypeInv, ClusterInv, NEW c \in Submissions, Submitted(c),
         config' = Changed(c)
  PROVE  /\ config' \in [Nodes -> Suffrages] /\ config'[c.node] = c.to
         /\ \/ config' = config
            \/ /\ Active /\ op.node = c.node
               /\ config' = [config EXCEPT ![op.node] = c.to]
               /\ \/ /\ op.type = "join" /\ op.node \notin members
                     /\ config[op.node] = "absent" /\ c.to = "nonvoter"
                  \/ /\ op.type = "join" /\ config[op.node] = "nonvoter"
                     /\ op.phase = "caughtup" /\ c.to = "voter"
                     /\ op.node \in synced /\ Supports(op.node, gate)
                  \/ /\ op.type = "remove" /\ config[op.node] # "absent"
                     /\ c.to = "absent"
<1>1. /\ c.node \in Nodes /\ c.to \in Suffrages /\ config \in [Nodes -> Suffrages]
      /\ config[c.node] \in Suffrages
  BY DEF TypeInv, Submissions
<1>2. config' = [config EXCEPT ![c.node] = c.to]
  BY DEF Changed, Submitted
<1>3. config' \in [Nodes -> Suffrages] /\ config'[c.node] = c.to
  BY <1>1, <1>2
<1>4. CASE config[c.node] = c.to
  <2>1. config' = config
    BY <1>1, <1>2, <1>4
  <2> QED BY <1>3, <2>1
<1>5. CASE config[c.node] # c.to
  <2>1. CASE c.to = "nonvoter"
    BY <1>1, <1>2, <1>3, <1>5, <2>1, ClusterFacts DEF Submitted, Suffrages
  <2>2. CASE c.to = "voter"
    BY <1>1, <1>2, <1>3, <1>5, <2>2 DEF Submitted
  <2>3. CASE c.to = "absent"
    BY <1>1, <1>2, <1>3, <1>5, <2>3 DEF Submitted
  <2> QED BY <1>1, <2>1, <2>2, <2>3 DEF Suffrages
<1> QED BY <1>4, <1>5

\* It is a step of MembershipSpec, and the new voter supports the gate.
LEMMA CommitSteps ==
  ASSUME TypeInv, ClusterInv, NEW c \in Submissions, Submitted(c),
         config' = Changed(c),
         op' = op, members' = members, gate' = gate, unjoined' = unjoined
  PROVE  ClusterInv' /\ RStep /\ Staged
<1>1. CASE config' = config
  BY <1>1, StillCluster DEF StandsStill
<1>2. CASE config' # config
  <2> DEFINE u == c.to
  <2>1. /\ Active /\ op.node = c.node /\ config' = [config EXCEPT ![op.node] = u]
        /\ \/ op.type = "join" /\ config[op.node] = "absent" /\ u = "nonvoter"
           \/ /\ op.type = "join" /\ config[op.node] = "nonvoter"
              /\ op.phase = "caughtup" /\ u = "voter"
              /\ op.node \in synced /\ Supports(op.node, gate)
           \/ op.type = "remove" /\ config[op.node] # "absent" /\ u = "absent"
    BY <1>2, CommitEffect
  <2> HIDE DEF u
  <2>2. RStep
    BY <2>1, MapSuffrage
  <2>3. Replicated!IInv'
    BY <2>2, RStepKeeps DEF ClusterInv
  <2>4. config \in [Nodes -> Suffrages] /\ op.node \in Nodes
        /\ synced \cap unjoined = {} /\ Joiners \subseteq Nodes
    BY <2>1, Values DEF TypeInv, Submissions
  <2>5. /\ \A m \in Nodes : m # op.node => config'[m] = config[m]
        /\ config'[op.node] = u
    BY <2>1, <2>4
  <2>6. \A m \in Voters' : m \in Voters \/ (/\ m \in synced /\ m = op.node
                                            /\ Supports(m, gate))
    BY <2>1, <2>5 DEF Voters
  <2>7. Staged
    BY <2>1, <2>4, <2>5 DEF Staged
  <2>8. VotersSupportGate'
    BY <2>6 DEF ClusterInv, VotersSupportGate, Supports
  <2>9. Voters' \cap unjoined' = {}
    BY <2>4, <2>6 DEF ClusterInv
  <2> QED BY <2>2, <2>3, <2>7, <2>8, <2>9 DEF ClusterInv
<1> QED BY <1>1, <1>2

\* The call that waits for the change goes on.
LEMMA AfterCommit ==
  ASSUME TypeInv, ClusterInv, NEW c \in Submissions, Submitted(c),
         config' = Changed(c),
         op' = op, members' = members, gate' = gate, unjoined' = unjoined,
         NEW p \in Procs, Call(p, c), p.pc = "changing",
         NEW q, q.op = p.op, q.gate = p.gate,
         \/ c.to = "nonvoter" /\ q.pc = "nonvoter"
         \/ c.to = "voter" /\ q.pc = "voter"
         \/ c.to = "absent" /\ p.op.phase = "removed" /\ q.pc = "complete"
         \/ c.to = "absent" /\ p.op.phase # "removed" /\ q.pc = "removed"
  PROVE  Call(q, NoChange)'
<1>1. /\ Active /\ p.op = op /\ p.gate = gate /\ c.node = op.node
      /\ op.type = "join" => JoinCall(p, c) /\ Supports(op.node, gate)
      /\ op.type = "remove" => RemoveCall(p, c)
  BY DEF Call, Reconciling
<1>2. op.type \in {"join", "remove"}
  BY <1>1, Values DEF TypeInv, Active, RealOps
<1>3. config'[op.node] = c.to
  BY <1>1, CommitEffect
<1>4. Active'
  BY <1>1 DEF Active
<1>5. CASE op.type = "join"
  <2>1. c.to \in {"nonvoter", "voter"} /\ (c.to = "nonvoter" => op.phase = "prepared")
    BY <1>1, <1>5 DEF JoinCall
  <2>2. JoinCall(q, NoChange)'
    BY <1>3, <2>1 DEF JoinCall
  <2> QED BY <1>1, <1>4, <1>5, <2>1, <2>2
          DEF Call, Beginning, Reconciling, Joining, Removing, Supports
<1>6. CASE op.type = "remove"
  <2>1. c.to = "absent"
    BY <1>1, <1>6 DEF RemoveCall
  <2>2. RemoveCall(q, NoChange)'
    BY <1>1, <1>3, <2>1 DEF RemoveCall
  <2> QED BY <1>1, <1>4, <1>6, <2>1, <2>2
          DEF Call, Beginning, Reconciling, Joining, Removing
<1> QED BY <1>2, <1>5, <1>6

\* A call that does not wait for it knows what it knew.
LEMMA BesideCommit ==
  ASSUME TypeInv, ClusterInv, NEW c \in Submissions, Submitted(c),
         config' = Changed(c), op' = op, members' = members, gate' = gate,
         unjoined' = unjoined, synced' = synced,
         NEW p \in Procs, Call(p, c), p.pc # "changing"
  PROVE  Call(p, NoChange)'
<1>1. CASE config' = config
  <2>1. Call(p, c)'
    BY <1>1, StillTrue DEF StandsStill
  <2> QED BY <2>1 DEF Call, JoinCall, RemoveCall
<1>2. CASE config' # config
  <2>1. /\ Active /\ op.node = c.node /\ config'[op.node] = c.to
        /\ \/ op.type = "join" /\ config[op.node] = "absent" /\ c.to = "nonvoter"
           \/ /\ op.type = "join" /\ config[op.node] = "nonvoter"
              /\ op.phase = "caughtup" /\ c.to = "voter"
           \/ op.type = "remove" /\ config[op.node] # "absent" /\ c.to = "absent"
    BY <1>2, CommitEffect
  <2>2. Active'
    BY <2>1 DEF Active
  <2>3. c # NoChange
    BY Values
  <2>4. p.pc \notin {"prepare", "begin", "activate"}
    BY <2>1 DEF Call, Beginning
  <2>5. CASE op.type = "join" /\ p.pc \in Reconciling
    <3>1. JoinCall(p, c) /\ p.pc \notin Removing /\ Supports(op.node, gate)
      BY <2>5 DEF Call
    <3>2. JoinCall(p, NoChange)'
      BY <2>1, <2>3, <2>5, <3>1 DEF JoinCall
    <3> QED BY <2>2, <2>4, <2>5, <3>1, <3>2 DEF Call, Beginning, Supports
  <2>6. CASE op.type = "remove" /\ p.pc \in Reconciling
    <3>1. RemoveCall(p, c) /\ p.pc \notin Joining
      BY <2>6 DEF Call
    <3>2. RemoveCall(p, NoChange)'
      BY <2>1, <2>6, <3>1 DEF RemoveCall
    <3> QED BY <2>2, <2>4, <2>6, <3>1, <3>2 DEF Call, Beginning
  <2>7. CASE p.pc \notin Reconciling
    BY <2>4, <2>7 DEF Call, Beginning
  <2> QED BY <2>1, <2>5, <2>6, <2>7
<1> QED BY <1>1, <1>2

\* Raft commits a change of its leader.
LEMMA CommitKeeps ==
  ASSUME MInv, NEW n \in Nodes, CommitChange(n)
  PROVE  Good
<1>0. TypeInv
  BY DEF MInv
<1>1. PICK c \in Submissions : c = change[n]
  BY <1>0, CallFields DEF CommitChange
<1>2. /\ leader = n /\ config' = Changed(c) /\ (leader' = n \/ leader' = NoNode)
      /\ op' = op /\ members' = members /\ gate' = gate /\ unjoined' = unjoined
      /\ synced' = synced /\ fresh' \subseteq synced'
      /\ change' = [change EXCEPT ![n] = NoChange] /\ change[n] # NoChange
  BY <1>0, <1>1 DEF CommitChange, TypeInv
<1>3. budget' \in Budgets /\ budget'.pauses = budget.pauses
  BY <1>0, CallFields, Budget DEF CommitChange
<1>4. config' \in [Nodes -> Suffrages]
  <2>1. /\ c.node \in Nodes /\ c.to \in Suffrages /\ config \in [Nodes -> Suffrages]
    BY <1>0 DEF TypeInv, Submissions
  <2> QED BY <1>2, <2>1 DEF Changed
<1>5. PICK p \in Procs : p = proc[n]
  BY <1>0, CallFields
<1>6. \E q \in Procs :
        /\ proc' = [proc EXCEPT ![n] = q] /\ pending' \in [Nodes -> SUBSET Nodes]
        /\ q.pc # "changing" /\ (q.pc \notin {"idle", "activate"} => q.op \in RealOps)
        /\ \/ /\ p.pc = "changing" /\ q.op = p.op /\ q.gate = p.gate
              /\ \/ c.to = "nonvoter" /\ q.pc = "nonvoter"
                 \/ c.to = "voter" /\ q.pc = "voter"
                 \/ c.to = "absent" /\ p.op.phase = "removed" /\ q.pc = "complete"
                 \/ c.to = "absent" /\ p.op.phase # "removed" /\ q.pc = "removed"
           \/ q = Idle
           \/ q = p /\ p.pc # "changing"
  <2>1. CASE p.pc = "changing" /\ Goto(n, AfterChange(n)) /\ UNCHANGED pending
    <3>1. c.to \in Suffrages
      BY DEF Submissions
    <3>2. PICK pc \in Pcs :
            /\ pc = AfterChange(n) /\ pc # "changing"
            /\ \/ c.to = "nonvoter" /\ pc = "nonvoter"
               \/ c.to = "voter" /\ pc = "voter"
               \/ c.to = "absent" /\ p.op.phase = "removed" /\ pc = "complete"
               \/ c.to = "absent" /\ p.op.phase # "removed" /\ pc = "removed"
      <4>1. {"nonvoter", "voter", "complete", "removed"} \subseteq Pcs
        BY DEF Pcs, Reconciling, Joining, Removing
      <4>2. CASE c.to = "nonvoter"
        BY <1>1, <4>1, <4>2 DEF AfterChange
      <4>3. CASE c.to = "voter"
        BY <1>1, <4>1, <4>3 DEF AfterChange
      <4>4. CASE c.to = "absent" /\ p.op.phase = "removed"
        BY <1>1, <1>5, <4>1, <4>4 DEF AfterChange
      <4>5. CASE c.to = "absent" /\ p.op.phase # "removed"
        BY <1>1, <1>5, <4>1, <4>5 DEF AfterChange
      <4> QED BY <3>1, <4>2, <4>3, <4>4, <4>5 DEF Suffrages
    <3>3. Goto(n, pc)
      BY <2>1, <3>2
    <3> PICK q \in Procs : /\ proc' = [proc EXCEPT ![n] = q]
                           /\ q.pc = pc /\ q.op = proc[n].op /\ q.gate = proc[n].gate
      BY <1>0, <3>3, GotoCall
    <3>4. q.op \in RealOps /\ pending' \in [Nodes -> SUBSET Nodes]
      BY <1>0, <1>5, <2>1, CallFields
    <3> QED BY <1>5, <2>1, <3>2, <3>4
  <2>2. CASE Return(n)
    <3>1. proc' = [proc EXCEPT ![n] = Idle] /\ pending' \in [Nodes -> SUBSET Nodes]
      BY <1>0, <2>2, ReturnTypes
    <3> QED BY <3>1, Values
  <2>3. CASE p.pc # "changing" /\ UNCHANGED <<proc, pending>>
    <3>1. proc' = [proc EXCEPT ![n] = p] /\ pending' \in [Nodes -> SUBSET Nodes]
          /\ (p.pc \notin {"idle", "activate"} => p.op \in RealOps)
      BY <1>0, <1>5, <2>3, CallFields
    <3> QED BY <2>3, <3>1
  <2> QED BY <1>5, <2>1, <2>2, <2>3 DEF CommitChange
<1> PICK q \in Procs :
        /\ proc' = [proc EXCEPT ![n] = q] /\ pending' \in [Nodes -> SUBSET Nodes]
        /\ q.pc # "changing" /\ (q.pc \notin {"idle", "activate"} => q.op \in RealOps)
        /\ \/ /\ p.pc = "changing" /\ q.op = p.op /\ q.gate = p.gate
              /\ \/ c.to = "nonvoter" /\ q.pc = "nonvoter"
                 \/ c.to = "voter" /\ q.pc = "voter"
                 \/ c.to = "absent" /\ p.op.phase = "removed" /\ q.pc = "complete"
                 \/ c.to = "absent" /\ p.op.phase # "removed" /\ q.pc = "removed"
           \/ q = Idle
           \/ q = p /\ p.pc # "changing"
  BY <1>6
<1>7. TypeInv'
  <2>1. /\ op' \in RealOps \cup {NoOp} /\ members' \subseteq Nodes /\ gate' \in 1..2
        /\ leader' \in Nodes \cup {NoNode} /\ synced' \subseteq synced
        /\ NoChange \in Submissions \cup {NoChange}
    BY <1>0, <1>2 DEF TypeInv
  <2> QED BY <1>0, <1>2, <1>3, <1>4, <2>1, TypeStep
<1> SUFFICES ASSUME Unpaused' PROVE Unpaused /\ StepInv' /\ RStep /\ Staged
  BY <1>7 DEF Good
<1>8. Unpaused /\ StepInv
  BY <1>3 DEF Unpaused, MInv
<1>9. Call(p, c) /\ Submitted(c) /\ ClusterInv
  BY <1>0, <1>1, <1>2, <1>5, <1>8, LeadersCall
<1>10. ClusterInv' /\ RStep /\ Staged
  BY <1>0, <1>2, <1>9, CommitSteps
<1>11. Call(q, NoChange)'
  <2>1. CASE p.pc = "changing" /\ q # Idle
    BY <1>0, <1>2, <1>9, <2>1, AfterCommit
  <2>2. CASE q = p /\ p.pc # "changing"
    BY <1>0, <1>2, <1>9, <2>2, BesideCommit
  <2>3. CASE q = Idle
    BY <2>3, IdleCallNext
  <2> QED BY <2>1, <2>2, <2>3
<1>12. ASSUME NEW m \in Nodes, leader' = m PROVE LeaderInv(m)'
  <2>1. m = n
    BY <1>2, <1>12, Values
  <2>2. proc'[n] = q /\ change'[n] = NoChange
    BY <1>0, <1>2 DEF TypeInv
  <2>3. Call(proc[n], change[n])'
    BY <1>11, <2>2
  <2> QED BY <2>1, <2>2, <2>3 DEF LeaderInv
<1> QED BY <1>8, <1>10, <1>12 DEF StepInv

-----------------------------------------------------------------------------
(* The gate, elections and replication.                                    *)

\* The gate is activated.
LEMMA FinishActivationKeeps ==
  ASSUME MInv, NEW n \in Nodes, FinishActivation(n)
  PROVE  Good
<1>0. TypeInv
  BY DEF MInv
<1>1. /\ proc[n].pc = "activate" /\ proc' = [proc EXCEPT ![n] = Idle]
      /\ config' = config /\ op' = op /\ members' = members
      /\ leader' = leader /\ UNCHANGED <<change, synced, unjoined>>
      /\ fresh' \subseteq synced' /\ pending' \in [Nodes -> SUBSET Nodes]
  BY <1>0 DEF FinishActivation, TypeInv
<1>2. budget' \in Budgets /\ budget'.pauses = budget.pauses
  BY <1>0, CallFields, Budget DEF FinishActivation
<1>3. CASE gate' = gate
  BY <1>1, <1>2, <1>3, NotApplied DEF StandsStill
<1>4. CASE leader = n /\ gate' = 2
  <2> PICK c \in Submissions \cup {NoChange} : c = change[n]
    BY <1>0, CallFields
  <2>1. change' = [change EXCEPT ![n] = c]
    BY <1>0, <1>1, CallFields
  <2>2. TypeInv'
    <3>1. /\ config' \in [Nodes -> Suffrages] /\ op' \in RealOps \cup {NoOp}
          /\ members' \subseteq Nodes /\ gate' \in 1..2 /\ synced' \subseteq synced
          /\ leader' \in Nodes \cup {NoNode} /\ unjoined' = unjoined
      BY <1>0, <1>1, <1>4 DEF TypeInv
    <3> QED BY <1>0, <1>1, <1>2, <2>1, <3>1, Values, TypeStep
  <2> SUFFICES ASSUME Unpaused' PROVE Unpaused /\ StepInv' /\ RStep /\ Staged
    BY <2>2 DEF Good
  <2>3. Unpaused /\ StepInv
    BY <1>2 DEF Unpaused, MInv
  <2>4. Call(proc[n], c) /\ (c # NoChange => Submitted(c)) /\ ClusterInv
    BY <1>0, <1>4, <2>3, LeadersCall
  <2>5. ~Active /\ Voters \subseteq Modern
    BY <1>1, <2>4 DEF Call, Beginning
  <2>6. RStep /\ Staged
    BY <1>1 DEF RStep, Cluster, Staged
  <2>7. Replicated!IInv'
    BY <2>4, <2>6, RStepKeeps DEF ClusterInv
  <2>8. Voters' = Voters /\ ~Active'
    BY <1>1, <2>5 DEF Voters, Active
  <2>9. ClusterInv'
    BY <1>1, <2>4, <2>5, <2>7, <2>8 DEF ClusterInv, VotersSupportGate, Supports
  <2>10. c # NoChange => Submitted(c)'
    BY <1>1, <2>4, <2>5, <2>8 DEF Submitted
  <2>11. ASSUME NEW m \in Nodes, leader' = m PROVE LeaderInv(m)'
    <3>1. m = n
      BY <1>1, <1>4, <2>11
    <3>2. proc'[n] = Idle /\ change'[n] = c
      BY <1>0, <1>1 DEF TypeInv
    <3> QED BY <2>10, <3>1, <3>2, IdleCallNext DEF LeaderInv
  <2> QED BY <2>3, <2>6, <2>9, <2>11 DEF StepInv
<1> QED BY <1>3, <1>4 DEF FinishActivation

\* What an election costs.
LEMMA ElectionCost ==
  ASSUME TypeInv, NEW n \in Nodes, Elect(n)
  PROVE  /\ budget' \in Budgets
         /\ Unpaused' => Unpaused /\ proc[n] = Idle
<1>1. /\ budget.faults \in 0..MaxFaults /\ budget.pauses \in 0..MaxPauses
      /\ MaxPauses \in Nat /\ MaxFaults \in Nat /\ budget \in Budgets
  BY MembershipAssumption DEF TypeInv, Budgets
<1> DEFINE f == budget.faults - IF leader # NoNode THEN 1 ELSE 0
           p == budget.pauses - IF proc[n] # Idle THEN 1 ELSE 0
<1>2. budget' = [budget EXCEPT !.faults = f, !.pauses = p]
  BY DEF Elect
<1>3. f \in 0..MaxFaults /\ p \in 0..MaxPauses /\ (proc[n] # Idle => p < MaxPauses)
      /\ (p = MaxPauses => budget.pauses = MaxPauses)
  BY <1>1 DEF Elect
<1> HIDE DEF f, p
<1>4. budget' \in Budgets /\ budget'.pauses = p
  BY <1>1, <1>2, <1>3 DEF Budgets
<1> QED BY <1>1, <1>3, <1>4 DEF Unpaused

\* Raft elects a leader.
LEMMA ElectKeeps ==
  ASSUME MInv, NEW n \in Nodes, Elect(n)
  PROVE  Good
<1>0. TypeInv
  BY DEF MInv
<1>1. /\ StandsStill /\ UNCHANGED <<proc, change, synced, unjoined>>
      /\ fresh' \subseteq synced' /\ pending' \in [Nodes -> SUBSET Nodes]
      /\ leader' = n /\ change[n] = NoChange
  BY <1>0 DEF Elect, StandsStill, replicated, TypeInv
<1>2. budget' \in Budgets /\ (Unpaused' => Unpaused /\ proc[n] = Idle)
  BY <1>0, ElectionCost
<1>3. TypeInv'
  BY <1>0, <1>1, <1>2 DEF TypeInv, StandsStill
<1> SUFFICES ASSUME Unpaused' PROVE Unpaused /\ StepInv' /\ RStep /\ Staged
  BY <1>3 DEF Good
<1>4. Unpaused /\ StepInv /\ proc[n] = Idle
  BY <1>2 DEF MInv
<1>5. ClusterInv' /\ RStep /\ Staged
  BY <1>1, <1>4, StillCluster DEF StepInv
<1>6. ASSUME NEW m \in Nodes, leader' = m PROVE LeaderInv(m)'
  <2>1. m = n /\ proc'[m] = Idle /\ change'[m] = NoChange
    BY <1>1, <1>4, <1>6
  <2> QED BY <2>1, IdleCallNext DEF LeaderInv
<1> QED BY <1>4, <1>5, <1>6 DEF StepInv

\* A node that is no member is in no configuration while nothing is active.
LEMMA OutsidersAreAbsent ==
  ASSUME TypeInv, ClusterInv, ~Active, NEW m \in Nodes, m \notin members
  PROVE  config[m] = "absent"
<1>1. Replicated!ClusterTypeOK /\ Replicated!MembersFollowRaft
  BY DEF ClusterInv, Replicated!IInv
<1>2. ~Replicated!Active([config |-> config, members |-> members,
              op |-> [type |-> op.type, node |-> op.node, phase |-> op.phase]])
  BY DEF Active, Replicated!Active
<1>3. m \in Replicated!Nodes
  BY DEF Nodes, Replicated!Nodes
<1> QED BY <1>1, <1>2, <1>3, Replicated!InactiveAgrees, MembershipAssumption, SameSets
        DEF Nodes

\* The joining node receives the log.
LEMMA ReplicateKeeps ==
  ASSUME MInv, NEW j \in Joiners, Replicate(j)
  PROVE  Good
<1>0. TypeInv
  BY DEF MInv
<1>1. /\ StandsStill /\ UNCHANGED <<leader, proc, change, pending, budget>>
      /\ fresh' = fresh \cup {j} /\ synced' = synced \cup {j}
      /\ unjoined' = unjoined \ {j} /\ config[j] # "absent"
  BY DEF Replicate, StandsStill, replicated
<1>2. TypeInv'
  BY <1>0, <1>1 DEF TypeInv, StandsStill
<1> SUFFICES ASSUME Unpaused' PROVE Unpaused /\ StepInv' /\ RStep /\ Staged
  BY <1>2 DEF Good
<1>3. Unpaused /\ StepInv
  BY <1>1 DEF Unpaused, MInv
<1>4. ClusterInv' /\ RStep /\ Staged
  BY <1>1, <1>3, StillCluster DEF StepInv
<1>5. ASSUME NEW m \in Nodes, leader' = m PROVE LeaderInv(m)'
  <2> PICK p, c : p = proc[m] /\ c = change[m]
    OBVIOUS
  <2>1. proc'[m] = p /\ change'[m] = c /\ leader = m
    BY <1>1, <1>5
  <2>2. Call(p, c) /\ (c # NoChange => Submitted(c)) /\ ClusterInv
    BY <1>0, <1>3, <2>1, LeadersCall
  <2>3. /\ Voters' = Voters /\ (Active' <=> Active)
        /\ config' = config /\ op' = op /\ members' = members /\ gate' = gate
    BY <1>1 DEF StandsStill, Voters, Active
  <2>4. ASSUME p.pc \in {"prepare", "begin"}, p.op.type = "join"
        PROVE  p.op.node # j
    <3>1. ~Active /\ p.op.node \in Joiners \ members
      BY <2>2, <2>4 DEF Call, Beginning
    <3>2. p.op.node \in Nodes
      BY <3>1, Values
    <3> QED BY <1>0, <1>1, <2>2, <3>1, <3>2, OutsidersAreAbsent
  <2>5. Beginning(p)'
    BY <1>1, <2>2, <2>3, <2>4 DEF Call, Beginning
  <2>6. (JoinCall(p, c) => JoinCall(p, c)') /\ (RemoveCall(p, c) => RemoveCall(p, c)')
    BY <1>1, <2>3 DEF JoinCall, RemoveCall
  <2>7. Call(p, c)'
    BY <2>2, <2>3, <2>5, <2>6 DEF Call, Supports
  <2>8. c # NoChange => Submitted(c)'
    BY <1>1, <2>2, <2>3 DEF Submitted, Supports
  <2> QED BY <2>1, <2>7, <2>8 DEF LeaderInv
<1> QED BY <1>3, <1>4, <1>5 DEF StepInv

-----------------------------------------------------------------------------
(* The invariant.                                                          *)

\* The initial state has everything.
LEMMA InitHolds == Init => MInv
<1> SUFFICES ASSUME Init PROVE MInv
  OBVIOUS
<1>1. TypeInv
  <2>1. Idle \in Procs /\ Idle.pc = "idle" /\ Founders \subseteq Nodes
        /\ Joiners \subseteq Nodes
    BY Values
  <2>2. config \in [Nodes -> Suffrages]
    BY DEF Init, Suffrages
  <2>3. budget \in Budgets
    BY MembershipAssumption DEF Init, Budgets
  <2>4. proc \in [Nodes -> Procs] /\ \A n \in Nodes : proc[n].pc = "idle"
    BY <2>1 DEF Init
  <2>5. change \in [Nodes -> Submissions \cup {NoChange}]
        /\ pending \in [Nodes -> SUBSET Nodes]
    BY DEF Init
  <2> QED BY <2>1, <2>2, <2>3, <2>4, <2>5 DEF Init, TypeInv
<1>2. Replicated!IInv
  <2>1. Replicated!Init
    BY DEF Init, NoOp, Op, Replicated!Init, Replicated!Bootstrapped,
           Replicated!NoOperation, Nodes, Replicated!Nodes
  <2> QED BY <2>1, Replicated!InitInvariant, MembershipAssumption, SameSets DEF Nodes
<1>3. ClusterInv
  <2>1. op.type = "none" /\ gate = 1 /\ members = Founders /\ unjoined = Joiners
    BY DEF Init, NoOp, Op
  <2>2. Voters = Founders
    BY Values DEF Init, Voters
  <2> QED BY <1>2, <2>1, <2>2, MembershipAssumption
          DEF ClusterInv, VotersSupportGate, Supports
<1>4. \A n \in Nodes : leader # n
  BY Values DEF Init
<1> QED BY <1>1, <1>3, <1>4 DEF MInv, StepInv

\* Every step is good.
LEMMA StepHolds == MInv /\ [Next]_vars => Good
<1> SUFFICES ASSUME MInv, [Next]_vars PROVE Good
  OBVIOUS
<1>1. ASSUME NEW n \in Nodes, Step(n) PROVE Good
  BY <1>1, PrepareKeeps, BeginKeeps, ReconcileKeeps, RecordPhaseKeeps,
     CompleteOperationKeeps, CatchUpKeeps, FailuresKeep, ChangeKeeps, CommitKeeps,
     DropKeeps, FinishActivationKeeps DEF Step
<1>2. ASSUME NEW n \in Nodes,
             AbandonChange(n) \/ Elect(n) \/ Crash(n) \/ ActivateCapabilities(n)
      PROVE  Good
  BY <1>2, FailuresKeep, ElectKeeps, CrashKeeps, ActivateKeeps
<1>3. ASSUME NEW n \in Nodes, NEW j \in Nodes, JoinVoter(n, j) \/ RemoveServer(n, j)
      PROVE  Good
  BY <1>3, JoinVoterKeeps, RemoveServerKeeps
<1>4. CASE UNCHANGED vars
  <2>1. StandsStill /\ unjoined' = unjoined /\ synced' = synced
    BY <1>4 DEF vars, StandsStill
  <2>2. TypeInv'
    BY <1>4 DEF MInv, TypeInv, vars
  <2>3. ASSUME Unpaused' PROVE Unpaused /\ StepInv' /\ RStep /\ Staged
    <3>1. Unpaused /\ StepInv
      BY <1>4, <2>3 DEF Unpaused, MInv, vars
    <3>2. ClusterInv' /\ RStep /\ Staged
      BY <2>1, <3>1, StillCluster DEF StepInv
    <3>3. ASSUME NEW m \in Nodes, leader' = m PROVE LeaderInv(m)'
      <4> PICK p, c : p = proc[m] /\ c = change[m]
        OBVIOUS
      <4>1. proc'[m] = p /\ change'[m] = c /\ leader = m
        BY <1>4, <3>3 DEF vars
      <4>2. Call(p, c) /\ (c # NoChange => Submitted(c))
        BY <3>1, <4>1 DEF StepInv, LeaderInv
      <4>3. Call(p, c)' /\ (c # NoChange => Submitted(c)')
        BY <2>1, <4>2, StillTrue
      <4> QED BY <4>1, <4>3 DEF LeaderInv
    <3> QED BY <3>1, <3>2, <3>3 DEF StepInv
  <2> QED BY <2>2, <2>3 DEF Good
<1> QED BY <1>1, <1>2, <1>3, <1>4, ReplicateKeeps, WriteKeeps DEF Next

\* The invariant holds in every state.
LEMMA Inductive == Spec => []MInv
<1>1. MInv /\ [Next]_vars => MInv'
  BY StepHolds DEF Good, MInv
<1> QED BY <1>1, InitHolds, PTL DEF Spec

-----------------------------------------------------------------------------
(* MembershipSpec under the name of Membership's own instance.             *)

\* The two instances of MembershipSpec take the same steps.
LEMMA SameSteps == Abstract!Next <=> Replicated!Next
<1>1. \A c : Abstract!Active(c) <=> Replicated!Active(c)
  BY DEF Abstract!Active, Replicated!Active
<1>2. \A c : Abstract!JoinSteps(c) = Replicated!JoinSteps(c)
  BY DEF Abstract!JoinSteps, Replicated!JoinSteps, Abstract!WithPhase,
         Replicated!WithPhase, Abstract!WithSuffrage, Replicated!WithSuffrage
<1>3. \A c : Abstract!RemoveSteps(c) = Replicated!RemoveSteps(c)
  BY DEF Abstract!RemoveSteps, Replicated!RemoveSteps, Abstract!WithPhase,
         Replicated!WithPhase, Abstract!WithSuffrage, Replicated!WithSuffrage
<1>4. \A S : Abstract!Cardinality(S) = Replicated!Cardinality(S)
  BY DEF Abstract!Cardinality, Replicated!Cardinality
<1>5. \A c : Abstract!Begun(c) = Replicated!Begun(c)
  BY <1>4 DEF Abstract!Begun, Replicated!Begun, Abstract!Begin, Replicated!Begin,
              Abstract!BootstrapExpect, Replicated!BootstrapExpect
<1> QED BY <1>1, <1>2, <1>3, <1>5
        DEF Abstract!Next, Replicated!Next, Abstract!Steps, Replicated!Steps

\* And what is proved of one holds of the other.
LEMMA SameInvariant == Replicated!IInv => MembersFollowRaft
BY DEF Replicated!IInv, MembersFollowRaft, Abstract!MembersFollowRaft,
       Replicated!MembersFollowRaft, Replicated!Nodes, Abstract!Nodes

-----------------------------------------------------------------------------
(* Results.                                                                *)

(* Every variable has its type, with any number of faults, crashes and     *)
(* nodes that lead again in the middle of a call; a call that waits for a  *)
(* configuration change has one with Raft (node.go:1465-1489).             *)
THEOREM MembershipTypes == Spec => []MembershipTypeOK
<1>1. TypeInv => MembershipTypeOK
  <2> SUFFICES ASSUME TypeInv PROVE MembershipTypeOK
    OBVIOUS
  <2>1. /\ config \in [Nodes -> {"absent", "nonvoter", "voter"}]
        /\ members \subseteq Nodes /\ gate \in 1..2
        /\ leader \in Nodes \cup {NoNode} /\ pending \in [Nodes -> SUBSET Nodes]
        /\ fresh \subseteq synced /\ synced \cup unjoined \subseteq Joiners
    BY DEF TypeInv, Suffrages
  <2>2. /\ DOMAIN Recording = {"nonvoter", "caughtup", "voter", "removed"}
        /\ DOMAIN Changes = {"addNonvoter", "addVoter", "removeServer"}
    BY DEF Recording, Changes
  <2>3. ASSUME NEW n \in Nodes
        PROVE  /\ change[n] = NoChange \/ change[n].node \in Nodes
               /\ proc[n].pc \in {"idle", "prepare", "begin", "catchup", "recheck",
                                  "changing", "complete", "activate"}
                                 \cup DOMAIN Recording \cup DOMAIN Changes
               /\ proc[n].pc \notin {"idle", "activate"} => proc[n].op.node \in Nodes
               /\ proc[n].pc = "changing" => change[n] # NoChange
    BY <2>2, CallFields DEF TypeInv, Pcs, Reconciling, Joining, Removing
  <2> QED BY <2>1, <2>3 DEF MembershipTypeOK
<1> QED BY <1>1, Inductive, PTL DEF MInv

(* Until a node is re-elected in the middle of a call, every voter         *)
(* supports the active gate, whatever fails, times out or crashes and      *)
(* whichever change Raft still commits for a caller that has given up      *)
(* (node.go:596, 606, 1340, 1371).                                         *)
THEOREM VotersAlwaysSupportGate == Spec => [](Unpaused => VotersSupportGate)
<1>1. MInv => (Unpaused => VotersSupportGate)
  BY DEF MInv, StepInv, ClusterInv
<1> QED BY <1>1, Inductive, PTL

(* Until then, the phase that the leaders have recorded never runs ahead   *)
(* of Raft's configuration, and the committed members are the voters but   *)
(* for the node of the operation (node.go:1338-1415).                      *)
THEOREM RecordedPhaseFollowsRaft == Spec => [](Unpaused => MembersFollowRaft)
<1>1. MInv => (Unpaused => MembersFollowRaft)
  BY SameInvariant DEF MInv, StepInv, ClusterInv
<1> QED BY <1>1, Inductive, PTL

(* Until then, no removal, whoever carries it out and however late Raft    *)
(* commits it, leaves fewer than bootstrap_expect voters, although the     *)
(* members are counted only when it begins (node.go:1168).                 *)
THEOREM VotersRemainEnough ==
  Spec => [](Unpaused => Cardinality(Voters) >= Cardinality(Founders))
<1>1. Replicated!IInv => Cardinality(Voters) >= Cardinality(Founders)
  <2> SUFFICES ASSUME Replicated!IInv
               PROVE  Cardinality(Voters) >= Cardinality(Founders)
    OBVIOUS
  <2>1. Replicated!EnoughVoters
    BY Replicated!RoomForVoters, MembershipAssumption, SameSets DEF Nodes
  <2> QED BY <2>1, SameSets
          DEF Replicated!EnoughVoters, Replicated!Voters, Voters,
              Replicated!Nodes, Nodes, Replicated!BootstrapExpect
<1>2. MInv => (Unpaused => Cardinality(Voters) >= Cardinality(Founders))
  BY <1>1 DEF MInv, StepInv, ClusterInv
<1> QED BY <1>2, Inductive, PTL

(* A node is promoted only from a non-voter that has applied the record    *)
(* that it caught up, as long as no node is re-elected in the middle of a  *)
(* call (node.go:1355-1374).                                               *)
THEOREM JoinsAreStaged ==
  ASSUME MaxPauses = 0
  PROVE  Spec => JoinIsStaged
<1>1. MInv /\ [Next]_vars =>
        [\A j \in Joiners : config'[j] = "voter" /\ config[j] # "voter" =>
           config[j] = "nonvoter" /\ op.phase = "caughtup" /\ j \in synced]_vars
  <2> SUFFICES ASSUME MInv, [Next]_vars PROVE Staged
    BY DEF Staged
  <2>1. Good
    BY StepHolds
  <2>2. MInv'
    BY <2>1 DEF Good, MInv
  <2>3. Unpaused'
    BY <2>2 DEF MInv, TypeInv, Budgets, Unpaused
  <2> QED BY <2>1, <2>3 DEF Good
<1> QED BY <1>1, Inductive, PTL DEF Spec, JoinIsStaged

(* Whoever leads, crashes or times out, the log changes membership only as *)
(* MembershipSpec allows, as long as no node is re-elected in the middle   *)
(* of a call: the operations are serial, no step is repeated or skipped,   *)
(* and a resumed operation goes on where Raft's configuration stands       *)
(* (node.go:1305-1415).                                                    *)
THEOREM MembershipImplementsSpec ==
  ASSUME MaxPauses = 0
  PROVE  Spec => Implements
<1>1. Init => Abstract!Init
  BY DEF Init, NoOp, Op, Abstract!Init, Abstract!Bootstrapped,
         Abstract!NoOperation, Nodes, Abstract!Nodes
<1>2. MInv /\ [Next]_vars =>
        [Abstract!Next]_[config |-> config, members |-> members,
              op |-> [type |-> op.type, node |-> op.node, phase |-> op.phase]]
  <2> SUFFICES ASSUME MInv, [Next]_vars PROVE Abstract!Next \/ Cluster' = Cluster
    BY DEF Cluster
  <2>1. Good
    BY StepHolds
  <2>2. MInv'
    BY <2>1 DEF Good, MInv
  <2>3. Unpaused'
    BY <2>2 DEF MInv, TypeInv, Budgets, Unpaused
  <2> QED BY <2>1, <2>3, SameSteps DEF Good, RStep
<1> QED BY <1>1, <1>2, Inductive, PTL DEF Spec, Implements, Abstract!Spec
=============================================================================
