------------------------- MODULE PeerNetworkProofs -------------------------
(***************************************************************************)
(* Registries contain the founders that vote, for any founders, joining    *)
(* nodes, logs and crashes.                                                *)
(*                                                                         *)
(* A registry comes from an old state of the log, and the votes that count *)
(* from the last one.  What links them is that a founder which has left is *)
(* never taken back (Lasting): a founder that votes now has voted in every *)
(* state before, and in none of them was it out of the registry (Listed).  *)
(***************************************************************************)
EXTENDS PeerNetwork, TLAPS

\* Only joining nodes join, and a founder that votes is a member that Raft has
\* not removed.
Listed(c) ==
  /\ c.op.type = "join" => c.op.node \in Joiners
  /\ \A f \in Founders : c.config[f] = "voter" =>
       /\ f \in c.members
       /\ ~(c.op.type = "remove" /\ c.op.node = f /\ c.op.phase = "removed")

\* A founder that votes in d has voted in c.
Lasting(c, d) ==
  \A f \in Founders : d.config[f] = "voter" => c.config[f] = "voter"

Indexes == [Nodes -> 0..Len(log)]

NetworkInv ==
  /\ log \in Seq(Clusters) /\ Len(log) > 0
  /\ stored \in Indexes /\ applied \in Indexes /\ snap \in Indexes
  /\ \A i \in 1..Len(log) : Listed(log[i])
  /\ \A i, j \in 1..Len(log) : i <= j => Lasting(log[i], log[j])

-----------------------------------------------------------------------------
(* The steps of a membership change.                                       *)

\* The fields of a cluster.
LEMMA ClusterFields ==
  ASSUME NEW c \in Clusters
  PROVE  /\ c.config \in [Nodes -> Suffrages] /\ c.members \in SUBSET Nodes
         /\ c.op \in Operations
         /\ Active(c) => /\ c.op.node \in Nodes /\ c.op.type \in {"join", "remove"}
                         /\ c.op.phase \in Phases
BY DEF Clusters, Operations, Active

\* Raft's configuration changes.
LEMMA SuffrageStep ==
  ASSUME NEW c \in Clusters, NEW n \in Nodes, NEW s \in Suffrages,
         NEW d, d = WithSuffrage(c, n, s)
  PROVE  /\ d \in Clusters /\ d.op = c.op /\ d.members = c.members
         /\ d.config[n] = s
         /\ \A m \in Nodes : m # n => d.config[m] = c.config[m]
<1>1. c.config \in [Nodes -> Suffrages]
  BY ClusterFields
<1>2. d = [c EXCEPT !.config = [c.config EXCEPT ![n] = s]]
  BY DEF WithSuffrage
<1> DEFINE g == [c.config EXCEPT ![n] = s]
<1>3. /\ g \in [Nodes -> Suffrages] /\ g[n] = s
      /\ \A m \in Nodes : m # n => g[m] = c.config[m]
  BY <1>1
<1> HIDE DEF g
<1>4. d = [c EXCEPT !.config = g]
  BY <1>2 DEF g
<1> QED BY <1>3, <1>4 DEF Clusters

\* A phase and the members are recorded.
Recorded(c, p, ms) == [WithPhase(c, p) EXCEPT !.members = ms]

\* A phase is recorded, with or without a change of the members.
LEMMA PhaseStep ==
  ASSUME NEW c \in Clusters, Active(c), NEW p \in Phases, NEW ms \in SUBSET Nodes,
         NEW d, d = Recorded(c, p, ms)
  PROVE  /\ d \in Clusters /\ d.config = c.config /\ d.members = ms
         /\ d.op.type = c.op.type /\ d.op.node = c.op.node /\ d.op.phase = p
<1>1. c.op \in [type : {"join", "remove"}, node : Nodes, phase : Phases]
  BY DEF Clusters, Operations, Active
<1> DEFINE o == [c.op EXCEPT !.phase = p]
<1>2. /\ o \in Operations /\ o.type = c.op.type /\ o.node = c.op.node
      /\ o.phase = p
  BY <1>1 DEF Operations
<1>3. WithPhase(c, p) = [c EXCEPT !.op = o]
  BY DEF WithPhase
<1> HIDE DEF o
<1> QED BY <1>2, <1>3 DEF Clusters, Recorded

\* The same without.
LEMMA PhaseOnly ==
  ASSUME NEW c \in Clusters, NEW p
  PROVE  WithPhase(c, p) = Recorded(c, p, c.members)
BY DEF Clusters, WithPhase, Recorded

\* An operation begins.
LEMMA BeginStep ==
  ASSUME NEW c \in Clusters, NEW t \in {"join", "remove"}, NEW n \in Nodes,
         NEW d, d = Begin(c, t, n)
  PROVE  /\ d \in Clusters /\ d.config = c.config /\ d.members = c.members
         /\ d.op.type = t /\ d.op.node = n /\ d.op.phase = "prepared"
BY DEF Clusters, Operations, Phases, Begin

\* What a step of reconcileJoinOperation does.
LEMMA JoinStepForms ==
  ASSUME NEW c \in Clusters, Active(c), NEW d \in JoinSteps(c)
  PROVE  \/ \E s \in Suffrages : d = WithSuffrage(c, c.op.node, s)
         \/ \E p \in Phases, ms \in SUBSET Nodes :
              /\ d = Recorded(c, p, ms)
              /\ p # "removed" /\ c.members \subseteq ms
<1>1. {"nonvoter", "caughtup", "voter", "completed"} \subseteq Phases
      /\ {"nonvoter", "voter"} \subseteq Suffrages
  BY DEF Phases, Suffrages
<1>2. c.members \in SUBSET Nodes /\ c.op.node \in Nodes
  BY ClusterFields
<1>3. CASE d = WithSuffrage(c, c.op.node, "nonvoter")
           \/ d = WithSuffrage(c, c.op.node, "voter")
  BY <1>1, <1>3
<1>4. ASSUME NEW p \in {"nonvoter", "caughtup", "voter"}, d = WithPhase(c, p)
      PROVE  \E q \in Phases, ms \in SUBSET Nodes :
               /\ d = Recorded(c, q, ms)
               /\ q # "removed" /\ c.members \subseteq ms
  <2>1. d = Recorded(c, p, c.members)
    BY <1>4, PhaseOnly
  <2> QED BY <1>1, <1>2, <2>1
<1>5. CASE d = [WithPhase(c, "completed") EXCEPT !.members = @ \cup {c.op.node}]
  <2> DEFINE ms == c.members \cup {c.op.node}
  <2>1. WithPhase(c, "completed").members = c.members
    BY DEF WithPhase, Clusters
  <2>2. d = Recorded(c, "completed", ms)
    BY <1>5, <2>1 DEF Recorded
  <2>3. ms \in SUBSET Nodes /\ c.members \subseteq ms
    BY <1>2
  <2> QED BY <1>1, <2>2, <2>3
<1> QED BY <1>3, <1>4, <1>5 DEF JoinSteps

\* What a step of reconcileRemoveOperation does.
LEMMA RemoveStepForms ==
  ASSUME NEW c \in Clusters, Active(c), NEW d \in RemoveSteps(c)
  PROVE  \/ d = WithSuffrage(c, c.op.node, "absent")
         \/ \E p \in Phases, ms \in SUBSET Nodes :
              /\ d = Recorded(c, p, ms)
              /\ c.config[c.op.node] = "absent" /\ c.members \ {c.op.node} \subseteq ms
<1>1. "removed" \in Phases /\ "completed" \in Phases
  BY DEF Phases
<1>2. c.members \in SUBSET Nodes
  BY ClusterFields
<1>3. CASE d = WithPhase(c, "removed") /\ c.config[c.op.node] = "absent"
  <2>1. d = Recorded(c, "removed", c.members)
    BY <1>3, PhaseOnly
  <2> QED BY <1>1, <1>2, <1>3, <2>1
<1>4. CASE d = [WithPhase(c, "completed") EXCEPT !.members = @ \ {c.op.node}]
           /\ c.config[c.op.node] = "absent"
  <2> DEFINE ms == c.members \ {c.op.node}
  <2>1. WithPhase(c, "completed").members = c.members
    BY DEF WithPhase, Clusters
  <2>2. d = Recorded(c, "completed", ms)
    BY <1>4, <2>1 DEF Recorded
  <2>3. ms \in SUBSET Nodes
    BY <1>2
  <2> QED BY <1>1, <1>4, <2>2, <2>3
<1> QED BY <1>3, <1>4 DEF RemoveSteps

\* A step keeps the founders that vote listed, and makes no founder a voter.
LEMMA StepsKeep ==
  ASSUME NEW c \in Clusters, Listed(c), NEW d \in Steps(c)
  PROVE  d \in Clusters /\ Listed(d) /\ Lasting(c, d)
<1>0. /\ Founders \cap Joiners = {} /\ Founders \subseteq Nodes /\ Joiners \subseteq Nodes
      /\ "absent" \in Suffrages
  BY NodesAssumption DEF Nodes, Suffrages
<1>1. CASE ~Active(c)
  <2>1. PICK t \in {"join", "remove"}, n \in Nodes :
          d = Begin(c, t, n) /\ (t = "join" => n \in Joiners)
    BY <1>0, <1>1, ClusterFields DEF Steps, Begun
  <2>2. /\ d \in Clusters /\ d.config = c.config /\ d.members = c.members
        /\ d.op.type = t /\ d.op.node = n /\ d.op.phase = "prepared"
    BY <2>1, BeginStep
  <2> QED BY <2>1, <2>2 DEF Listed, Lasting
<1>2. CASE Active(c) /\ c.op.type = "join"
  <2>0. /\ d \in JoinSteps(c) /\ c.op.node \in Joiners /\ c.op.node \in Nodes
        /\ c.op.node \notin Founders
    BY <1>0, <1>2 DEF Steps, Listed
  <2>1. CASE \E s \in Suffrages : d = WithSuffrage(c, c.op.node, s)
    <3>1. /\ d \in Clusters /\ d.op = c.op /\ d.members = c.members
          /\ \A m \in Nodes : m # c.op.node => d.config[m] = c.config[m]
      BY <2>0, <2>1, SuffrageStep
    <3> QED BY <1>0, <2>0, <3>1 DEF Listed, Lasting
  <2>2. ASSUME NEW p \in Phases, NEW ms \in SUBSET Nodes,
               d = Recorded(c, p, ms),
               p # "removed", c.members \subseteq ms
        PROVE  d \in Clusters /\ Listed(d) /\ Lasting(c, d)
    <3>1. /\ d \in Clusters /\ d.config = c.config /\ d.members = ms
          /\ d.op.type = c.op.type /\ d.op.node = c.op.node /\ d.op.phase = p
      BY <1>2, <2>2, PhaseStep
    <3> QED BY <1>2, <2>0, <2>2, <3>1 DEF Listed, Lasting
  <2> QED BY <1>2, <2>0, <2>1, <2>2, JoinStepForms
<1>3. CASE Active(c) /\ c.op.type # "join"
  <2>0. d \in RemoveSteps(c) /\ c.op.node \in Nodes
    BY <1>3, ClusterFields DEF Steps
  <2>1. CASE d = WithSuffrage(c, c.op.node, "absent")
    <3>1. /\ d \in Clusters /\ d.op = c.op /\ d.members = c.members
          /\ d.config[c.op.node] = "absent"
          /\ \A m \in Nodes : m # c.op.node => d.config[m] = c.config[m]
      BY <1>0, <2>0, <2>1, SuffrageStep
    <3> QED BY <1>0, <3>1 DEF Listed, Lasting
  <2>2. ASSUME NEW p \in Phases, NEW ms \in SUBSET Nodes,
               d = Recorded(c, p, ms),
               c.config[c.op.node] = "absent", c.members \ {c.op.node} \subseteq ms
        PROVE  d \in Clusters /\ Listed(d) /\ Lasting(c, d)
    <3>1. /\ d \in Clusters /\ d.config = c.config /\ d.members = ms
          /\ d.op.type = c.op.type /\ d.op.node = c.op.node /\ d.op.phase = p
      BY <1>3, <2>2, PhaseStep
    <3> QED BY <1>3, <2>2, <3>1 DEF Listed, Lasting
  <2> QED BY <1>3, <2>0, <2>1, <2>2, RemoveStepForms
<1> QED BY <1>1, <1>2, <1>3

-----------------------------------------------------------------------------
(* The invariant.                                                          *)

\* The bootstrapped cluster lists its founders.
LEMMA NetworkInit == Init => NetworkInv
<1> SUFFICES ASSUME Init PROVE NetworkInv
  OBVIOUS
<1> DEFINE c == Bootstrapped
<1>1. c \in Clusters
  BY NodesAssumption DEF Bootstrapped, NoOperation, Clusters, Operations,
                         Suffrages, Nodes
<1>2. c.members = Founders /\ c.op.type = "none"
  BY DEF Bootstrapped, NoOperation
<1>3. Listed(c) /\ Lasting(c, c)
  BY <1>2 DEF Listed, Lasting
<1> HIDE DEF c
<1>4. log = <<c>>
  BY DEF Init, c
<1>5. log \in Seq(Clusters) /\ Len(log) = 1 /\ log[1] = c
  BY <1>1, <1>4
<1>6. stored \in Indexes /\ applied \in Indexes /\ snap \in Indexes
  BY <1>5 DEF Init, Indexes
<1>7. \A i \in 1..Len(log) : log[i] = c
  BY <1>5
<1> QED BY <1>3, <1>5, <1>6, <1>7 DEF NetworkInv

\* A committed entry.
LEMMA CommitKeeps ==
  ASSUME NetworkInv, NEW c \in Steps(Latest), NEW Q \in SUBSET Nodes, Commit(c, Q)
  PROVE  NetworkInv'
<1>1. /\ log \in Seq(Clusters) /\ Len(log) \in Nat /\ Len(log) > 0
      /\ Latest \in Clusters /\ Listed(Latest)
  BY DEF NetworkInv, Latest
<1>2. c \in Clusters /\ Listed(c) /\ Lasting(Latest, c)
  BY <1>1, StepsKeep
<1>3. /\ log' \in Seq(Clusters) /\ Len(log') = Len(log) + 1
      /\ log'[Len(log) + 1] = c /\ \A i \in 1..Len(log) : log'[i] = log[i]
  BY <1>1, <1>2 DEF Commit
<1>4. stored' \in Indexes' /\ applied' \in Indexes' /\ snap' \in Indexes'
  BY <1>1, <1>3 DEF NetworkInv, Indexes, Commit
<1>5. ASSUME NEW i \in 1..Len(log') PROVE Listed(log'[i])
  BY <1>1, <1>2, <1>3 DEF NetworkInv
<1>6. ASSUME NEW i \in 1..Len(log'), NEW j \in 1..Len(log'), i <= j
      PROVE  Lasting(log'[i], log'[j])
  <2>1. CASE j \in 1..Len(log)
    <3>1. i \in 1..Len(log)
      BY <1>1, <1>3, <1>6, <2>1
    <3> QED BY <1>3, <1>6, <2>1, <3>1 DEF NetworkInv
  <2>2. CASE j = Len(log) + 1
    <3>1. CASE i \in 1..Len(log)
      <4>1. Lasting(log[i], Latest)
        BY <1>1, <3>1 DEF NetworkInv, Latest
      <4> QED BY <1>2, <1>3, <2>2, <3>1, <4>1 DEF Lasting
    <3>2. CASE i = Len(log) + 1
      BY <2>2, <3>2 DEF Lasting
    <3> QED BY <1>1, <1>3, <3>1, <3>2
  <2> QED BY <1>1, <1>3, <2>1, <2>2
<1>7. Len(log') > 0
  BY <1>1, <1>3
<1> QED BY <1>3, <1>4, <1>5, <1>6, <1>7 DEF NetworkInv

\* Every other step leaves the log alone.
LEMMA OthersKeep ==
  ASSUME NetworkInv, log' = log,
         stored' \in Indexes, applied' \in Indexes, snap' \in Indexes
  PROVE  NetworkInv'
BY DEF NetworkInv, Indexes

\* The invariant holds in every state.
LEMMA NetworkInductive == Spec => []NetworkInv
<1>1. ASSUME NetworkInv, [Next]_vars PROVE NetworkInv'
  <2>0. /\ stored \in Indexes /\ applied \in Indexes /\ snap \in Indexes
        /\ Len(log) \in Nat
    BY <1>1 DEF NetworkInv
  <2>1. CASE UNCHANGED vars \/ StepDown
    BY <1>1, <2>0, <2>1, OthersKeep DEF vars, StepDown
  <2>2. ASSUME NEW n \in Nodes, Elect(n) \/ Replicate(n) \/ Crash(n) PROVE NetworkInv'
    <3>1. log' = log /\ stored' \in Indexes /\ applied' \in Indexes /\ snap' \in Indexes
      <4>1. CASE Elect(n)
        BY <2>0, <4>1 DEF Elect, Indexes
      <4>2. CASE Replicate(n)
        <5>1. Len(log) \in 0..Len(log)
          BY <2>0
        <5> QED BY <2>0, <4>2, <5>1 DEF Replicate, Indexes
      <4>3. CASE Crash(n)
        BY <2>0, <4>3 DEF Crash
      <4> QED BY <2>2, <4>1, <4>2, <4>3
    <3> QED BY <1>1, <3>1, OthersKeep
  <2>3. ASSUME NEW n \in Nodes, Restart(n) PROVE NetworkInv'
    <3>1. PICK i \in snap[n]..applied[n] :
            /\ snap' = [snap EXCEPT ![n] = i] /\ applied' = [applied EXCEPT ![n] = i]
      BY <2>3 DEF Restart
    <3>2. i \in 0..Len(log)
      BY <2>0, <3>1 DEF Indexes
    <3>3. log' = log /\ stored' \in Indexes /\ applied' \in Indexes /\ snap' \in Indexes
      BY <2>0, <2>3, <3>1, <3>2 DEF Restart, Indexes
    <3> QED BY <1>1, <3>3, OthersKeep
  <2> QED BY <1>1, <2>1, <2>2, <2>3, CommitKeeps DEF Next
<1> QED BY <1>1, NetworkInit, PTL DEF Spec

(* A founder that still votes is in the registry of every node, however    *)
(* old the state is that the node restarted with, for any founders,        *)
(* joining nodes, operations and crashes (node.go:1602-1652).              *)
THEOREM FoundersAreAlwaysKnown == Spec => []FoundersAreKnown
<1>1. NetworkInv => FoundersAreKnown
  <2> SUFFICES ASSUME NetworkInv, NEW f \in Founders \cap Voters(Latest), NEW n \in Nodes
               PROVE  f \in Registry(n)
    BY DEF FoundersAreKnown
  <2>1. CASE applied[n] = 0
    BY <2>1 DEF Registry
  <2>2. CASE applied[n] # 0
    <3> DEFINE i == applied[n]  c == log[i]
    <3>1. i \in 1..Len(log) /\ Len(log) \in 1..Len(log) /\ i <= Len(log)
      BY <2>2 DEF NetworkInv, Indexes
    <3>2. Listed(c) /\ Lasting(c, Latest)
      BY <3>1 DEF NetworkInv, Latest
    <3>3. Latest.config[f] = "voter"
      BY DEF Voters
    <3>4. /\ f \in c.members
          /\ ~(c.op.type = "remove" /\ c.op.node = f /\ c.op.phase = "removed")
      BY <3>2, <3>3 DEF Listed, Lasting
    <3>5. f \in PeersOf(c)
      BY <3>4 DEF PeersOf
    <3> QED BY <2>2, <3>5 DEF Registry
  <2> QED BY <2>1, <2>2
<1> QED BY <1>1, NetworkInductive, PTL
=============================================================================
