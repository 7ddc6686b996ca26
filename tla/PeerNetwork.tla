---------------------------- MODULE PeerNetwork ----------------------------
(***************************************************************************)
(* Who can talk to whom while membership changes: every node dials and     *)
(* accepts only the peers of its registry, which it computes from what its *)
(* own state machine has applied (refreshPeerRegistry, transport.go).      *)
(* After a restart that is the last FSM snapshot, or the initial members   *)
(* when there is none, until a leader tells the node what is committed.    *)
(*                                                                         *)
(* The log holds the states of MembershipSteps.  Raft is external: a       *)
(* leader needs the votes of a majority of the voters of its own log's     *)
(* configuration, from nodes that know the candidate and whose log is not  *)
(* longer, and commits with a majority that it reaches.                    *)
(***************************************************************************)
EXTENDS MembershipSteps, Sequences

CONSTANTS
  NoNode,
  MaxLog,        \* bound: entries of the log
  MaxCrashes     \* bound: crashes of a node

ASSUME NetworkAssumption ==
  NoNode \notin Nodes /\ {MaxLog, MaxCrashes} \subseteq Nat

VARIABLES
  log,      \* the committed states
  stored,   \* how many of them each node's Raft log holds
  applied,  \* and how many its state machine has applied since it started
  snap,     \* how many the FSM snapshot it last restored covers
  up,       \* the running nodes
  leader,
  crashes

vars == <<log, stored, applied, snap, up, leader, crashes>>

Latest == log[Len(log)]

Init ==
  /\ log = <<Bootstrapped>>
  /\ stored = [n \in Nodes |-> IF n \in Founders THEN 1 ELSE 0]
  /\ applied = [n \in Nodes |-> 0]
  /\ snap = [n \in Nodes |-> 0]
  /\ up = Nodes
  /\ leader = NoNode
  /\ crashes = 0

-----------------------------------------------------------------------------
(* The registry of a node; initial_members are the founders on every node. *)
Registry(n) == IF applied[n] = 0 THEN Founders ELSE PeersOf(log[applied[n]])

(* Dial looks the address up in the dialling node's registry ... *)
Dials(m, n) == n \in Registry(m)

\* Mutant of Accepts: a node without a state of its own knows nobody.
AcceptsApplied(n, m) == applied[n] > 0 /\ m \in Registry(n)

(* ... and the handshake the certificate's identity in the other's. *)
Accepts(n, m) == m \in Registry(n)

Reaches(m, n) == m = n \/ ({m, n} \subseteq up /\ Dials(m, n) /\ Accepts(n, m))

Majority(Q, c) == 2 * Cardinality(Q \cap Voters(c)) > Cardinality(Voters(c))

(* The nodes of n's own configuration that would vote for n. *)
Granted(n) ==
  {v \in Voters(log[stored[n]]) :
     /\ v \in up /\ Reaches(n, v) /\ stored[v] <= stored[n]
     /\ stored[v] > 0 => log[stored[v]].config[n] # "absent"}

(* External: an election, which ends with the winner's state machine up to *)
(* date: it has applied its own acquisition.                               *)
Elect(n) ==
  /\ leader = NoNode /\ n \in up /\ stored[n] > 0
  /\ log[stored[n]].config[n] = "voter"
  /\ Majority(Granted(n), log[stored[n]])
  /\ leader' = n
  /\ applied' = [applied EXCEPT ![n] = stored[n]]
  /\ UNCHANGED <<log, stored, snap, up, crashes>>

(* External: a leader that no longer reaches a majority steps down. *)
Reached == {v \in up : Reaches(leader, v)}

StepDown ==
  /\ leader # NoNode
  /\ ~Majority(Reached, Latest) \/ Latest.config[leader] = "absent"
  /\ leader' = NoNode
  /\ UNCHANGED <<log, stored, applied, snap, up, crashes>>

(* The leader takes the next step of a membership change, and the nodes    *)
(* that stored it learn that it is committed.  RemoveServer refuses the    *)
(* leader, a resumed removal does not.  A joining node has to have applied *)
(* the log to be recorded as caught up or promoted.                        *)
WaitsForJoiner(c) ==
  \/ c.op.phase = "caughtup" /\ Latest.op.phase # "caughtup"
  \/ \E j \in Joiners : c.config[j] = "voter" /\ Latest.config[j] = "nonvoter"

Commit(c, Q) ==
  /\ leader # NoNode /\ Len(log) < MaxLog
  /\ c \in Steps(Latest)
  /\ ~Active(Latest) /\ c.op.type = "remove" => c.op.node # leader
  /\ WaitsForJoiner(c) => applied[c.op.node] = Len(log)
  /\ Q \subseteq Reached /\ leader \in Q /\ Majority(Q, c)
  /\ log' = Append(log, c)
  /\ stored' = [n \in Nodes |-> IF n \in Q THEN Len(log') ELSE stored[n]]
  /\ applied' = [n \in Nodes |-> IF n \in Q THEN Len(log') ELSE applied[n]]
  /\ UNCHANGED <<snap, up, leader, crashes>>

(* External: the leader brings a node of the configuration up to date. *)
Replicate(n) ==
  /\ leader # NoNode /\ n # leader /\ Latest.config[n] # "absent"
  /\ Reaches(leader, n)
  /\ <<stored[n], applied[n]>> # <<Len(log), Len(log)>>
  /\ stored' = [stored EXCEPT ![n] = Len(log)]
  /\ applied' = [applied EXCEPT ![n] = Len(log)]
  /\ UNCHANGED <<log, snap, up, leader, crashes>>

Crash(n) ==
  /\ n \in up /\ crashes < MaxCrashes
  /\ crashes' = crashes + 1
  /\ up' = up \ {n}
  /\ leader' = IF leader = n THEN NoNode ELSE leader
  /\ UNCHANGED <<log, stored, applied, snap>>

(* Start restores the last snapshot Raft has taken, which may be of any    *)
(* state the node had applied; what Raft's log holds beyond it is applied  *)
(* once a leader says that it is committed.                                *)
Restart(n) ==
  /\ n \notin up
  /\ up' = up \cup {n}
  /\ \E i \in snap[n]..applied[n] :
       /\ snap' = [snap EXCEPT ![n] = i]
       /\ applied' = [applied EXCEPT ![n] = i]
  /\ UNCHANGED <<log, stored, leader, crashes>>

Next ==
  \/ StepDown
  \/ \E n \in Nodes : Elect(n) \/ Replicate(n) \/ Crash(n)
                      \/ Restart(n)
  \/ \E c \in Steps(Latest), Q \in SUBSET Nodes : Commit(c, Q)

Spec == Init /\ [][Next]_vars

(* Raft keeps trying to elect a leader, to replicate and to notice that it *)
(* has lost its majority.                                                  *)
FairSpec ==
  /\ Spec
  /\ WF_vars(\E n \in Nodes : Elect(n)) /\ WF_vars(StepDown)
  /\ WF_vars(\E n \in Nodes : Replicate(n))

-----------------------------------------------------------------------------
(* A founder that still votes is in every registry, however old the state  *)
(* a node restarted with (node.go:1602-1652).                              *)
FoundersAreKnown ==
  \A f \in Founders \cap Voters(Latest), n \in Nodes : f \in Registry(n)

(* As long as a majority of the voters runs and they are all founders,     *)
(* there is a leader again and again.                                      *)
FoundersElect ==
  []<>(leader # NoNode) \/ []<>~Majority(up \cap Founders, Latest)

(* As long as a majority of the voters runs, there is a leader again and   *)
(* again (README.md:30).                                                   *)
MajorityElects == []<>(leader # NoNode) \/ []<>~Majority(up, Latest)
=============================================================================
