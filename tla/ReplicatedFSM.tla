--------------------------- MODULE ReplicatedFSM ---------------------------
(***************************************************************************)
(* The replicas of the metadata state machine: every node applies the      *)
(* committed log to its own copy, halts at an apply fault, records the     *)
(* fault beside the Raft data, takes and installs Raft snapshots, and may  *)
(* crash and come back, perhaps with another binary.                       *)
(*                                                                         *)
(* Raft is external: it hands every node the log in order, calls Apply,    *)
(* Snapshot and Restore from one goroutine, and on a restart restores the  *)
(* newest local snapshot and replays the log after it.                     *)
(***************************************************************************)
EXTENDS MetadataFSM

CONSTANTS
  Binaries,      \* the capabilities of the binaries a node may run
  MaxRestarts    \* bound: restarts of all nodes together

ASSUME RestartsAssumption == MaxRestarts \in Nat

VARIABLES
  caps,        \* caps[n]: the capabilities of n's binary
  applyIndex,  \* applyIndex[n]: the commands Raft has handed to n's FSM
  fsm,         \* fsm[n]: metadataFSM.state
  fault,       \* fault[n]: metadataFSM.applyFault's index, 0 when healthy
  marker,      \* marker[n]: what fsm-apply-fault.json holds, 0 when absent
  raftSnap,    \* raftSnap[n]: n's newest Raft snapshot [index, state, fault]
  restarts     \* counter for MaxRestarts

replicaVars == <<caps, applyIndex, fsm, fault, marker, raftSnap, restarts>>
allVars == <<vars, replicaVars>>

\* What Apply refuses only because of the local binary: a command version it
\* does not support, or a gate it would have to activate and cannot.
UnsupportedVersion(c, cmd) ==
  ~Supports(c.protocol, cmd.protocol) \/ ~Supports(c.command, cmd.command)

UnsupportedGate(c, s, index, cmd) ==
  /\ cmd.type = "activate_capabilities"
  /\ cmd.id \notin DOMAIN s.applied
  /\ Outcome(s, index, cmd).verdict = "ok"
  /\ ~SupportsGate(c, cmd.payload, FALSE)

LocalFault(c, s, index, raw) ==
  LET cmd == Normalized(raw)
  IN  UnsupportedVersion(c, cmd) \/ UnsupportedGate(c, s, index, cmd)

\* persistFSMApplyFault replaces the marker, which held old, or fails and
\* leaves it alone; a failure has no consequence for its callers.
PersistFault(n, old, f) ==
  \E file \in {old, f} : marker' = [marker EXCEPT ![n] = file]

\* recordApplyFaultLocked on a healthy replica.
RecordApplyFault(n, index) ==
  fault' = [fault EXCEPT ![n] = index] /\ PersistFault(n, marker[n], index)

NextEntry(n) == log[applyIndex[n] + 1].command

Advance(n) ==
  /\ applyIndex[n] < Len(log)
  /\ applyIndex' = [applyIndex EXCEPT ![n] = @ + 1]
  /\ UNCHANGED <<vars, caps, raftSnap, restarts>>

ApplyEntry(n) ==
  LET index == applyIndex[n] + 1
      r     == Outcome(fsm[n], index, NextEntry(n))
  IN  /\ Advance(n)
      /\ fault[n] = 0
      /\ ~LocalFault(caps[n], fsm[n], index, NextEntry(n))
      /\ r.verdict # "fault"
      /\ fsm' = [fsm EXCEPT ![n] = r.state]
      /\ UNCHANGED <<fault, marker>>

ApplyFaulting(n) ==
  LET index == applyIndex[n] + 1
  IN  /\ Advance(n)
      /\ fault[n] = 0
      /\ \/ LocalFault(caps[n], fsm[n], index, NextEntry(n))
         \/ Outcome(fsm[n], index, NextEntry(n)).verdict = "fault"
      /\ RecordApplyFault(n, index)
      /\ UNCHANGED fsm

\* Mutants of ApplyHalted: a halted replica goes on applying; it stops Raft's
\* apply loop.
ApplyAfterFault(n) ==
  /\ Advance(n)
  /\ fault[n] # 0
  /\ fsm' = [fsm EXCEPT
       ![n] = Outcome(@, applyIndex[n] + 1, NextEntry(n)).state]
  /\ UNCHANGED <<fault, marker>>

StopAtFault(n) == fault[n] # 0 /\ UNCHANGED allVars

\* Apply on a halted replica changes nothing, but Raft's applied index moves.
ApplyHalted(n) ==
  /\ Advance(n)
  /\ fault[n] # 0
  /\ UNCHANGED <<fsm, fault, marker>>

\* Mutant of TakeSnapshot: the fault is not looked at.
SnapshotAnyway(n) ==
  /\ raftSnap[n].index < applyIndex[n]
  /\ raftSnap' = [raftSnap EXCEPT
       ![n] = [index |-> applyIndex[n], state |-> fsm[n], fault |-> fault[n]]]
  /\ UNCHANGED <<vars, caps, applyIndex, fsm, fault, marker, restarts>>

TakeSnapshot(n) ==
  /\ fault[n] = 0
  /\ raftSnap[n].index < applyIndex[n]
  /\ raftSnap' = [raftSnap EXCEPT
       ![n] = [index |-> applyIndex[n], state |-> fsm[n], fault |-> fault[n]]]
  /\ UNCHANGED <<vars, caps, applyIndex, fsm, fault, marker, restarts>>

\* Restore keeps a fault the replica already has, and takes over one that
\* the snapshot carries (writing the marker may fail).  Nothing compares the
\* binary with the gate.
RestoredFault(own, snap) == IF snap.fault # 0 THEN snap.fault ELSE own

\* Mutant of Restore: replay starts one entry too late.
RestoreSkippingOne(n, own, old, snap) ==
  /\ applyIndex' = [applyIndex EXCEPT ![n] = snap.index + 1]
  /\ fsm' = [fsm EXCEPT ![n] = snap.state]
  /\ fault' = [fault EXCEPT ![n] = RestoredFault(own, snap)]
  /\ PersistFault(n, old, RestoredFault(old, snap))

Restore(n, own, old, snap) ==
  /\ applyIndex' = [applyIndex EXCEPT ![n] = snap.index]
  /\ fsm' = [fsm EXCEPT ![n] = snap.state]
  /\ fault' = [fault EXCEPT ![n] = RestoredFault(own, snap)]
  /\ PersistFault(n, old, RestoredFault(old, snap))

InstallSnapshot(n, m) ==
  /\ n # m
  /\ applyIndex[n] < raftSnap[m].index
  /\ raftSnap' = [raftSnap EXCEPT ![n] = raftSnap[m]]
  /\ Restore(n, fault[n], marker[n], raftSnap[m])
  /\ UNCHANGED <<vars, caps, restarts>>

\* startRaft with binary c, when the marker file holds old: the marker is read
\* first, then the newest local snapshot is restored.
Start(n, c, own, old) ==
  /\ restarts < MaxRestarts
  /\ restarts' = restarts + 1
  /\ caps' = [caps EXCEPT ![n] = c]
  /\ Restore(n, own, old, raftSnap[n])
  /\ UNCHANGED <<vars, raftSnap>>

\* Mutant of Restart: the marker on disk is not read.
RestartForgetting(n, c) == Start(n, c, 0, marker[n])

\* The process ends and starts again: the marker is there.
Restart(n, c) == Start(n, c, marker[n], marker[n])

\* Power fails: the marker's directory was never synced, so its rename may be
\* lost (Raft syncs its own stores).
PowerLoss(n, c) == marker[n] # 0 /\ Start(n, c, 0, 0)

\* voterStatuses: every voter is healthy on the leader's active gate.  Each
\* reports itself caught up with the commit index it knows of, which may be
\* an old one.  That the answers are older than the command only swaps them
\* with steps that leave the log alone.
VotersReady ==
  \A n \in Nodes : fault[n] = 0 /\ fsm[n].gate = fsm[raftLeader].gate

ReplicaInit ==
  /\ Init
  /\ caps = [n \in Nodes |-> SupportedNodeCapabilities]
  /\ applyIndex = [n \in Nodes |-> 0]
  /\ fsm = [n \in Nodes |-> InitialState]
  /\ fault = [n \in Nodes |-> 0]
  /\ marker = [n \in Nodes |-> 0]
  /\ raftSnap = [n \in Nodes |->
                   [index |-> 0, state |-> InitialState, fault |-> 0]]
  /\ restarts = 0

ReplicaNext ==
  \/ \E n \in Nodes : Election(n) /\ UNCHANGED replicaVars
  \/ \E t \in 1..raftTerm :
       AcquireLeadership(t, caps[raftLeader]) /\ UNCHANGED replicaVars
  \/ \E t \in 1..raftTerm : InitializeMembers(t) /\ UNCHANGED replicaVars
  \/ \E id \in CommandIDs, w \in Writes, r \in Revisions :
       /\ raftTerm > 0
       /\ PutMetadata(id, w, r, caps[raftLeader])
       /\ UNCHANGED replicaVars
  \/ \E id \in CommandIDs, w \in Writes, r \in Revisions :
       /\ raftTerm > 0
       /\ PutMetadataBatch(id, w, r, caps[raftLeader])
       /\ UNCHANGED replicaVars
  \/ \E id \in CommandIDs, d \in Drafts, e \in Epochs :
       /\ raftTerm > 0
       /\ PublishSnapshot(id, d, e, caps[raftLeader])
       /\ UNCHANGED replicaVars
  \/ \E id \in CommandIDs, g \in Gates :
       /\ raftTerm > 0
       /\ VotersReady
       /\ ActivateCapabilities(id, g, caps[raftLeader], caps)
       /\ UNCHANGED replicaVars
  \/ \E n \in Nodes : ApplyEntry(n)
  \/ \E n \in Nodes : ApplyFaulting(n)
  \/ \E n \in Nodes : ApplyHalted(n)
  \/ \E n \in Nodes : TakeSnapshot(n)
  \/ \E n, m \in Nodes : InstallSnapshot(n, m)
  \/ \E n \in Nodes, c \in Binaries : Restart(n, c)
  \/ \E n \in Nodes, c \in Binaries : PowerLoss(n, c)

\* Raft keeps handing committed entries to every FSM that runs.
Fairness ==
  \A n \in Nodes : WF_allVars(ApplyEntry(n) \/ ApplyFaulting(n) \/ ApplyHalted(n))

ReplicaSpec == ReplicaInit /\ [][ReplicaNext]_allVars /\ Fairness

-----------------------------------------------------------------------------
(* Properties.                                                             *)

IsSnapshot(snap) ==
  /\ DOMAIN snap = {"index", "state", "fault"}
  /\ snap.index \in 0..Len(log)
  /\ snap.fault \in Nat

\* Every replica variable has its type.
ReplicaTypeOK ==
  /\ TypeOK
  /\ caps \in [Nodes -> Binaries \cup {SupportedNodeCapabilities}]
  /\ applyIndex \in [Nodes -> 0..Len(log)]
  /\ DOMAIN fsm = Nodes
  /\ fault \in [Nodes -> 0..Len(log)]
  /\ marker \in [Nodes -> 0..Len(log)]
  /\ DOMAIN raftSnap = Nodes
  /\ \A n \in Nodes : IsSnapshot(raftSnap[n])
  /\ restarts \in 0..MaxRestarts

\* A healthy replica holds exactly the meaning of the log it has applied, on
\* whatever mixture of replay, snapshots, restarts and binaries it got there;
\* a halted one holds the meaning of some prefix (consensus.go:138-469).
ReplicasAgree ==
  \A n \in Nodes :
    IF fault[n] = 0
    THEN hist[applyIndex[n] + 1] = [state |-> fsm[n], fault |-> 0]
    ELSE \E i \in 0..applyIndex[n] :
           hist[i + 1] = [state |-> fsm[n], fault |-> 0]

\* A Raft snapshot is only ever the healthy meaning of its prefix, so a fault
\* of one replica never reaches another through InstallSnapshot
\* (consensus.go:425-431).
SnapshotsAreHealthy ==
  \A n \in Nodes :
    hist[raftSnap[n].index + 1] = [state |-> raftSnap[n].state, fault |-> 0]

\* A fault whose marker was written halts the replica for good: no snapshot,
\* no restart and no new binary revives it (consensus.go:334-358, 462).  Only
\* a loss of power that takes the marker with it does.
HaltSurvives ==
  [][\A n \in Nodes :
       marker[n] # 0 =>
         \/ fault'[n] # 0 /\ marker'[n] = marker[n]
         \/ \E c \in Binaries : PowerLoss(n, c)]_allVars

\* Two replicas with the same revision hold the same state, halted or not:
\* this is what lets a joining node be called caught up when its reported
\* FSM revision reaches the leader's (node.go:1550-1574).
RevisionIdentifiesState ==
  \A n, m \in Nodes : fsm[n].revision = fsm[m].revision => fsm[n] = fsm[m]

\* Every replica is eventually handed every committed command, through
\* crashes, snapshots and halts (consensus.go:158-161: a halted replica
\* answers and goes on, it does not block Raft's apply loop).
EveryReplicaCatchesUp == \A n \in Nodes : <>[](applyIndex[n] = Len(log))

\* README.md:18: the capability gate keeps an old binary from handling new
\* formats, so a healthy replica always supports the gate in its own state.
HealthyReplicaSupportsGate ==
  \A n \in Nodes : fault[n] = 0 => SupportsGate(caps[n], fsm[n].gate, FALSE)
=============================================================================
