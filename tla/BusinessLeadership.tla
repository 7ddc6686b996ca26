------------------------- MODULE BusinessLeadership -------------------------
(***************************************************************************)
(* How one node comes to act as the leader and ceases to: the monitor and  *)
(* the HTTP requests that call refreshStatus, the watcher of Raft's leader *)
(* channel, and calls of VerifyBusinessLeadership, all of which write the  *)
(* cached status and the leadership that LeadershipEvents hands on.        *)
(*                                                                         *)
(* The other nodes are one environment, and Raft is external: an election  *)
(* ends what older leaders can commit, but a node hears of it later.  The  *)
(* metadata are reduced to the acquisitions of leadership, one per epoch.  *)
(* An acquisition that fails for its caller may be committed all the same. *)
(* Time is reduced to whether a verification of the quorum is older than   *)
(* MaxQuorumVerificationAge.                                               *)
(***************************************************************************)
EXTENDS LeadershipEvents

CONSTANTS
  MaxTerm,      \* bound: terms
  MaxExpiries,  \* bound: times the verifications grow too old
  MaxFaults,    \* bound: apply faults of this node
  MaxGates,     \* bound: gates that rule this node out as a leader
  MaxRequests,  \* bound: HTTP requests that refresh the status, in progress
  MaxCalls,     \* bound: VerifyBusinessLeadership calls in progress
  MaxStops      \* bound: times the node is stopped

ASSUME BoundsAssumption ==
  /\ {MaxTerm, MaxExpiries} \subseteq Nat
  /\ {MaxFaults, MaxGates, MaxRequests, MaxCalls, MaxStops} \subseteq 0..1
  /\ 0..MaxTerm \subseteq Epochs

VARIABLES
  term,          \* the newest term, whose leader
  leader,        \*   is this node, another one, or gone
  myTerm,        \* the term this node's Raft knows
  leads,         \* and whether it is in state Leader
  leaderCh,      \* the latest unread value of raft.LeaderCh()
  acquired,      \* the committed acquisitions: [owner, term] of each epoch
  applied,       \* how many this node's state machine has applied
  capable,       \* the gate it has applied lets this node lead
  faults,        \* apply faults: 0 or 1
  verified,      \* n.status.QuorumVerifiedAt
  expiries,
  refresh,       \* refresh[p]: a refreshStatus call
  watch,         \* watchRaftLeadership
  call,          \* a VerifyBusinessLeadership call
  transferring,  \* a LeadershipTransfer is under way
  running        \* the monitor has not been stopped

raftVars == <<term, leader, myTerm, leads, leaderCh>>
fsmVars == <<acquired, applied, capable, faults>>
procVars == <<refresh, watch, call, transferring, running>>
vars == <<eventVars, raftVars, fsmVars, verified, expiries, procVars>>

Refreshers == {"monitor", "request"}

Idle == [pc |-> "idle", term |-> 0, epoch |-> 0, at |-> "never",
         role |-> "follower", quorum |-> FALSE, event |-> NoEvent,
         transfer |-> FALSE]

NoCall == [pc |-> "idle", epoch |-> 0]

Owner(epoch) == IF epoch = 0 THEN "none" ELSE acquired[epoch].owner
TermOf(epoch) == IF epoch = 0 THEN 0 ELSE acquired[epoch].term
LastEpoch == Len(acquired)

\* This node leads and no later term has begun: its quorum is behind it.
Genuine == leads /\ leader = "self"

\* A barrier has been applied, but a halted state machine stands still.
AppliedByBarrier == IF faults = 0 THEN LastEpoch ELSE applied

(* What checkLocalBusinessLeadership looks at, one after the other: the    *)
(* metadata, whose epoch it goes on with, the fault and the term, and the  *)
(* cached status.                                                          *)
MetadataAllows == capable /\ Owner(applied) = "self"

\* Mutant of TermAllows: the term is not compared.
AnyTermAllows(epoch) == faults = 0

TermAllows(epoch) == faults = 0 /\ TermOf(epoch) = myTerm

StatusAllows(epoch) ==
  /\ status.role = "leader" /\ status.quorum /\ status.epoch = epoch
  /\ verified = "fresh"

\* The whole check, at one moment.
HasBusinessLeadership ==
  leads /\ MetadataAllows /\ TermAllows(applied) /\ StatusAllows(applied)

-----------------------------------------------------------------------------
(* refreshStatus.  The monitor verifies the quorum; the requests do not    *)
(* (nor does the monitor's first call, which finds what a request finds).  *)

\* raft.Stats() comes first, and what it tells may be outdated below.
BeginRefresh(p) ==
  /\ Free
  /\ running
  /\ refresh[p].pc = "idle"
  /\ p = "request" => MaxRequests > 0
  /\ refresh' = [refresh EXCEPT ![p].pc = "stats", ![p].term = myTerm]
  /\ UNCHANGED <<eventVars, raftVars, fsmVars, verified, expiries, watch, call,
                 transferring, running>>

\* What updateStatus and setLeadership are going to be told.
Outcome(r, role, quorum, at, active, epoch) ==
  [r EXCEPT !.pc = "publish", !.term = 0, !.role = role, !.quorum = quorum,
            !.at = at, !.event = [active |-> active, epoch |-> epoch]]

ReadState(p) ==
  /\ refresh[p].pc = "stats"
  /\ LET r == [refresh[p] EXCEPT !.epoch = applied, !.at = "fresh"]
     IN  refresh' = [refresh EXCEPT ![p] =
           CASE ~leads ->
                  Outcome(r, "follower", FALSE, "never", FALSE, applied)
             [] leads /\ ~capable ->
                  [Outcome(r, "leader_warming", FALSE, "never", FALSE, applied)
                     EXCEPT !.transfer = TRUE]
             [] leads /\ capable /\ (Owner(applied) # "self"
                                     \/ TermOf(applied) # r.term) ->
                  [r EXCEPT !.pc = "acquire"]
             [] OTHER -> [r EXCEPT !.pc = "verify", !.term = 0]]
  /\ UNCHANGED <<eventVars, raftVars, fsmVars, verified, expiries, watch, call,
                 transferring, running>>

\* Mutant of CommitAcquisition: every command takes an epoch.
CommitAnyAcquisition(t) ==
  acquired' = Append(acquired, [owner |-> "self", term |-> t])

\* acquire_leadership is committed: a term that is not new changes nothing.
CommitAcquisition(t) ==
  acquired' = IF t > TermOf(LastEpoch)
              THEN Append(acquired, [owner |-> "self", term |-> t])
              ELSE acquired

\* This node's command for the term has been applied: the same command again
\* is a duplicate and succeeds, however old the term is.
AcquiredBefore(t) ==
  \E e \in 1..LastEpoch : Owner(e) = "self" /\ TermOf(e) = t

\* acquireLeadership
AcquireOk(p) ==
  /\ refresh[p].pc = "acquire"
  /\ Genuine
  /\ faults = 0
  /\ refresh[p].term # 0
  /\ \/ refresh[p].term >= TermOf(LastEpoch)
     \/ AcquiredBefore(refresh[p].term)
  /\ CommitAcquisition(refresh[p].term)
  /\ applied' = Len(acquired')
  /\ refresh' = [refresh EXCEPT ![p].pc = "reread", ![p].term = 0]
  /\ UNCHANGED <<eventVars, raftVars, capable, faults, verified, expiries,
                 watch, call, transferring, running>>

\* The command is refused, lost, late or applied by a halted state machine, or
\* the one that initializes the members fails after it.
AcquireFails(p) ==
  /\ refresh[p].pc = "acquire"
  /\ \/ UNCHANGED acquired
     \/ Genuine /\ refresh[p].term # 0 /\ CommitAcquisition(refresh[p].term)
  /\ refresh' = [refresh EXCEPT ![p] =
       Outcome(@, "leader_warming", FALSE, "never", FALSE, 0)]
  /\ UNCHANGED <<eventVars, raftVars, applied, capable, faults, verified,
                 expiries, watch, call, transferring, running>>

Reread(p) ==
  /\ refresh[p].pc = "reread"
  /\ refresh' = [refresh EXCEPT ![p].pc = "verify", ![p].epoch = applied]
  /\ UNCHANGED <<eventVars, raftVars, fsmVars, verified, expiries, watch, call,
                 transferring, running>>

\* Mutant of Led: whose epoch it is does not matter.
LedByAnyone(r, quorum, at) ==
  Outcome(r, IF quorum THEN "leader" ELSE "leader_warming", quorum, at,
          quorum, r.epoch)

\* The role a Raft leader gives itself.
Led(r, quorum, at) ==
  LET own == quorum /\ Owner(r.epoch) = "self"
  IN  Outcome(r, IF own THEN "leader" ELSE "leader_warming", quorum, at,
              own, r.epoch)

\* VerifyLeader and Barrier.
VerifyOk ==
  /\ refresh["monitor"].pc = "verify"
  /\ Genuine
  /\ applied' = AppliedByBarrier
  /\ refresh' = [refresh EXCEPT !["monitor"] = Led(@, TRUE, @.at)]
  /\ UNCHANGED <<eventVars, raftVars, acquired, capable, faults, verified,
                 expiries, watch, call, transferring, running>>

VerifyFails ==
  /\ refresh["monitor"].pc = "verify"
  /\ refresh' = [refresh EXCEPT !["monitor"] =
       Outcome(@, "leader_warming", FALSE, "never", FALSE, @.epoch)]
  /\ UNCHANGED <<eventVars, raftVars, fsmVars, verified, expiries, watch, call,
                 transferring, running>>

\* A request goes by the last verification.
VerifyFromCache ==
  /\ Free
  /\ refresh["request"].pc = "verify"
  /\ refresh' = [refresh EXCEPT !["request"] =
       Led(@, verified = "fresh", verified)]
  /\ UNCHANGED <<eventVars, raftVars, fsmVars, verified, expiries, watch, call,
                 transferring, running>>

\* Mutant of PublishStatus: QuorumVerifiedAt is not written.
PublishWithoutTime(p) ==
  LET r == refresh[p]
  IN  /\ r.pc = "publish"
      /\ WriteStatus([role |-> r.role, quorum |-> r.quorum, epoch |-> r.epoch])
      /\ refresh' = [refresh EXCEPT ![p] =
           [Idle EXCEPT !.pc = "set", !.event = r.event, !.transfer = r.transfer]]
      /\ UNCHANGED <<raftVars, fsmVars, verified, expiries, watch, call,
                     transferring, running>>

\* updateStatus
PublishStatus(p) ==
  LET r == refresh[p]
  IN  /\ r.pc = "publish"
      /\ WriteStatus([role |-> r.role, quorum |-> r.quorum, epoch |-> r.epoch])
      /\ verified' = IF r.at = "never" THEN verified ELSE r.at
      /\ refresh' = [refresh EXCEPT ![p] =
           [Idle EXCEPT !.pc = "set", !.event = r.event, !.transfer = r.transfer]]
      /\ UNCHANGED <<raftVars, fsmVars, expiries, watch, call, transferring,
                     running>>

\* Mutant of Announce: followers are not announced.
AnnounceLeaders(p) ==
  /\ refresh[p].pc = "set"
  /\ SetLeadership(IF refresh[p].event.active THEN refresh[p].event
                   ELSE leadership)
  /\ refresh' = [refresh EXCEPT ![p] = Idle]
  /\ transferring' = (transferring \/ refresh[p].transfer)
  /\ UNCHANGED <<raftVars, fsmVars, verified, expiries, watch, call, running>>

\* setLeadership, and LeadershipTransfer in the background.
Announce(p) ==
  /\ refresh[p].pc = "set"
  /\ SetLeadership(refresh[p].event)
  /\ refresh' = [refresh EXCEPT ![p] = Idle]
  /\ transferring' = (transferring \/ refresh[p].transfer)
  /\ UNCHANGED <<raftVars, fsmVars, verified, expiries, watch, call, running>>

\* The monitor ends.
StopMonitor ==
  /\ running /\ MaxStops > 0
  /\ refresh["monitor"].pc = "idle"
  /\ SetLeadership(NoEvent)
  /\ running' = FALSE
  /\ UNCHANGED <<raftVars, fsmVars, verified, expiries, refresh, watch, call,
                 transferring>>

-----------------------------------------------------------------------------
(* watchRaftLeadership.                                                    *)

TakeLeaderCh ==
  /\ running
  /\ watch = "idle"
  /\ leaderCh # "none"
  /\ leaderCh' = "none"
  /\ watch' = IF leaderCh = "lost" THEN "cache" ELSE "idle"
  /\ UNCHANGED <<eventVars, term, leader, myTerm, leads, fsmVars, verified,
                 expiries, refresh, call, transferring, running>>

\* updateCachedLeadership(false, ...)
CacheLoss == WriteStatus([status EXCEPT !.role = "follower", !.quorum = FALSE])

WatchCache ==
  /\ watch = "cache"
  /\ CacheLoss
  /\ watch' = "set"
  /\ UNCHANGED <<raftVars, fsmVars, verified, expiries, refresh, call,
                 transferring, running>>

WatchAnnounce ==
  /\ watch = "set"
  /\ SetLeadership(NoEvent)
  /\ watch' = "idle"
  /\ UNCHANGED <<raftVars, fsmVars, verified, expiries, refresh, call,
                 transferring, running>>

-----------------------------------------------------------------------------
(* VerifyBusinessLeadership.                                               *)

\* checkLocalBusinessLeadership: the state of Raft ...
BeginVerify ==
  /\ Free
  /\ call.pc = "idle" /\ MaxCalls > 0
  /\ leads
  /\ call' = [call EXCEPT !.pc = "metadata"]
  /\ UNCHANGED <<eventVars, raftVars, fsmVars, verified, expiries, refresh,
                 watch, transferring, running>>

\* ... the metadata ...
CheckMetadata ==
  /\ call.pc = "metadata"
  /\ MetadataAllows
  /\ call' = [pc |-> "term", epoch |-> applied]
  /\ UNCHANGED <<eventVars, raftVars, fsmVars, verified, expiries, refresh,
                 watch, transferring, running>>

\* ... the fault and the term ...
CheckTerm ==
  /\ call.pc = "term"
  /\ TermAllows(call.epoch)
  /\ call' = [call EXCEPT !.pc = "status"]
  /\ UNCHANGED <<eventVars, raftVars, fsmVars, verified, expiries, refresh,
                 watch, transferring, running>>

\* ... and the cached status.
CheckStatus ==
  /\ Free
  /\ call.pc = "status"
  /\ StatusAllows(call.epoch)
  /\ call' = [NoCall EXCEPT !.pc = "quorum"]
  /\ UNCHANGED <<eventVars, raftVars, fsmVars, verified, expiries, refresh,
                 watch, transferring, running>>

\* VerifyLeader and Barrier.
CheckQuorum ==
  /\ call.pc = "quorum"
  /\ \/ /\ Genuine
        /\ call' = [call EXCEPT !.pc = "ok"] /\ applied' = AppliedByBarrier
     \/ call' = [call EXCEPT !.pc = "failed"] /\ UNCHANGED applied
  /\ UNCHANGED <<eventVars, raftVars, acquired, capable, faults, verified,
                 expiries, refresh, watch, transferring, running>>

\* updateCachedLeadership; n.leadership is left alone.
EndVerify ==
  /\ \/ /\ call.pc = "ok"
        /\ WriteStatus([role |-> "leader", quorum |-> TRUE, epoch |-> applied])
        /\ verified' = "fresh"
     \/ /\ call.pc = "failed"
        /\ CacheLoss
        /\ UNCHANGED verified
  /\ call' = NoCall
  /\ UNCHANGED <<raftVars, fsmVars, expiries, refresh, watch, transferring,
                 running>>

\* A check fails, or ctx ends first.
AbandonVerify ==
  /\ call.pc # "idle"
  /\ call' = NoCall
  /\ UNCHANGED <<eventVars, raftVars, fsmVars, verified, expiries, refresh,
                 watch, transferring, running>>

-----------------------------------------------------------------------------
(* Raft, the other nodes and time (external).                              *)

ElectSelf ==
  /\ running
  /\ ~leads
  /\ term < MaxTerm
  /\ term' = term + 1 /\ myTerm' = term'
  /\ leads' = TRUE /\ leader' = "self"
  /\ leaderCh' = "gained"
  /\ UNCHANGED <<eventVars, fsmVars, verified, expiries, procVars>>

ElectOther ==
  /\ term < MaxTerm
  /\ term' = term + 1
  /\ leader' = "other"
  /\ UNCHANGED <<eventVars, myTerm, leads, leaderCh, fsmVars, verified,
                 expiries, procVars>>

\* The lease runs out, a newer term is heard of, or Raft is shut down.
LoseLeadership ==
  /\ leads
  /\ leads' = FALSE
  /\ leader' = IF leader = "self" THEN "none" ELSE leader
  /\ myTerm' \in {myTerm, term}
  /\ leaderCh' = "lost"
  /\ UNCHANGED <<term>>

StepDown ==
  /\ LoseLeadership
  /\ UNCHANGED <<eventVars, fsmVars, verified, expiries, procVars>>

EndTransfer ==
  /\ transferring
  /\ transferring' = FALSE
  /\ LoseLeadership \/ UNCHANGED raftVars
  /\ UNCHANGED <<eventVars, fsmVars, verified, expiries, refresh, watch, call,
                 running>>

HearOfTerm ==
  /\ ~leads
  /\ myTerm < term
  /\ myTerm' = term
  /\ UNCHANGED <<eventVars, term, leader, leads, leaderCh, fsmVars, verified,
                 expiries, procVars>>

\* acquireLeadership and its command, on another node.
OtherAcquires ==
  /\ leader = "other"
  /\ TermOf(LastEpoch) < term
  /\ acquired' = Append(acquired, [owner |-> "other", term |-> term])
  /\ UNCHANGED <<eventVars, raftVars, applied, capable, faults, verified,
                 expiries, procVars>>

\* A leader of the past gets no entries until it has stepped down.
ApplyEntry ==
  /\ applied < LastEpoch
  /\ faults = 0
  /\ leads => leader = "self"
  /\ applied' = applied + 1
  /\ UNCHANGED <<eventVars, raftVars, acquired, capable, faults, verified,
                 expiries, procVars>>

\* A gate is applied that asks of leaders what this node cannot do.
RaiseGate ==
  /\ capable /\ MaxGates > 0
  /\ faults = 0
  /\ capable' = FALSE
  /\ UNCHANGED <<eventVars, raftVars, acquired, applied, faults, verified,
                 expiries, procVars>>

Fault ==
  /\ faults < MaxFaults
  /\ faults' = faults + 1
  /\ UNCHANGED <<eventVars, raftVars, acquired, applied, capable, verified,
                 expiries, procVars>>

Expired(at) == IF at = "fresh" THEN "old" ELSE at

Expire ==
  /\ expiries < MaxExpiries
  /\ verified' = Expired(verified)
  /\ refresh' = [p \in Refreshers |->
                   [refresh[p] EXCEPT !.at = Expired(refresh[p].at)]]
  /\ expiries' = expiries + 1
  /\ UNCHANGED <<eventVars, raftVars, fsmVars, watch, call, transferring,
                 running>>

Environment ==
  \/ ElectSelf
  \/ ElectOther
  \/ StepDown
  \/ EndTransfer
  \/ HearOfTerm
  \/ OtherAcquires
  \/ ApplyEntry
  \/ RaiseGate
  \/ Fault
  \/ Expire

Init ==
  /\ EventInit
  /\ term = 0 /\ leader = "none" /\ myTerm = 0 /\ leads = FALSE
  /\ leaderCh = "none"
  /\ acquired = <<>> /\ applied = 0
  /\ capable = TRUE /\ faults = 0
  /\ verified = "never" /\ expiries = 0
  /\ refresh = [p \in Refreshers |-> Idle]
  /\ watch = "idle" /\ call = NoCall
  /\ transferring = FALSE /\ running = TRUE

\* The steps of a refreshStatus call under way.
RefreshStep(p) ==
  \/ ReadState(p)
  \/ AcquireOk(p)
  \/ AcquireFails(p)
  \/ Reread(p)
  \/ p = "monitor" /\ VerifyOk
  \/ p = "monitor" /\ VerifyFails
  \/ p = "request" /\ VerifyFromCache
  \/ PublishStatus(p)
  \/ Announce(p)

WatchStep ==
  \/ TakeLeaderCh
  \/ WatchCache
  \/ WatchAnnounce

CallStep ==
  \/ BeginVerify
  \/ CheckMetadata
  \/ CheckTerm
  \/ CheckStatus
  \/ CheckQuorum
  \/ EndVerify
  \/ AbandonVerify

Next ==
  \/ EventSteps /\ UNCHANGED <<raftVars, fsmVars, verified, expiries, procVars>>
  \/ \E p \in Refreshers : BeginRefresh(p)
  \/ \E p \in Refreshers : RefreshStep(p)
  \/ StopMonitor
  \/ WatchStep
  \/ CallStep
  \/ Environment

\* The monitor ticks on, and goroutines that wait for n.mu get it at last.  A
\* Raft leader that keeps its quorum does not fail to reach it for ever.
Fairness ==
  /\ EventFairness
  /\ SF_vars(BeginRefresh("monitor"))
  /\ \A p \in Refreshers : SF_vars(RefreshStep(p))
  /\ SF_vars(AcquireOk("monitor"))
  /\ SF_vars(VerifyOk)
  /\ SF_vars(WatchStep)

Spec == Init /\ [][Next]_vars /\ Fairness

-----------------------------------------------------------------------------
(* Properties.                                                             *)

Ages == {"never", "old", "fresh"}
Verifications ==
  [pc : {"idle", "metadata", "term", "status", "quorum", "ok", "failed"},
   epoch : Epochs]

\* Every variable has its type.
TypeOK ==
  /\ EventTypeOK
  /\ term \in 0..MaxTerm /\ myTerm \in 0..MaxTerm
  /\ leader \in {"self", "other", "none"}
  /\ leads \in BOOLEAN
  /\ leaderCh \in {"none", "gained", "lost"}
  /\ acquired \in Seq([owner : {"self", "other"}, term : 1..MaxTerm])
  /\ applied \in 0..Len(acquired)
  /\ capable \in BOOLEAN
  /\ faults \in 0..MaxFaults
  /\ verified \in Ages
  /\ expiries \in 0..MaxExpiries
  /\ refresh \in [Refreshers ->
       [pc : {"idle", "stats", "acquire", "reread", "verify", "publish", "set"},
        term : 0..MaxTerm, epoch : Epochs, at : Ages,
        role : {"follower", "leader_warming", "leader"}, quorum : BOOLEAN,
        event : Event, transfer : BOOLEAN]]
  /\ watch \in {"idle", "cache", "set"}
  /\ call \in Verifications
  /\ transferring \in BOOLEAN
  /\ running \in BOOLEAN

\* A node that announces itself as the leader of an epoch has acquired that
\* epoch itself (node.go:412-447), however terms change while refreshStatus
\* runs and while its commands are under way.
AnnouncedEpochIsOwn ==
  leadership.active =>
    /\ leadership.epoch \in 1..Len(acquired)
    /\ acquired[leadership.epoch].owner = "self"

\* Whenever all that node.go:1969-1993 looks at would pass at once on a node that
\* still has its quorum, the epoch it acts under is the newest of the whole cluster: a
\* command it submits cannot carry an epoch another node has taken over.
BusinessLeaderIsNewest ==
  HasBusinessLeadership /\ Genuine =>
    /\ status.epoch = Len(acquired)
    /\ acquired[Len(acquired)].owner = "self"

\* A node that keeps leading with a quorum, healthy and capable, has business
\* leadership again and again: acquisitions and verifications that fail are
\* repeated (node.go:305-323, 412-432).
LeaderTakesOver ==
  <>[](Genuine /\ capable /\ faults = 0 /\ running)
  => []<>HasBusinessLeadership

\* A node that has lost Raft leadership for good stops announcing itself,
\* whatever late refreshes and requests announced meanwhile
\* (node.go:319-320, 371-373, 446-447).
LossIsAnnounced ==
  <>[](~leads /\ running) => <>[]~leadership.active

\* README.md:192-201: the collector of a node that does not lead is stopped.  A
\* node that has lost leadership for good leaves no subscriber with an active
\* event as its newest one.
SubscribersAreStopped ==
  \A s \in Subscribers :
    <>[](~leads /\ running) => <>[]~(sub[s].open /\ Newest(s).active)

\* README.md:10: only a node with business leadership may collect.  A node that
\* announces itself and is refused by its own check does not go on like that.
AnnouncedLeaderMayAct ==
  <>[](leads /\ running) =>
    []<>(leadership.active => HasBusinessLeadership)
=============================================================================
