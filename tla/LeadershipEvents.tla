-------------------------- MODULE LeadershipEvents --------------------------
(***************************************************************************)
(* How a node tells its application who leads: SubscribeLeadership and     *)
(* setLeadership of node.go.  A subscription is a channel that holds one   *)
(* event.  setLeadership holds n.mu while it replaces the unread event of  *)
(* every channel, so whatever else takes n.mu waits for it; the first      *)
(* event of a subscription is sent after n.mu is released, and the channel *)
(* is returned to the caller only after that.                              *)
(*                                                                         *)
(* Reasons are left out of the events.  Subscribers read as the loop of    *)
(* README.md:192-201 does and verify their leadership in the loop's body.  *)
(***************************************************************************)
EXTENDS Naturals, Sequences

CONSTANTS
  Subscribers,  \* identities of subscriptions, used again once ended
  NoSub,
  Epochs        \* leader epochs

ASSUME SubscribersAssumption == NoSub \notin Subscribers
ASSUME EpochsAssumption == Epochs \subseteq Nat /\ 0 \in Epochs

VARIABLES
  status,      \* the part of n.status a subscription reads
  leadership,  \* n.leadership
  setter,      \* the setLeadership call that holds n.mu
  sub          \* sub[s]: the channel and its reader

eventVars == <<status, leadership, setter, sub>>

Event == [active : BOOLEAN, epoch : Epochs]
Statuses == [role : {"follower", "leader_warming", "leader"},
             quorum : BOOLEAN, epoch : Epochs]

NoEvent == [active |-> FALSE, epoch |-> 0]
Unlocked == [pc |-> "unlocked", todo |-> {}, ch |-> NoSub]

\* synced is history: the first event was what n.leadership held, and no event
\* of setLeadership overtook it.
NotSubscribed == [pc |-> "none", open |-> FALSE, buf |-> <<>>,
                  first |-> NoEvent, last |-> NoEvent, synced |-> FALSE]

\* Nobody holds n.mu across a step.
Free == setter.pc = "unlocked"

Registered == {s \in Subscribers : sub[s].open}

FirstEvent == [active |-> status.role = "leader" /\ status.quorum,
               epoch |-> status.epoch]

-----------------------------------------------------------------------------
(* SubscribeLeadership and the reader.                                     *)

Subscribe(s) ==
  /\ Free
  /\ sub[s].pc = "none"
  /\ sub' = [sub EXCEPT ![s] = [NotSubscribed EXCEPT
       !.pc = "sending", !.open = TRUE, !.first = FirstEvent,
       !.synced = FirstEvent = leadership]]
  /\ UNCHANGED <<status, leadership, setter>>

Returned(s) == [sub[s] EXCEPT !.pc = "reading", !.buf = <<sub[s].first>>,
                              !.first = NoEvent]

\* With room in the channel the call sends and returns; without, it parks.
SendFirst(s) ==
  /\ sub[s].pc = "sending"
  /\ sub' = [sub EXCEPT ![s] = IF @.buf = <<>> THEN Returned(s)
                               ELSE [@ EXCEPT !.pc = "parked"]]
  /\ UNCHANGED <<status, leadership, setter>>

Receive(s) ==
  /\ sub[s].pc = "reading"
  /\ sub[s].buf # <<>>
  /\ sub' = [sub EXCEPT ![s].pc = "handling", ![s].buf = <<>>,
                        ![s].last = Head(sub[s].buf)]
  /\ UNCHANGED <<status, leadership, setter>>

\* The body of the loop calls a method that takes n.mu.
Handle(s) ==
  /\ Free
  /\ sub[s].pc = "handling"
  /\ sub' = [sub EXCEPT ![s].pc = "reading"]
  /\ UNCHANGED <<status, leadership, setter>>

\* Mutant of Cancel: the channel is closed without n.mu.
CancelUnlocked(s) ==
  /\ sub[s].pc \in {"reading", "handling"}
  /\ sub[s].open
  /\ sub' = [sub EXCEPT ![s].open = FALSE]
  /\ UNCHANGED <<status, leadership, setter>>

\* ctx is cancelled: the goroutine started after the first send closes the
\* channel.
Cancel(s) ==
  /\ Free
  /\ sub[s].pc \in {"reading", "handling"}
  /\ sub[s].open
  /\ sub' = [sub EXCEPT ![s].open = FALSE]
  /\ UNCHANGED <<status, leadership, setter>>

\* The range over a closed and empty channel ends.
EndLoop(s) ==
  /\ sub[s].pc = "reading"
  /\ ~sub[s].open
  /\ sub[s].buf = <<>>
  /\ sub' = [sub EXCEPT ![s] = NotSubscribed]
  /\ UNCHANGED <<status, leadership, setter>>

-----------------------------------------------------------------------------
(* setLeadership.                                                          *)

SetLeadership(event) ==
  /\ Free
  /\ IF leadership = event
     THEN UNCHANGED <<leadership, setter>>
     ELSE /\ leadership' = event
          /\ setter' = [pc |-> "loop", todo |-> Registered, ch |-> NoSub]
  /\ UNCHANGED <<status, sub>>

\* A channel's new contents; what comes before the first event overtakes it.
Filled(s) == [sub[s] EXCEPT !.buf = <<leadership>>,
                            !.synced = @ /\ sub[s].pc # "sending"]

\* Mutant of Done: the channel's turn comes again.
DoneForNow(s) == [pc |-> "loop", todo |-> setter.todo, ch |-> NoSub]

Done(s) == [pc |-> "loop", todo |-> setter.todo \ {s}, ch |-> NoSub]

\* One channel of the loop: the send succeeds at once, or the unread event has
\* to go first.
TrySend(s) ==
  /\ setter.pc = "loop"
  /\ s \in setter.todo
  /\ IF sub[s].buf = <<>>
     THEN sub' = [sub EXCEPT ![s] = Filled(s)] /\ setter' = Done(s)
     ELSE setter' = [setter EXCEPT !.pc = "drain", !.ch = s] /\ UNCHANGED sub
  /\ UNCHANGED <<status, leadership>>

\* Mutant of Drain: the unread event stays.
NoDrain ==
  /\ setter.pc = "drain"
  /\ setter' = [setter EXCEPT !.pc = "send"]
  /\ UNCHANGED <<status, leadership, sub>>

\* The reader may have taken it meanwhile.  A parked send takes the room at
\* once, and its SubscribeLeadership returns.
Drain ==
  /\ setter.pc = "drain"
  /\ sub' = [sub EXCEPT ![setter.ch] =
       IF @.pc = "parked" THEN Returned(setter.ch) ELSE [@ EXCEPT !.buf = <<>>]]
  /\ setter' = [setter EXCEPT !.pc = "send"]
  /\ UNCHANGED <<status, leadership>>

\* Mutant of Send: the event is dropped.
DropEvent ==
  /\ setter.pc = "send"
  /\ sub[setter.ch].buf = <<>>
  /\ setter' = Done(setter.ch)
  /\ UNCHANGED <<status, leadership, sub>>

\* This send waits for room, holding n.mu.
Send ==
  /\ setter.pc = "send"
  /\ sub[setter.ch].buf = <<>>
  /\ sub' = [sub EXCEPT ![setter.ch] = Filled(setter.ch)]
  /\ setter' = Done(setter.ch)
  /\ UNCHANGED <<status, leadership>>

Unlock ==
  /\ setter.pc = "loop"
  /\ setter.todo = {}
  /\ setter' = Unlocked
  /\ UNCHANGED <<status, leadership, sub>>

-----------------------------------------------------------------------------
(* The callers, as far as this module knows them: any status is written    *)
(* under n.mu, and any event set, in any order.  BusinessLeadership has    *)
(* the callers the node has.                                               *)

WriteStatus(new) ==
  /\ Free
  /\ status' = new
  /\ UNCHANGED <<leadership, setter, sub>>

EventInit ==
  /\ status = [role |-> "follower", quorum |-> FALSE, epoch |-> 0]
  /\ leadership = NoEvent
  /\ setter = Unlocked
  /\ sub = [s \in Subscribers |-> NotSubscribed]

\* The steps that need no caller.
EventSteps ==
  \/ \E s \in Subscribers : Subscribe(s)
  \/ \E s \in Subscribers : SendFirst(s)
  \/ \E s \in Subscribers : Receive(s)
  \/ \E s \in Subscribers : Handle(s)
  \/ \E s \in Subscribers : Cancel(s)
  \/ \E s \in Subscribers : EndLoop(s)
  \/ \E s \in Subscribers : TrySend(s)
  \/ Drain
  \/ Send
  \/ Unlock

EventNext ==
  \/ EventSteps
  \/ \E new \in Statuses : WriteStatus(new)
  \/ \E event \in Event : SetLeadership(event)

\* The goroutines run on: a send goes through once there is room, readers read.
EventFairness ==
  /\ \A s \in Subscribers :
       /\ WF_eventVars(SendFirst(s))
       /\ WF_eventVars(Receive(s))
       /\ WF_eventVars(Handle(s))
       /\ WF_eventVars(EndLoop(s))
       /\ WF_eventVars(TrySend(s))
  /\ WF_eventVars(Drain)
  /\ WF_eventVars(Send)
  /\ WF_eventVars(Unlock)

EventSpec == EventInit /\ [][EventNext]_eventVars /\ EventFairness

-----------------------------------------------------------------------------
(* Properties.                                                             *)

\* Every variable has its type.
EventTypeOK ==
  /\ status \in Statuses
  /\ leadership \in Event
  /\ setter \in [pc : {"unlocked", "loop", "drain", "send"},
                 todo : SUBSET Subscribers, ch : Subscribers \cup {NoSub}]
  /\ sub \in [Subscribers ->
       [pc : {"none", "sending", "parked", "reading", "handling"},
        open : BOOLEAN, buf : {<<>>} \cup {<<e>> : e \in Event}, first : Event,
        last : Event, synced : BOOLEAN]]

\* SubscribeLeadership has registered the channel and has not returned it.
Subscribing(s) == sub[s].pc \in {"sending", "parked"}

\* The newest event s was sent: unread, still to be sent, or read last.
Newest(s) ==
  IF sub[s].buf # <<>> THEN sub[s].buf[1]
  ELSE IF Subscribing(s) THEN sub[s].first
  ELSE sub[s].last

\* Whenever no setLeadership is under way, the newest event of a subscription
\* that began in step with n.leadership is n.leadership, however reads, drains
\* and sends interleave (node.go:1938-1959): no change is lost.
NoChangeIsLost ==
  Free => \A s \in Registered : sub[s].synced => Newest(s) = leadership

\* No channel is closed while setLeadership has it on its list or is sending
\* to it, nor before its first event is sent: a send on a closed channel would
\* end the process (node.go:1927-1933, 1946-1955).
SendsToOpenChannels ==
  /\ setter.todo \subseteq Registered
  /\ setter.ch # NoSub => sub[setter.ch].open
  /\ \A s \in Subscribers : Subscribing(s) => sub[s].open

\* setLeadership finds no room, with n.mu held, only in a channel whose first
\* event was overtaken (node.go:1955): a subscription that was in step never
\* blocks it, however slowly it reads.
OnlyOvertakenBlocks ==
  setter.pc = "send" /\ sub[setter.ch].buf # <<>> => ~sub[setter.ch].synced

\* setLeadership always releases n.mu, even after it met an overtaken first
\* event, as long as the readers read (node.go:1938-1958).
LockIsReleased == setter.pc # "unlocked" ~> setter.pc = "unlocked"

\* README.md:192: SubscribeLeadership returns the channel to read from, however
\* it races with a change of leadership.
SubscribeReturns ==
  \A s \in Subscribers : Subscribing(s) ~> ~Subscribing(s)
=============================================================================
