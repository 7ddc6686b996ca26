---------------------- MODULE BusinessLeadershipProofs ----------------------
(***************************************************************************)
(* First the leadership events, for any number of subscriptions, readers   *)
(* of any speed and callers in any order; then who may act as the leader,  *)
(* for any number of terms, epochs, requests and faults.                   *)
(***************************************************************************)
EXTENDS BusinessLeadership, TLAPS

-----------------------------------------------------------------------------
(* Leadership events.  A channel whose turn in setLeadership is over, or   *)
(* that is not on its list, holds or has delivered n.leadership            *)
(* (UpToDate).  Only a channel whose first event was overtaken can be      *)
(* found full a second time: Overtaken follows such a channel from the     *)
(* send that overtook it to the one that would block.                      *)

SetterOK ==
  /\ setter.pc = "unlocked" => setter.todo = {}
  /\ setter.pc \in {"unlocked", "loop"} => setter.ch = NoSub
  /\ setter.pc \in {"drain", "send"} => setter.ch \in setter.todo

UpToDate ==
  \A s \in Subscribers :
    s \notin setter.todo /\ sub[s].open /\ sub[s].synced => Newest(s) = leadership

Overtaken ==
  /\ \A s \in Subscribers :
       /\ sub[s].pc = "parked" => ~sub[s].synced
       /\ sub[s].pc = "sending" /\ sub[s].buf # <<>> => ~sub[s].synced
  /\ \A s \in Subscribers :
       setter.pc \in {"drain", "send"} /\ s = setter.ch /\ Subscribing(s)
         => ~sub[s].synced

IInv == EventTypeOK /\ SetterOK /\ SendsToOpenChannels /\ UpToDate /\ Overtaken
        /\ OnlyOvertakenBlocks

Buffers == {<<>>} \cup {<<e>> : e \in Event}

Subscription ==
  [pc : {"none", "sending", "parked", "reading", "handling"},
   open : BOOLEAN, buf : Buffers, first : Event, last : Event, synced : BOOLEAN]

Setters == [pc : {"unlocked", "loop", "drain", "send"},
            todo : SUBSET Subscribers, ch : Subscribers \cup {NoSub}]

-----------------------------------------------------------------------------
(* The types, with names for the records. *)
LEMMA Types ==
  EventTypeOK <=> /\ status \in Statuses /\ leadership \in Event
                  /\ setter \in Setters /\ sub \in [Subscribers -> Subscription]
BY DEF EventTypeOK, Setters, Subscription, Buffers

(* A channel holds at most one event. *)
LEMMA OneEvent ==
  ASSUME NEW b \in Buffers, b # <<>>
  PROVE  b[1] \in Event /\ Head(b) = b[1] /\ Head(b) \in Event
<1> PICK e \in Event : b = <<e>>
  BY DEF Buffers
<1> QED
  OBVIOUS

(* A channel that was sent an event holds that event. *)
LEMMA Single ==
  ASSUME NEW e \in Event
  PROVE  <<e>> \in Buffers /\ <<e>> # <<>> /\ <<e>>[1] = e
BY DEF Buffers

(* Nothing happens before there are subscriptions. *)
LEMMA InitInvariant == EventInit => IInv
<1> SUFFICES ASSUME EventInit PROVE IInv
  OBVIOUS
<1>1. NoEvent \in Event
  BY EpochsAssumption DEF NoEvent, Event
<1>2. NotSubscribed \in Subscription
  BY <1>1 DEF NotSubscribed, Subscription, Buffers
<1>3. EventTypeOK
  <2>1. status \in Statuses
    BY EpochsAssumption DEF EventInit, Statuses
  <2> QED
    BY <1>1, <1>2, <2>1, Types DEF EventInit, Setters, Unlocked
<1>4. \A s \in Subscribers : sub[s].pc = "none" /\ ~sub[s].open /\ sub[s].buf = <<>>
  BY DEF EventInit, NotSubscribed
<1>5. setter.pc = "unlocked" /\ setter.todo = {} /\ setter.ch = NoSub
  BY DEF EventInit, Unlocked
<1> QED
  BY <1>3, <1>4, <1>5
  DEF IInv, SetterOK, SendsToOpenChannels, UpToDate, Overtaken, Subscribing,
      OnlyOvertakenBlocks

-----------------------------------------------------------------------------
(* What a step that changes one subscription has to show of it; the others *)
(* and the setter stay as they are.                                        *)
LEMMA OneSubscription ==
  ASSUME IInv, NEW s \in Subscribers, NEW r \in Subscription,
         sub' = [sub EXCEPT ![s] = r],
         UNCHANGED <<leadership, setter>>, status' \in Statuses,
         s \in setter.todo \/ setter.ch = s => r.open,
         r.pc \in {"sending", "parked"} => r.open,
         s \notin setter.todo /\ r.open /\ r.synced =>
           leadership = IF r.buf # <<>> THEN r.buf[1]
                        ELSE IF r.pc \in {"sending", "parked"} THEN r.first ELSE r.last,
         r.pc = "parked" => ~r.synced,
         r.pc = "sending" /\ r.buf # <<>> => ~r.synced,
         setter.pc \in {"drain", "send"} /\ setter.ch = s
           /\ r.pc \in {"sending", "parked"} => ~r.synced,
         setter.pc = "send" /\ setter.ch = s /\ r.buf # <<>> => ~r.synced
  PROVE  IInv'
<1>1. sub \in [Subscribers -> Subscription] /\ setter \in Setters /\ leadership \in Event
  BY Types DEF IInv
<1>2. sub'[s] = r /\ \A t \in Subscribers : t # s => sub'[t] = sub[t]
  BY <1>1
<1>3. EventTypeOK'
  <2>1. sub' \in [Subscribers -> Subscription]
    BY <1>1
  <2> QED
    BY <1>1, <2>1 DEF EventTypeOK, Setters, Subscription, Buffers
<1>4. SetterOK'
  BY DEF IInv, SetterOK
<1>5. SendsToOpenChannels'
  BY <1>1, <1>2 DEF IInv, SendsToOpenChannels, Registered, Subscribing, Setters
<1>6. UpToDate'
  BY <1>1, <1>2 DEF IInv, UpToDate, Newest, Subscribing
<1>7. Overtaken'
  BY <1>1, <1>2 DEF IInv, Overtaken, Subscribing
<1>8. OnlyOvertakenBlocks'
  BY <1>1, <1>2 DEF IInv, OnlyOvertakenBlocks, SetterOK, Setters
<1> QED
  BY <1>3, <1>4, <1>5, <1>6, <1>7, <1>8 DEF IInv

(* The fields a subscription has. *)
LEMMA Fields ==
  ASSUME IInv, NEW s \in Subscribers
  PROVE  /\ sub[s] \in Subscription
         /\ sub[s].pc \in {"none", "sending", "parked", "reading", "handling"}
         /\ sub[s].open \in BOOLEAN /\ sub[s].synced \in BOOLEAN
         /\ sub[s].buf \in Buffers /\ sub[s].first \in Event /\ sub[s].last \in Event
         /\ status \in Statuses
<1>1. sub \in [Subscribers -> Subscription] /\ status \in Statuses
  BY Types DEF IInv
<1> QED
  BY <1>1 DEF Subscription

(* SubscribeLeadership and the readers keep the invariant. *)
LEMMA SubscriptionPreserves ==
  ASSUME IInv, NEW s \in Subscribers,
         \/ Subscribe(s) \/ SendFirst(s) \/ Receive(s) \/ Handle(s)
         \/ Cancel(s) \/ EndLoop(s)
  PROVE  IInv'
<1> USE Fields
<1>0. NoEvent \in Event
  BY EpochsAssumption DEF NoEvent, Event
<1>1. CASE Subscribe(s)
  <2> DEFINE r == [NotSubscribed EXCEPT !.pc = "sending", !.open = TRUE,
                     !.first = FirstEvent, !.synced = FirstEvent = leadership]
  <2>1. FirstEvent \in Event
    BY DEF FirstEvent, Event, Statuses
  <2>2. /\ r.pc = "sending" /\ r.open = TRUE /\ r.buf = <<>> /\ r.first = FirstEvent
        /\ r.last = NoEvent /\ r.synced = (FirstEvent = leadership)
    BY DEF NotSubscribed
  <2>3. r \in Subscription
    BY <1>0, <2>1 DEF NotSubscribed, Subscription, Buffers
  <2>4. setter.pc = "unlocked" /\ setter.ch = NoSub /\ setter.todo = {}
    BY <1>1 DEF Subscribe, Free, IInv, SetterOK
  <2>5. sub' = [sub EXCEPT ![s] = r] /\ UNCHANGED <<leadership, setter, status>>
    BY <1>1 DEF Subscribe
  <2> HIDE DEF r
  <2> QED
    BY <2>2, <2>3, <2>4, <2>5, OneSubscription, SubscribersAssumption
<1>2. CASE SendFirst(s)
  <2>1. CASE sub[s].buf = <<>>
    <3> DEFINE r == Returned(s)
    <3>1. /\ r.pc = "reading" /\ r.open = sub[s].open /\ r.buf = <<sub[s].first>>
          /\ r.synced = sub[s].synced
      BY DEF Returned, Subscription
    <3>2. r \in Subscription
      BY <1>0, Single DEF Returned, Subscription
    <3>3. sub' = [sub EXCEPT ![s] = r] /\ UNCHANGED <<leadership, setter, status>>
      BY <1>2, <2>1 DEF SendFirst
    <3>4. r.buf # <<>> /\ r.buf[1] = sub[s].first
      BY <3>1, Single
    <3>5. sub[s].pc = "sending"
      BY <1>2 DEF SendFirst
    <3> HIDE DEF r
    <3>6. s \in setter.todo \/ setter.ch = s => r.open
      BY <3>1, <3>5 DEF IInv, SendsToOpenChannels, Subscribing
    <3>7. s \notin setter.todo /\ r.open /\ r.synced => leadership = r.buf[1]
      BY <3>1, <3>4, <3>5, <2>1 DEF IInv, UpToDate, Newest, Subscribing
    <3>8. setter.pc = "send" /\ setter.ch = s => ~r.synced
      BY <3>1, <3>5 DEF IInv, Overtaken, Subscribing
    <3> QED
      BY <3>1, <3>2, <3>3, <3>4, <3>6, <3>7, <3>8, OneSubscription
  <2>2. CASE sub[s].buf # <<>>
    <3> DEFINE r == [sub[s] EXCEPT !.pc = "parked"]
    <3>1. /\ r.pc = "parked" /\ r.open = sub[s].open /\ r.buf = sub[s].buf
          /\ r.synced = sub[s].synced /\ r \in Subscription
      BY DEF Subscription
    <3>2. sub' = [sub EXCEPT ![s] = r] /\ UNCHANGED <<leadership, setter, status>>
      BY <1>2, <2>2 DEF SendFirst
    <3>3. sub[s].pc = "sending"
      BY <1>2 DEF SendFirst
    <3> HIDE DEF r
    <3>4. ~r.synced /\ r.open
      BY <3>1, <3>3, <2>2 DEF IInv, Overtaken, SendsToOpenChannels, Subscribing
    <3> QED
      BY <3>1, <3>2, <3>4, OneSubscription
  <2> QED
    BY <2>1, <2>2
<1>3. CASE Receive(s)
  <2> DEFINE r == [sub[s] EXCEPT !.pc = "handling", !.buf = <<>>,
                                 !.last = Head(sub[s].buf)]
  <2>0. sub[s].buf # <<>> /\ sub[s].pc = "reading"
    BY <1>3 DEF Receive
  <2>1. Head(sub[s].buf) = sub[s].buf[1] /\ Head(sub[s].buf) \in Event
    BY <2>0, OneEvent
  <2>2. /\ r.pc = "handling" /\ r.open = sub[s].open /\ r.buf = <<>>
        /\ r.synced = sub[s].synced /\ r.last = sub[s].buf[1]
    BY <2>1 DEF Subscription
  <2>3. r \in Subscription
    BY <2>1 DEF Subscription, Buffers
  <2>4. sub' = [sub EXCEPT ![s] = r] /\ UNCHANGED <<leadership, setter, status>>
    BY <1>3 DEF Receive
  <2> HIDE DEF r
  <2>5. s \in setter.todo \/ setter.ch = s => r.open
    BY <2>2, SubscribersAssumption DEF IInv, SendsToOpenChannels, Registered
  <2>6. s \notin setter.todo /\ r.open /\ r.synced => leadership = r.last
    BY <2>0, <2>2 DEF IInv, UpToDate, Newest
  <2> QED
    BY <2>2, <2>3, <2>4, <2>5, <2>6, OneSubscription
<1>4. CASE Handle(s)
  <2> DEFINE r == [sub[s] EXCEPT !.pc = "reading"]
  <2>1. /\ r.pc = "reading" /\ r.open = sub[s].open /\ r.buf = sub[s].buf
        /\ r.synced = sub[s].synced /\ r.last = sub[s].last /\ r \in Subscription
    BY DEF Subscription
  <2>2. sub' = [sub EXCEPT ![s] = r] /\ UNCHANGED <<leadership, setter, status>>
    BY <1>4 DEF Handle
  <2>3. setter.pc = "unlocked" /\ setter.ch = NoSub /\ setter.todo = {}
        /\ sub[s].pc = "handling"
    BY <1>4 DEF Handle, Free, IInv, SetterOK
  <2> HIDE DEF r
  <2>4. s \notin setter.todo /\ r.open /\ r.synced =>
          leadership = IF r.buf # <<>> THEN r.buf[1] ELSE r.last
    BY <2>1, <2>3 DEF IInv, UpToDate, Newest, Subscribing
  <2> QED
    BY <2>1, <2>2, <2>3, <2>4, OneSubscription, SubscribersAssumption
<1>5. CASE Cancel(s)
  <2> DEFINE r == [sub[s] EXCEPT !.open = FALSE]
  <2>1. r.pc = sub[s].pc /\ r.open = FALSE /\ r.buf = sub[s].buf /\ r \in Subscription
    BY DEF Subscription
  <2>2. sub' = [sub EXCEPT ![s] = r] /\ UNCHANGED <<leadership, setter, status>>
    BY <1>5 DEF Cancel
  <2>3. setter.pc = "unlocked" /\ setter.ch = NoSub /\ setter.todo = {}
        /\ sub[s].pc \in {"reading", "handling"}
    BY <1>5 DEF Cancel, Free, IInv, SetterOK
  <2> HIDE DEF r
  <2> QED
    BY <2>1, <2>2, <2>3, OneSubscription, SubscribersAssumption
<1>6. CASE EndLoop(s)
  <2> DEFINE r == NotSubscribed
  <2>1. r.pc = "none" /\ r.open = FALSE /\ r.buf = <<>>
    BY DEF NotSubscribed
  <2>2. r \in Subscription
    BY <1>0 DEF NotSubscribed, Subscription, Buffers
  <2>3. sub' = [sub EXCEPT ![s] = r] /\ UNCHANGED <<leadership, setter, status>>
        /\ ~sub[s].open
    BY <1>6 DEF EndLoop
  <2> HIDE DEF r
  <2>4. s \notin setter.todo /\ setter.ch # s
    BY <2>3, SubscribersAssumption DEF IInv, SendsToOpenChannels, Registered
  <2> QED
    BY <2>1, <2>2, <2>3, <2>4, OneSubscription
<1> QED
  BY <1>1, <1>2, <1>3, <1>4, <1>5, <1>6

-----------------------------------------------------------------------------
(* A send of setLeadership fills the channel, whose turn is then over; it  *)
(* overtakes a first event that is still being sent.                       *)
LEMMA SendPreserves ==
  ASSUME IInv, NEW s \in Subscribers, s \in setter.todo,
         setter.pc \in {"loop", "send"}, setter.pc = "send" => setter.ch = s,
         sub[s].buf = <<>>,
         sub' = [sub EXCEPT ![s] = Filled(s)], setter' = Done(s),
         UNCHANGED <<status, leadership>>
  PROVE  IInv'
<1> DEFINE r == Filled(s)
<1>1. /\ sub \in [Subscribers -> Subscription] /\ setter \in Setters
      /\ leadership \in Event /\ status \in Statuses
  BY Types DEF IInv
<1>2. /\ r.pc = sub[s].pc /\ r.open = sub[s].open /\ r.buf = <<leadership>>
      /\ r.synced = (sub[s].synced /\ sub[s].pc # "sending")
  BY Fields DEF Filled, Subscription
<1>3. r \in Subscription
  BY <1>1, Fields, Single DEF Filled, Subscription
<1>4. r.buf # <<>> /\ r.buf[1] = leadership
  BY <1>1, <1>2, Single
<1> HIDE DEF r
<1>5. sub'[s] = r /\ \A t \in Subscribers : t # s => sub'[t] = sub[t]
  BY <1>1 DEF r
<1>6. setter'.pc = "loop" /\ setter'.todo = setter.todo \ {s} /\ setter'.ch = NoSub
  BY DEF Done
<1>7. EventTypeOK'
  <2>1. sub' \in [Subscribers -> Subscription]
    BY <1>1, <1>3 DEF r
  <2>2. setter' \in Setters
    BY <1>1 DEF Done, Setters
  <2> QED
    BY <1>1, <2>1, <2>2 DEF EventTypeOK, Setters, Subscription, Buffers
<1>8. SetterOK'
  BY <1>6 DEF SetterOK
<1>9. SendsToOpenChannels'
  BY <1>1, <1>2, <1>5, <1>6 DEF IInv, SendsToOpenChannels, Registered, Subscribing, Setters
<1>10. UpToDate'
  <2> SUFFICES ASSUME NEW t \in Subscribers, t \notin setter'.todo, sub'[t].open,
                      sub'[t].synced
               PROVE  Newest(t)' = leadership
    BY DEF UpToDate
  <2>1. CASE t = s
    BY <2>1, <1>4, <1>5 DEF Newest
  <2>2. CASE t # s
    BY <2>2, <1>5, <1>6 DEF IInv, UpToDate, Newest, Subscribing
  <2> QED
    BY <2>1, <2>2
<1>11. Overtaken'
  BY <1>2, <1>5, <1>6 DEF IInv, Overtaken, Subscribing
<1>12. OnlyOvertakenBlocks'
  BY <1>6 DEF OnlyOvertakenBlocks
<1> QED
  BY <1>7, <1>8, <1>9, <1>10, <1>11, <1>12 DEF IInv

(* The steps of setLeadership and the writes of the status keep the        *)
(* invariant.                                                              *)
LEMMA SetterPreserves ==
  ASSUME IInv,
         \/ \E s \in Subscribers : TrySend(s)
         \/ Drain \/ Send \/ Unlock
         \/ \E new \in Statuses : WriteStatus(new)
         \/ \E event \in Event : SetLeadership(event)
  PROVE  IInv'
<1>0. /\ sub \in [Subscribers -> Subscription] /\ setter \in Setters
      /\ leadership \in Event /\ status \in Statuses
  BY Types DEF IInv
<1>1. ASSUME NEW s \in Subscribers, TrySend(s)
      PROVE  IInv'
  <2>1. CASE sub[s].buf = <<>>
    BY <1>1, <2>1, SendPreserves DEF TrySend
  <2>2. CASE sub[s].buf # <<>>
    <3>1. /\ setter' = [setter EXCEPT !.pc = "drain", !.ch = s]
          /\ UNCHANGED <<sub, status, leadership>> /\ s \in setter.todo
      BY <1>1, <2>2 DEF TrySend
    <3>2. setter'.pc = "drain" /\ setter'.ch = s /\ setter'.todo = setter.todo
      BY <1>0, <3>1 DEF Setters
    <3>3. setter' \in Setters
      BY <1>0, <3>1 DEF Setters
    <3>4. EventTypeOK'
      BY <1>0, <3>1, <3>3 DEF EventTypeOK, Setters, Subscription, Buffers
    <3>5. SetterOK' /\ UpToDate' /\ OnlyOvertakenBlocks'
      BY <3>1, <3>2 DEF IInv, SetterOK, UpToDate, Newest, Subscribing, OnlyOvertakenBlocks
    <3>6. SendsToOpenChannels'
      BY <3>1, <3>2 DEF IInv, SendsToOpenChannels, Registered, Subscribing
    <3>7. Overtaken'
      BY <2>2, <3>1, <3>2 DEF IInv, Overtaken, Subscribing
    <3> QED
      BY <3>4, <3>5, <3>6, <3>7 DEF IInv
  <2> QED
    BY <2>1, <2>2
<1>2. ASSUME Drain
      PROVE  IInv'
  <2> DEFINE s == setter.ch
             r == IF sub[s].pc = "parked" THEN Returned(s) ELSE [sub[s] EXCEPT !.buf = <<>>]
  <2>1. s \in Subscribers /\ s \in setter.todo /\ setter.pc = "drain"
    BY <1>0, <1>2 DEF Drain, IInv, SetterOK, Setters
  <2>2. /\ sub' = [sub EXCEPT ![s] = r] /\ UNCHANGED <<status, leadership>>
        /\ setter' = [setter EXCEPT !.pc = "send"]
    BY <1>2 DEF Drain
  <2>3. setter'.pc = "send" /\ setter'.ch = s /\ setter'.todo = setter.todo
    BY <1>0, <2>2 DEF Setters
  <2>4. r \in Subscription
    <3>1. NoEvent \in Event
      BY EpochsAssumption DEF NoEvent, Event
    <3>2. CASE sub[s].pc = "parked"
      <4>1. Returned(s) \in Subscription
        BY <2>1, <3>1, Fields, Single DEF Returned, Subscription
      <4> QED
        BY <3>2, <4>1
    <3>3. CASE sub[s].pc # "parked"
      BY <2>1, <3>3, Fields DEF Subscription, Buffers
    <3> QED
      BY <3>2, <3>3
  <2>5. /\ r.open = sub[s].open /\ r.synced = sub[s].synced
        /\ sub[s].pc = "parked" => r.pc = "reading"
        /\ sub[s].pc # "parked" => r.pc = sub[s].pc /\ r.buf = <<>>
    BY <2>1, Fields DEF Returned, Subscription
  <2> HIDE DEF r
  <2>6. sub'[s] = r /\ \A t \in Subscribers : t # s => sub'[t] = sub[t]
    BY <1>0, <2>1, <2>2
  <2>7. EventTypeOK'
    <3>1. sub' \in [Subscribers -> Subscription]
      BY <1>0, <2>2, <2>4
    <3>2. setter' \in Setters
      BY <1>0, <2>2 DEF Setters
    <3> QED
      BY <1>0, <2>2, <3>1, <3>2 DEF EventTypeOK, Setters, Subscription, Buffers
  <2> HIDE DEF s
  <2>8. SetterOK'
    BY <2>1, <2>3 DEF SetterOK
  <2>9. SendsToOpenChannels'
    <3>1. \A t \in Subscribers : sub'[t].open = sub[t].open
      BY <2>5, <2>6
    <3>2. \A t \in Subscribers : Subscribing(t)' => Subscribing(t)
      BY <2>5, <2>6 DEF Subscribing
    <3> QED
      BY <2>1, <2>2, <2>3, <3>1, <3>2 DEF IInv, SendsToOpenChannels, Registered, s
  <2>10. UpToDate'
    BY <2>1, <2>2, <2>3, <2>6 DEF IInv, UpToDate, Newest, Subscribing
  <2>11. Overtaken'
    BY <2>1, <2>3, <2>5, <2>6 DEF IInv, Overtaken, Subscribing, s
  <2>12. OnlyOvertakenBlocks'
    BY <2>1, <2>3, <2>5, <2>6 DEF IInv, Overtaken, OnlyOvertakenBlocks
  <2> QED
    BY <2>7, <2>8, <2>9, <2>10, <2>11, <2>12 DEF IInv
<1>3. ASSUME Send
      PROVE  IInv'
  <2>1. setter.ch \in setter.todo /\ setter.ch \in Subscribers
    BY <1>0, <1>3 DEF Send, IInv, SetterOK, Setters
  <2> QED
    BY <1>3, <2>1, SendPreserves DEF Send
<1>4. ASSUME Unlock
      PROVE  IInv'
  <2>1. setter' \in Setters /\ UNCHANGED <<sub, status, leadership>>
        /\ setter.todo = {} /\ setter'.todo = {} /\ setter'.ch = NoSub
        /\ setter'.pc = "unlocked"
    BY <1>4 DEF Unlock, Unlocked, Setters
  <2>2. EventTypeOK'
    BY <1>0, <2>1 DEF EventTypeOK, Setters, Subscription, Buffers
  <2> QED
    BY <2>1, <2>2 DEF IInv, SetterOK, SendsToOpenChannels, Registered, Subscribing,
       UpToDate, Newest, Overtaken, OnlyOvertakenBlocks
<1>5. ASSUME NEW new \in Statuses, WriteStatus(new)
      PROVE  IInv'
  <2>1. EventTypeOK'
    BY <1>0, <1>5 DEF WriteStatus, EventTypeOK, Setters, Subscription, Buffers
  <2> QED
    BY <1>5, <2>1 DEF WriteStatus, IInv, SetterOK, SendsToOpenChannels, Registered,
       Subscribing, UpToDate, Newest, Overtaken, OnlyOvertakenBlocks
<1>6. ASSUME NEW event \in Event, SetLeadership(event)
      PROVE  IInv'
  <2>1. CASE leadership = event
    BY <1>6, <2>1 DEF SetLeadership, IInv, EventTypeOK, SetterOK, SendsToOpenChannels,
       Registered, Subscribing, UpToDate, Newest, Overtaken, OnlyOvertakenBlocks
  <2>2. CASE leadership # event
    <3>1. /\ leadership' = event /\ UNCHANGED <<sub, status>>
          /\ setter' = [pc |-> "loop", todo |-> Registered, ch |-> NoSub]
      BY <1>6, <2>2 DEF SetLeadership
    <3>2. setter' \in Setters /\ setter'.pc = "loop" /\ setter'.todo = Registered
          /\ setter'.ch = NoSub
      BY <3>1 DEF Setters, Registered
    <3>3. EventTypeOK'
      BY <1>0, <3>1, <3>2 DEF EventTypeOK, Setters, Subscription, Buffers
    <3>4. SetterOK' /\ UpToDate' /\ OnlyOvertakenBlocks' /\ Overtaken'
      BY <3>1, <3>2 DEF IInv, SetterOK, UpToDate, Registered, OnlyOvertakenBlocks,
         Overtaken, Subscribing
    <3>5. SendsToOpenChannels'
      BY <3>1, <3>2 DEF IInv, SendsToOpenChannels, Registered, Subscribing
    <3> QED
      BY <3>3, <3>4, <3>5 DEF IInv
  <2> QED
    BY <2>1, <2>2
<1> QED
  BY <1>1, <1>2, <1>3, <1>4, <1>5, <1>6

(* Every step keeps the invariant. *)
LEMMA Inductive == IInv /\ [EventNext]_eventVars => IInv'
<1> SUFFICES ASSUME IInv, [EventNext]_eventVars PROVE IInv'
  OBVIOUS
<1>1. CASE EventNext
  BY <1>1, SubscriptionPreserves, SetterPreserves DEF EventNext, EventSteps
<1>2. CASE UNCHANGED eventVars
  BY <1>2 DEF eventVars, IInv, EventTypeOK, SetterOK, SendsToOpenChannels, Registered,
     Subscribing, UpToDate, Newest, Overtaken, OnlyOvertakenBlocks
<1> QED
  BY <1>1, <1>2

(* The invariant holds in every reachable state. *)
LEMMA AlwaysIInv == EventSpec => []IInv
BY InitInvariant, Inductive, PTL DEF EventSpec

-----------------------------------------------------------------------------
(* No change of leadership is lost on the way to a subscription that began *)
(* in step with n.leadership (node.go:1938-1959).                          *)
THEOREM NoChangeIsEverLost == EventSpec => []NoChangeIsLost
<1>1. IInv => NoChangeIsLost
  BY DEF IInv, NoChangeIsLost, UpToDate, SetterOK, Free, Registered
<1> QED
  BY <1>1, AlwaysIInv, PTL

(* setLeadership never sends on a closed channel (node.go:1927-1933).      *)
THEOREM ChannelsAreAlwaysOpen == EventSpec => []SendsToOpenChannels
<1>1. IInv => SendsToOpenChannels
  BY DEF IInv
<1> QED
  BY <1>1, AlwaysIInv, PTL

(* Only a subscription whose first event was overtaken can block           *)
(* setLeadership (node.go:1955).                                           *)
THEOREM OnlyOvertakenEverBlocks == EventSpec => []OnlyOvertakenBlocks
<1>1. IInv => OnlyOvertakenBlocks
  BY DEF IInv
<1> QED
  BY <1>1, AlwaysIInv, PTL

-----------------------------------------------------------------------------
(* Business leadership.  The argument is about epochs and terms.  The      *)
(* acquisitions are in the order of their terms (TermsGrow), so a node     *)
(* whose quorum is behind it, and whose own acquisition is of the newest   *)
(* term, has the last one.  What a refreshStatus call carries from one     *)
(* step to the next -- a term, an epoch, the event it is going to announce *)
(* -- stays true of the log of acquisitions, because that log only grows   *)
(* (RefreshKnows).                                                         *)

Roles == {"follower", "leader_warming", "leader"}

Acquisition == [owner : {"self", "other"}, term : 1..MaxTerm]

Refresh ==
  [pc : {"idle", "stats", "acquire", "reread", "verify", "publish", "set"},
   term : 0..MaxTerm, epoch : Epochs, at : Ages, role : Roles,
   quorum : BOOLEAN, event : Event, transfer : BOOLEAN]

\* The acquisitions are in the order of their terms, and none is of the future.
TermsGrow ==
  /\ \A i, j \in 1..Len(acquired) : i < j => acquired[i].term < acquired[j].term
  /\ \A i \in 1..Len(acquired) : i <= acquired[i].term /\ acquired[i].term <= term

FsmOK ==
  /\ acquired \in Seq(Acquisition)
  /\ applied \in 0..Len(acquired)
  /\ TermsGrow

\* The leader of the newest term knows that term.
RaftOK ==
  /\ term \in 0..MaxTerm /\ myTerm \in 0..MaxTerm
  /\ leader \in {"self", "other", "none"}
  /\ leads \in BOOLEAN
  /\ leaderCh \in {"none", "gained", "lost"}
  /\ myTerm <= term
  /\ leader = "self" => leads /\ myTerm = term

\* An event names an epoch of this node, if it is active.
OwnEvent(e) ==
  e.active => /\ e.epoch \in 1..Len(acquired)
              /\ acquired[e.epoch].owner = "self"

\* What a refreshStatus call remembers.
Remembers(r) ==
  /\ r.term <= term
  /\ r.epoch \in 0..Len(acquired)
  /\ OwnEvent(r.event)

RefreshKnows ==
  /\ refresh \in [Refreshers -> Refresh]
  /\ \A p \in Refreshers : Remembers(refresh[p])

OtherOK ==
  /\ capable \in BOOLEAN
  /\ faults \in 0..MaxFaults
  /\ verified \in Ages
  /\ expiries \in 0..MaxExpiries
  /\ watch \in {"idle", "cache", "set"}
  /\ call \in Verifications
  /\ transferring \in BOOLEAN
  /\ running \in BOOLEAN

LInv ==
  /\ IInv
  /\ FsmOK
  /\ RaftOK
  /\ RefreshKnows
  /\ OtherOK
  /\ AnnouncedEpochIsOwn

\* The parts of LInv give every variable its type.
LEMMA LInvTypes == LInv => TypeOK
BY DEF LInv, IInv, FsmOK, RaftOK, RefreshKnows, OtherOK, TypeOK, Refresh, Roles,
       Acquisition

-----------------------------------------------------------------------------
(* The acquisitions.                                                       *)

\* A step appends at most one acquisition, of a term above the others.
AcquiredGrows ==
  \/ acquired' = acquired
  \/ \E e \in Acquisition :
       /\ TermOf(LastEpoch) < e.term
       /\ e.term <= term
       /\ acquired' = Append(acquired, e)

\* What such a step leaves in place.
Kept ==
  /\ Len(acquired) \in Nat /\ Len(acquired') \in Nat
  /\ Len(acquired) <= Len(acquired')
  /\ \A i \in 1..Len(acquired) : acquired'[i] = acquired[i]

\* The bounds are numbers.
LEMMA NumbersAreNat ==
  MaxTerm \in Nat /\ MaxExpiries \in Nat /\ 0 \in 0..MaxTerm
<1>1. MaxTerm \in Nat /\ MaxExpiries \in Nat
  BY BoundsAssumption
<1> QED BY <1>1

\* The values the calls write are of the types of their fields.
LEMMA Constants ==
  /\ "never" \in Ages /\ "fresh" \in Ages /\ "old" \in Ages
  /\ "follower" \in Roles /\ "leader_warming" \in Roles /\ "leader" \in Roles
  /\ TRUE \in BOOLEAN /\ FALSE \in BOOLEAN /\ 0 \in Epochs
BY EpochsAssumption DEF Ages, Roles

\* What an acquisition keeps has its type.
LEMMA AcquisitionTypes ==
  ASSUME LInv
  PROVE  /\ \A e \in Acquisition : e.term \in Nat
         /\ \A i \in 1..Len(acquired) : acquired[i] \in Acquisition
         /\ \A i \in 1..Len(acquired) : acquired[i].term \in Nat
<1>1. \A e \in Acquisition : e.term \in Nat
  BY NumbersAreNat DEF Acquisition
<1>2. \A i \in 1..Len(acquired) : acquired[i] \in Acquisition
  BY DEF LInv, FsmOK
<1> QED BY <1>1, <1>2

\* There are no more epochs than terms.
LEMMA EpochsBound ==
  ASSUME LInv
  PROVE  /\ Len(acquired) \in Nat
         /\ \A n \in 0..Len(acquired) : n \in Epochs /\ n \in Nat
         /\ applied \in Epochs
<1>1. Len(acquired) \in Nat /\ MaxTerm \in Nat
  BY NumbersAreNat DEF LInv, FsmOK
<1>2. Len(acquired) <= MaxTerm
  <2>1. CASE Len(acquired) = 0
    BY <1>1, <2>1
  <2>2. CASE Len(acquired) # 0
    <3>1. Len(acquired) \in 1..Len(acquired)
      BY <1>1, <2>2
    <3>2. /\ acquired[Len(acquired)] \in Acquisition
          /\ Len(acquired) <= acquired[Len(acquired)].term
      BY <3>1 DEF LInv, FsmOK, TermsGrow
    <3> QED BY <1>1, <3>2 DEF Acquisition
  <2> QED BY <2>1, <2>2
<1> QED BY <1>1, <1>2, BoundsAssumption DEF LInv, FsmOK

\* The terms of the epochs.
LEMMA LastTerm ==
  ASSUME LInv
  PROVE  /\ TermOf(LastEpoch) \in Nat
         /\ Len(acquired) <= TermOf(LastEpoch)
         /\ \A i \in 1..Len(acquired) : acquired[i].term <= TermOf(LastEpoch)
<1>1. Len(acquired) \in Nat
  BY EpochsBound
<1>2. \A i \in 1..Len(acquired) : acquired[i].term \in Nat
  BY AcquisitionTypes
<1>3. CASE Len(acquired) = 0
  BY <1>1, <1>3 DEF TermOf, LastEpoch
<1>4. CASE Len(acquired) # 0
  <2>1. Len(acquired) \in 1..Len(acquired)
    BY <1>1, <1>4
  <2>2. TermOf(LastEpoch) = acquired[Len(acquired)].term
    BY <1>4 DEF TermOf, LastEpoch
  <2> QED BY <1>1, <1>2, <2>1, <2>2 DEF LInv, FsmOK, TermsGrow
<1> QED BY <1>3, <1>4

\* The acquisitions stay in the order of their terms.
LEMMA AcquisitionStep ==
  ASSUME LInv, AcquiredGrows, term' \in 0..MaxTerm, term <= term',
         applied' \in 0..Len(acquired')
  PROVE  FsmOK' /\ Kept
<1>0. term \in Nat /\ term' \in Nat /\ Len(acquired) \in Nat
  BY NumbersAreNat, EpochsBound DEF LInv, RaftOK
<1>1. CASE acquired' = acquired
  <2>1. \A i \in 1..Len(acquired) : acquired[i].term \in Nat
    BY AcquisitionTypes
  <2>2. TermsGrow'
    BY <1>0, <1>1, <2>1 DEF LInv, FsmOK, TermsGrow
  <2> QED BY <1>0, <1>1, <2>2 DEF LInv, FsmOK, Kept
<1>2. ASSUME NEW e \in Acquisition, TermOf(LastEpoch) < e.term, e.term <= term,
             acquired' = Append(acquired, e)
      PROVE  FsmOK' /\ Kept
  <2> PICK n : n = Len(acquired)
    OBVIOUS
  <2>1. /\ acquired' \in Seq(Acquisition) /\ Len(acquired') = n + 1
        /\ acquired'[n + 1] = e /\ n \in Nat
        /\ \A i \in 1..n : acquired'[i] = acquired[i]
    BY <1>0, <1>2 DEF LInv, FsmOK
  <2>2. /\ e.term \in Nat
        /\ \A i \in 1..n : acquired[i].term \in Nat
    BY AcquisitionTypes
  <2>3. /\ n + 1 <= e.term /\ e.term <= term'
        /\ \A i \in 1..n : acquired[i].term < e.term
    BY <1>0, <1>2, <2>1, <2>2, LastTerm
  <2>4. \A i \in 1..(n + 1) : i \in 1..n \/ i = n + 1
    BY <2>1
  <2>5. \A i, j \in 1..(n + 1) :
          i < j => acquired'[i].term < acquired'[j].term
    <3> SUFFICES ASSUME NEW i \in 1..(n + 1), NEW j \in 1..(n + 1), i < j
                 PROVE  acquired'[i].term < acquired'[j].term
      OBVIOUS
    <3>1. i \in 1..n
      BY <2>1
    <3>2. CASE j = n + 1
      BY <2>1, <2>3, <3>1, <3>2
    <3>3. CASE j \in 1..n
      BY <2>1, <3>1, <3>3 DEF LInv, FsmOK, TermsGrow
    <3> QED BY <2>4, <3>2, <3>3
  <2>6. \A i \in 1..(n + 1) :
          i <= acquired'[i].term /\ acquired'[i].term <= term'
    BY <1>0, <2>1, <2>2, <2>3, <2>4 DEF LInv, FsmOK, TermsGrow
  <2>7. TermsGrow'
    BY <2>1, <2>5, <2>6 DEF TermsGrow
  <2> QED BY <1>0, <2>1, <2>7 DEF FsmOK, Kept
<1> QED BY <1>1, <1>2 DEF AcquiredGrows

\* What was remembered stays true.
LEMMA KeptRemembers ==
  ASSUME LInv, Kept, term' \in Nat, term <= term'
  PROVE  /\ \A e : OwnEvent(e) => OwnEvent(e)'
         /\ \A r \in Refresh : Remembers(r) => Remembers(r)'
<1>0. term \in Nat /\ MaxTerm \in Nat
  BY NumbersAreNat DEF LInv, RaftOK
<1>1. ASSUME NEW e, OwnEvent(e) PROVE OwnEvent(e)'
  <2> SUFFICES ASSUME e.active
               PROVE  e.epoch \in 1..Len(acquired') /\ acquired'[e.epoch].owner = "self"
    BY DEF OwnEvent
  <2>1. e.epoch \in 1..Len(acquired) /\ acquired[e.epoch].owner = "self"
    BY <1>1 DEF OwnEvent
  <2> QED BY <2>1 DEF Kept
<1>2. ASSUME NEW r \in Refresh, Remembers(r) PROVE Remembers(r)'
  <2>1. r.term \in Nat
    BY <1>0 DEF Refresh
  <2>2. r.term <= term' /\ r.epoch \in 0..Len(acquired')
    BY <1>0, <1>2, <2>1 DEF Remembers, Kept
  <2> QED BY <1>1, <1>2, <2>2 DEF Remembers
<1> QED BY <1>1, <1>2

-----------------------------------------------------------------------------
(* Kinds of steps.                                                         *)

\* One refreshStatus call goes on; the log of acquisitions may grow with it.
LEMMA RefreshChanges ==
  ASSUME LInv,
         UNCHANGED <<eventVars, raftVars, capable, faults, verified, expiries,
                     watch, call, transferring, running>>,
         AcquiredGrows, applied' \in 0..Len(acquired'),
         NEW p \in Refreshers, NEW r \in Refresh,
         refresh' = [refresh EXCEPT ![p] = r],
         r.term <= term, r.epoch \in 0..Len(acquired'),
         r.event.active => /\ r.event.epoch \in 1..Len(acquired')
                           /\ acquired'[r.event.epoch].owner = "self"
  PROVE  LInv'
<1>1. /\ UNCHANGED eventVars /\ leadership' = leadership
      /\ term' = term /\ leader' = leader /\ myTerm' = myTerm
      /\ leads' = leads /\ leaderCh' = leaderCh
      /\ UNCHANGED <<capable, faults, verified, expiries, watch, call,
                     transferring, running>>
  BY DEF eventVars, raftVars
<1>2. term \in 0..MaxTerm /\ term \in Nat /\ term' \in Nat /\ term <= term'
  BY <1>1, NumbersAreNat DEF LInv, RaftOK
<1>3. FsmOK' /\ Kept
  BY <1>1, <1>2, AcquisitionStep
<1>4. IInv'
  BY <1>1, Inductive DEF LInv
<1>5. RaftOK' /\ OtherOK'
  BY <1>1 DEF LInv, RaftOK, OtherOK
<1>6. RefreshKnows'
  <2>1. refresh \in [Refreshers -> Refresh]
    BY DEF LInv, RefreshKnows
  <2>2. refresh' \in [Refreshers -> Refresh]
    BY <2>1
  <2>3. ASSUME NEW q \in Refreshers PROVE Remembers(refresh[q])'
    <3>1. CASE q = p
      <4>1. refresh'[q] = r
        BY <2>1, <3>1
      <4> QED BY <1>1, <4>1 DEF Remembers, OwnEvent
    <3>2. CASE q # p
      <4> PICK old \in Refresh : old = refresh[q]
        BY <2>1
      <4>1. refresh'[q] = old
        BY <2>1, <3>2
      <4>2. Remembers(old)'
        BY <1>2, <1>3, KeptRemembers DEF LInv, RefreshKnows
      <4> QED BY <4>1, <4>2 DEF Remembers, OwnEvent
    <3> QED BY <3>1, <3>2
  <2> QED BY <2>2, <2>3 DEF RefreshKnows
<1>7. AnnouncedEpochIsOwn'
  BY <1>1, <1>3 DEF LInv, AnnouncedEpochIsOwn, Kept
<1> QED BY <1>3, <1>4, <1>5, <1>6, <1>7 DEF LInv

\* The status is written or the leadership set; Raft stands still.
LEMMA EventChanges ==
  ASSUME LInv, [EventNext]_eventVars,
         UNCHANGED <<raftVars, acquired, applied, capable, faults>>,
         OtherOK', refresh' \in [Refreshers -> Refresh],
         \A p \in Refreshers :
           /\ refresh'[p].term <= term
           /\ refresh'[p].epoch \in 0..Len(acquired)
           /\ OwnEvent(refresh'[p].event),
         leadership' = leadership \/ OwnEvent(leadership')
  PROVE  LInv'
<1>1. /\ term' = term /\ leader' = leader /\ myTerm' = myTerm
      /\ leads' = leads /\ leaderCh' = leaderCh
      /\ acquired' = acquired /\ applied' = applied
  BY DEF raftVars
<1>2. IInv'
  BY Inductive DEF LInv
<1>3. FsmOK' /\ RaftOK'
  BY <1>1 DEF LInv, FsmOK, TermsGrow, RaftOK
<1>4. RefreshKnows'
  BY <1>1 DEF RefreshKnows, Remembers, OwnEvent
<1>5. AnnouncedEpochIsOwn'
  BY <1>1 DEF LInv, AnnouncedEpochIsOwn, OwnEvent
<1> QED BY <1>2, <1>3, <1>4, <1>5 DEF LInv

\* Raft and the state machine go on.
LEMMA RaftChanges ==
  ASSUME LInv, UNCHANGED <<eventVars, refresh>>,
         AcquiredGrows, applied' \in 0..Len(acquired'),
         term <= term', RaftOK', OtherOK'
  PROVE  LInv'
<1>1. UNCHANGED eventVars /\ leadership' = leadership /\ refresh' = refresh
  BY DEF eventVars
<1>2. term' \in 0..MaxTerm /\ term' \in Nat
  BY NumbersAreNat DEF RaftOK
<1>3. FsmOK' /\ Kept
  BY <1>2, AcquisitionStep
<1>4. IInv'
  BY <1>1, Inductive DEF LInv
<1>5. RefreshKnows'
  <2>1. refresh \in [Refreshers -> Refresh]
    BY DEF LInv, RefreshKnows
  <2>2. ASSUME NEW q \in Refreshers PROVE Remembers(refresh[q])'
    <3> PICK old \in Refresh : old = refresh[q]
      BY <2>1
    <3>1. refresh'[q] = old
      BY <1>1
    <3>2. Remembers(old)'
      BY <1>2, <1>3, KeptRemembers DEF LInv, RefreshKnows
    <3> QED BY <3>1, <3>2 DEF Remembers, OwnEvent
  <2> QED BY <1>1, <2>1, <2>2 DEF RefreshKnows
<1>6. AnnouncedEpochIsOwn'
  BY <1>1, <1>3 DEF LInv, AnnouncedEpochIsOwn, Kept
<1> QED BY <1>3, <1>4, <1>5, <1>6 DEF LInv

-----------------------------------------------------------------------------
(* refreshStatus.                                                          *)

\* What a call carries to updateStatus and setLeadership.
LEMMA OutcomeFields ==
  ASSUME NEW r \in Refresh, NEW role \in Roles, NEW quorum \in BOOLEAN,
         NEW at \in Ages, NEW active \in BOOLEAN, NEW epoch \in Epochs
  PROVE  /\ Outcome(r, role, quorum, at, active, epoch) \in Refresh
         /\ Outcome(r, role, quorum, at, active, epoch).term = 0
         /\ Outcome(r, role, quorum, at, active, epoch).epoch = r.epoch
         /\ Outcome(r, role, quorum, at, active, epoch).event.active = active
         /\ Outcome(r, role, quorum, at, active, epoch).event.epoch = epoch
<1> DEFINE e == [active |-> active, epoch |-> epoch]
           o == Outcome(r, role, quorum, at, active, epoch)
<1>1. e \in Event /\ e.active = active /\ e.epoch = epoch
  BY DEF Event
<1>2. o = [r EXCEPT !.pc = "publish", !.term = 0, !.role = role,
                    !.quorum = quorum, !.at = at, !.event = e]
  BY DEF Outcome
<1> HIDE DEF e
<1>3. o \in Refresh /\ o.term = 0 /\ o.epoch = r.epoch /\ o.event = e
  BY <1>1, <1>2, NumbersAreNat DEF Refresh
<1> QED BY <1>1, <1>3

\* A call that is not going to announce this node as the leader.
LEMMA InactiveOutcome ==
  ASSUME NEW r \in Refresh, NEW role \in Roles, NEW epoch \in Epochs
  PROVE  /\ Outcome(r, role, FALSE, "never", FALSE, epoch) \in Refresh
         /\ Outcome(r, role, FALSE, "never", FALSE, epoch).term = 0
         /\ Outcome(r, role, FALSE, "never", FALSE, epoch).epoch = r.epoch
         /\ ~Outcome(r, role, FALSE, "never", FALSE, epoch).event.active
<1> DEFINE o == Outcome(r, role, FALSE, "never", FALSE, epoch)
<1>1. PICK f \in BOOLEAN : f = FALSE
  OBVIOUS
<1>2. PICK at \in Ages : at = "never"
  BY Constants
<1>3. o = Outcome(r, role, f, at, f, epoch)
  BY <1>1, <1>2
<1> HIDE DEF o
<1>4. o \in Refresh /\ o.term = 0 /\ o.epoch = r.epoch /\ ~o.event.active
  BY <1>1, <1>3, OutcomeFields
<1> QED BY <1>4 DEF o

\* The fields of a call under way.
LEMMA RefreshFields ==
  ASSUME LInv, NEW p \in Refreshers
  PROVE  /\ refresh[p] \in Refresh /\ Remembers(refresh[p])
         /\ refresh[p].term \in Nat /\ refresh[p].epoch \in Epochs
         /\ refresh[p].event \in Event /\ refresh[p].role \in Roles
         /\ refresh[p].quorum \in BOOLEAN /\ refresh[p].at \in Ages
         /\ refresh[p].transfer \in BOOLEAN
         /\ term \in Nat /\ myTerm \in 0..MaxTerm /\ myTerm <= term
         /\ Len(acquired) \in Nat /\ applied \in 0..Len(acquired)
<1>1. refresh[p] \in Refresh
  BY DEF LInv, RefreshKnows
<1>2. Remembers(refresh[p])
  BY DEF LInv, RefreshKnows
<1> QED BY <1>1, <1>2, NumbersAreNat, EpochsBound DEF Refresh, LInv, RaftOK, FsmOK

\* raft.Stats() and the reading of the state.
LEMMA ReadKeeps ==
  ASSUME LInv, NEW p \in Refreshers, BeginRefresh(p) \/ ReadState(p) \/ Reread(p)
  PROVE  LInv'
<1> USE RefreshFields
<1>0. AcquiredGrows /\ applied' \in 0..Len(acquired')
      /\ UNCHANGED <<eventVars, raftVars, capable, faults, verified, expiries,
                     watch, call, transferring, running>>
      /\ acquired' = acquired
  BY DEF BeginRefresh, ReadState, Reread, fsmVars, AcquiredGrows
<1>1. CASE BeginRefresh(p)
  <2> DEFINE r == [refresh[p] EXCEPT !.pc = "stats", !.term = myTerm]
  <2>1. refresh' = [refresh EXCEPT ![p] = r]
    BY <1>1 DEF BeginRefresh
  <2>2. r \in Refresh /\ r.term = myTerm /\ r.epoch = refresh[p].epoch
        /\ r.event = refresh[p].event
    BY DEF Refresh
  <2> HIDE DEF r
  <2> QED BY <1>0, <2>1, <2>2, RefreshChanges DEF Remembers, OwnEvent
<1>2. CASE Reread(p)
  <2> DEFINE r == [refresh[p] EXCEPT !.pc = "verify", !.epoch = applied]
  <2>1. refresh' = [refresh EXCEPT ![p] = r]
    BY <1>2 DEF Reread
  <2>2. r \in Refresh /\ r.term = refresh[p].term /\ r.epoch = applied
        /\ r.event = refresh[p].event
    BY EpochsBound DEF Refresh
  <2> HIDE DEF r
  <2> QED BY <1>0, <2>1, <2>2, RefreshChanges DEF Remembers, OwnEvent
<1>3. CASE ReadState(p)
  <2> DEFINE r  == [refresh[p] EXCEPT !.epoch = applied, !.at = "fresh"]
             r1 == Outcome(r, "follower", FALSE, "never", FALSE, applied)
             r2 == Outcome(r, "leader_warming", FALSE, "never", FALSE, applied)
             r3 == [r2 EXCEPT !.transfer = TRUE]
             r4 == [r EXCEPT !.pc = "acquire"]
             r5 == [r EXCEPT !.pc = "verify", !.term = 0]
  <2>1. \/ refresh' = [refresh EXCEPT ![p] = r1]
        \/ refresh' = [refresh EXCEPT ![p] = r3]
        \/ refresh' = [refresh EXCEPT ![p] = r4]
        \/ refresh' = [refresh EXCEPT ![p] = r5]
    <3>1. CASE ~leads
      BY <1>3, <3>1 DEF ReadState
    <3>2. CASE leads /\ ~capable
      BY <1>3, <3>2 DEF ReadState
    <3>3. CASE leads /\ capable /\ (Owner(applied) # "self"
                                    \/ TermOf(applied) # r.term)
      BY <1>3, <3>3 DEF ReadState
    <3>4. CASE leads /\ capable /\ ~(Owner(applied) # "self"
                                     \/ TermOf(applied) # r.term)
      BY <1>3, <3>4 DEF ReadState
    <3> QED BY <3>1, <3>2, <3>3, <3>4
  <2>2. r \in Refresh /\ r.term = refresh[p].term /\ r.epoch = applied
        /\ r.event = refresh[p].event
    BY EpochsBound DEF Refresh, Ages
  <2> HIDE DEF r
  <2>3. /\ r1 \in Refresh /\ r1.term = 0 /\ r1.epoch = applied /\ ~r1.event.active
        /\ r2 \in Refresh /\ r2.term = 0 /\ r2.epoch = applied /\ ~r2.event.active
    BY <2>2, InactiveOutcome, EpochsBound, Constants
  <2> HIDE DEF r1, r2
  <2>4. r3 \in Refresh /\ r3.term = 0 /\ r3.epoch = applied /\ r3.event = r2.event
    BY <2>3 DEF Refresh
  <2>5. /\ r4 \in Refresh /\ r4.term = refresh[p].term /\ r4.epoch = applied
        /\ r4.event = refresh[p].event
        /\ r5 \in Refresh /\ r5.term = 0 /\ r5.epoch = applied
        /\ r5.event = refresh[p].event
    BY <2>2, NumbersAreNat DEF Refresh
  <2> HIDE DEF r3, r4, r5
  <2>6. 0 <= term
    OBVIOUS
  <2>7. CASE refresh' = [refresh EXCEPT ![p] = r1]
    BY <1>0, <2>3, <2>6, <2>7, RefreshChanges
  <2>8. CASE refresh' = [refresh EXCEPT ![p] = r3]
    BY <1>0, <2>3, <2>4, <2>6, <2>8, RefreshChanges
  <2>9. CASE refresh' = [refresh EXCEPT ![p] = r4]
    BY <1>0, <2>5, <2>9, RefreshChanges DEF Remembers, OwnEvent
  <2>10. CASE refresh' = [refresh EXCEPT ![p] = r5]
    BY <1>0, <2>5, <2>6, <2>10, RefreshChanges DEF Remembers, OwnEvent
  <2> QED BY <2>1, <2>7, <2>8, <2>9, <2>10
<1> QED BY <1>1, <1>2, <1>3

\* A committed acquisition is of a term this node has seen.
LEMMA CommitKeeps ==
  ASSUME LInv, NEW p \in Refreshers, refresh[p].term # 0,
         CommitAcquisition(refresh[p].term)
  PROVE  AcquiredGrows
<1> DEFINE t == refresh[p].term
           e == [owner |-> "self", term |-> t]
<1>1. t \in 1..MaxTerm /\ t <= term
  BY RefreshFields, NumbersAreNat DEF Refresh, Remembers
<1>2. e \in Acquisition /\ e.term = t
  BY <1>1 DEF Acquisition
<1>3. CASE t > TermOf(LastEpoch)
  <2>1. acquired' = Append(acquired, e)
    BY <1>3 DEF CommitAcquisition
  <2>2. TermOf(LastEpoch) < e.term
    BY <1>1, <1>2, <1>3, NumbersAreNat, LastTerm
  <2> HIDE DEF e
  <2> QED BY <1>1, <1>2, <2>1, <2>2 DEF AcquiredGrows
<1>4. CASE ~(t > TermOf(LastEpoch))
  BY <1>4 DEF CommitAcquisition, AcquiredGrows
<1> QED BY <1>3, <1>4

\* acquireLeadership, whatever becomes of its command.
LEMMA AcquireKeeps ==
  ASSUME LInv, NEW p \in Refreshers, AcquireOk(p) \/ AcquireFails(p)
  PROVE  LInv'
<1> USE RefreshFields
<1>0. /\ AcquiredGrows
      /\ UNCHANGED <<eventVars, raftVars, capable, faults, verified, expiries,
                     watch, call, transferring, running>>
  <2>1. CASE AcquireOk(p)
    BY <2>1, CommitKeeps DEF AcquireOk
  <2>2. CASE AcquireFails(p)
    BY <2>2, CommitKeeps DEF AcquireFails, AcquiredGrows
  <2> QED BY <2>1, <2>2
<1>1. term' = term /\ term \in 0..MaxTerm
  BY <1>0 DEF raftVars, LInv, RaftOK
<1>2. Kept
  <2>1. CASE acquired' = acquired
    BY <2>1 DEF Kept
  <2>2. CASE \E e \in Acquisition : acquired' = Append(acquired, e)
    BY <2>2 DEF Kept, LInv, FsmOK
  <2> QED BY <1>0, <2>1, <2>2 DEF AcquiredGrows
<1>3. CASE AcquireOk(p)
  <2> DEFINE r == [refresh[p] EXCEPT !.pc = "reread", !.term = 0]
  <2>1. refresh' = [refresh EXCEPT ![p] = r] /\ applied' = Len(acquired')
    BY <1>3 DEF AcquireOk
  <2>2. r \in Refresh /\ r.term = 0 /\ r.epoch = refresh[p].epoch
        /\ r.event = refresh[p].event
    BY NumbersAreNat DEF Refresh
  <2> HIDE DEF r
  <2>3. applied' \in 0..Len(acquired')
    BY <1>2, <2>1 DEF Kept
  <2>4. /\ r.epoch \in 0..Len(acquired')
        /\ r.event.active => /\ r.event.epoch \in 1..Len(acquired')
                             /\ acquired'[r.event.epoch].owner = "self"
    BY <1>2, <2>2 DEF Remembers, OwnEvent, Kept
  <2>5. r.term <= term
    BY <2>2
  <2> QED BY <1>0, <2>1, <2>2, <2>3, <2>4, <2>5, RefreshChanges
<1>4. CASE AcquireFails(p)
  <2> DEFINE r == Outcome(refresh[p], "leader_warming", FALSE, "never", FALSE, 0)
  <2>1. refresh' = [refresh EXCEPT ![p] = r] /\ applied' = applied
    BY <1>4 DEF AcquireFails
  <2>2. /\ r \in Refresh /\ r.term = 0 /\ r.epoch = refresh[p].epoch
        /\ ~r.event.active
    BY InactiveOutcome, Constants
  <2> HIDE DEF r
  <2>3. applied' \in 0..Len(acquired') /\ r.epoch \in 0..Len(acquired')
    BY <1>2, <2>1, <2>2 DEF Kept, Remembers
  <2>4. r.term <= term
    BY <2>2
  <2> QED BY <1>0, <2>1, <2>2, <2>3, <2>4, RefreshChanges
<1> QED BY <1>3, <1>4

\* A call names this node as the leader of its epoch only if the epoch is its own.
LEMMA LedFields ==
  ASSUME LInv, NEW r \in Refresh, r.epoch \in 0..Len(acquired),
         NEW quorum \in BOOLEAN, NEW at \in Ages
  PROVE  /\ Led(r, quorum, at) \in Refresh
         /\ Led(r, quorum, at).term = 0
         /\ Led(r, quorum, at).epoch = r.epoch
         /\ Led(r, quorum, at).event.active =>
              /\ r.epoch \in 1..Len(acquired)
              /\ acquired[r.epoch].owner = "self"
         /\ Led(r, quorum, at).event.epoch = r.epoch
<1> DEFINE l == Led(r, quorum, at)
<1>1. r.epoch \in Epochs /\ Len(acquired) \in Nat
  BY EpochsBound
<1>2. CASE quorum /\ Owner(r.epoch) = "self"
  <2>1. PICK own \in BOOLEAN : own = TRUE
    OBVIOUS
  <2>2. PICK role \in Roles : role = "leader"
    BY Constants
  <2>3. l = Outcome(r, role, quorum, at, own, r.epoch)
    BY <1>2, <2>1, <2>2 DEF Led
  <2>4. r.epoch \in 1..Len(acquired) /\ acquired[r.epoch].owner = "self"
    BY <1>1, <1>2 DEF Owner
  <2> HIDE DEF l
  <2>5. l \in Refresh /\ l.term = 0 /\ l.epoch = r.epoch /\ l.event.epoch = r.epoch
    BY <1>1, <2>3, OutcomeFields
  <2> QED BY <2>4, <2>5 DEF l
<1>3. CASE ~(quorum /\ Owner(r.epoch) = "self")
  <2>1. PICK own \in BOOLEAN : own = FALSE
    OBVIOUS
  <2>2. PICK role \in Roles : role = "leader_warming"
    BY Constants
  <2>3. l = Outcome(r, role, quorum, at, own, r.epoch)
    BY <1>3, <2>1, <2>2 DEF Led
  <2> HIDE DEF l
  <2>4. /\ l \in Refresh /\ l.term = 0 /\ l.epoch = r.epoch
        /\ ~l.event.active /\ l.event.epoch = r.epoch
    BY <1>1, <2>1, <2>3, OutcomeFields
  <2> QED BY <2>4 DEF l
<1> QED BY <1>2, <1>3

\* VerifyLeader and Barrier, and what a request takes for them.
LEMMA VerifyKeeps ==
  ASSUME LInv, VerifyOk \/ VerifyFails \/ VerifyFromCache
  PROVE  LInv'
<1>0. /\ AcquiredGrows /\ applied' \in 0..Len(acquired')
      /\ UNCHANGED <<eventVars, raftVars, capable, faults, verified, expiries,
                     watch, call, transferring, running>>
      /\ acquired' = acquired
  <2>1. applied \in 0..Len(acquired) /\ Len(acquired) \in 0..Len(acquired)
    BY EpochsBound DEF LInv, FsmOK
  <2> QED BY <2>1 DEF VerifyOk, VerifyFails, VerifyFromCache, fsmVars,
                      AcquiredGrows, AppliedByBarrier, LastEpoch
<1>1. "monitor" \in Refreshers /\ "request" \in Refreshers
  BY DEF Refreshers
<1>2. \A p \in Refreshers : /\ refresh[p] \in Refresh /\ refresh[p].at \in Ages
                            /\ refresh[p].epoch \in 0..Len(acquired)
                            /\ refresh[p].epoch \in Epochs
  BY RefreshFields DEF Remembers
<1>3. verified \in Ages /\ term \in Nat /\ 0 <= term
  BY NumbersAreNat DEF LInv, OtherOK, RaftOK
<1>4. CASE VerifyOk
  <2> DEFINE r == Led(refresh["monitor"], TRUE, refresh["monitor"].at)
  <2>1. refresh' = [refresh EXCEPT !["monitor"] = r]
    BY <1>4 DEF VerifyOk
  <2>2. PICK quorum \in BOOLEAN : quorum = TRUE
    OBVIOUS
  <2>3. r = Led(refresh["monitor"], quorum, refresh["monitor"].at)
    BY <2>2
  <2> HIDE DEF r
  <2>4. /\ r \in Refresh /\ r.term = 0 /\ r.epoch \in 0..Len(acquired)
        /\ r.event.active => /\ r.event.epoch \in 1..Len(acquired)
                             /\ acquired[r.event.epoch].owner = "self"
    BY <1>1, <1>2, <2>3, LedFields
  <2> QED BY <1>0, <1>1, <1>3, <2>1, <2>4, RefreshChanges
<1>5. CASE VerifyFromCache
  <2> DEFINE r == Led(refresh["request"], verified = "fresh", verified)
  <2>1. refresh' = [refresh EXCEPT !["request"] = r]
    BY <1>5 DEF VerifyFromCache
  <2>2. PICK quorum \in BOOLEAN : quorum = (verified = "fresh")
    OBVIOUS
  <2>3. r = Led(refresh["request"], quorum, verified)
    BY <2>2
  <2> HIDE DEF r
  <2>4. /\ r \in Refresh /\ r.term = 0 /\ r.epoch \in 0..Len(acquired)
        /\ r.event.active => /\ r.event.epoch \in 1..Len(acquired)
                             /\ acquired[r.event.epoch].owner = "self"
    BY <1>1, <1>2, <1>3, <2>3, LedFields
  <2> QED BY <1>0, <1>1, <1>3, <2>1, <2>4, RefreshChanges
<1>6. CASE VerifyFails
  <2> DEFINE m == refresh["monitor"]
             r == Outcome(m, "leader_warming", FALSE, "never", FALSE, m.epoch)
  <2>1. refresh' = [refresh EXCEPT !["monitor"] = r]
    BY <1>6 DEF VerifyFails
  <2>2. r \in Refresh /\ r.term = 0 /\ r.epoch = m.epoch /\ ~r.event.active
    BY <1>1, <1>2, InactiveOutcome, Constants
  <2> HIDE DEF r
  <2> QED BY <1>0, <1>1, <1>2, <1>3, <2>1, <2>2, RefreshChanges
<1> QED BY <1>4, <1>5, <1>6

\* A call that is idle, or about to announce its event.
LEMMA IdleFields ==
  ASSUME NEW e \in Event, NEW transfer \in BOOLEAN
  PROVE  LET s == [Idle EXCEPT !.pc = "set", !.event = e, !.transfer = transfer]
         IN  /\ s \in Refresh /\ s.term = 0 /\ s.epoch = 0 /\ s.event = e
             /\ Idle \in Refresh /\ Idle.term = 0 /\ Idle.epoch = 0
             /\ ~Idle.event.active
<1>1. NoEvent \in Event /\ ~NoEvent.active
  BY EpochsAssumption DEF NoEvent, Event
<1>2. /\ Idle \in Refresh /\ Idle.term = 0 /\ Idle.epoch = 0
      /\ Idle.event = NoEvent
  BY <1>1, Constants, NumbersAreNat DEF Idle, Refresh
<1> QED BY <1>1, <1>2 DEF Refresh

\* What the calls that are not at work know stays true.
LEMMA OtherCalls ==
  ASSUME LInv, NEW p \in Refreshers, NEW r \in Refresh,
         r.term = 0, r.epoch = 0, OwnEvent(r.event),
         refresh' = [refresh EXCEPT ![p] = r]
  PROVE  /\ refresh' \in [Refreshers -> Refresh]
         /\ \A q \in Refreshers : /\ refresh'[q].term <= term
                                  /\ refresh'[q].epoch \in 0..Len(acquired)
                                  /\ OwnEvent(refresh'[q].event)
<1>1. refresh \in [Refreshers -> Refresh]
  BY DEF LInv, RefreshKnows
<1>2. term \in Nat /\ Len(acquired) \in Nat
  BY RefreshFields
<1>3. ASSUME NEW q \in Refreshers
      PROVE  /\ refresh'[q].term <= term /\ refresh'[q].epoch \in 0..Len(acquired)
             /\ OwnEvent(refresh'[q].event)
  <2>1. CASE q = p
    BY <1>1, <1>2, <2>1
  <2>2. CASE q # p
    BY <1>1, <2>2 DEF LInv, RefreshKnows, Remembers
  <2> QED BY <2>1, <2>2
<1> QED BY <1>1, <1>3

\* updateStatus
LEMMA PublishKeeps ==
  ASSUME LInv, NEW p \in Refreshers, PublishStatus(p)
  PROVE  LInv'
<1> DEFINE new == [role |-> refresh[p].role, quorum |-> refresh[p].quorum,
                   epoch |-> refresh[p].epoch]
           r == [Idle EXCEPT !.pc = "set", !.event = refresh[p].event,
                             !.transfer = refresh[p].transfer]
<1>1. /\ WriteStatus(new)
      /\ refresh' = [refresh EXCEPT ![p] = r]
      /\ verified' = IF refresh[p].at = "never" THEN verified ELSE refresh[p].at
      /\ UNCHANGED <<raftVars, fsmVars, expiries, watch, call, transferring,
                     running>>
  BY DEF PublishStatus
<1>2. new \in Statuses
  BY RefreshFields DEF Statuses, Roles
<1>3. r \in Refresh /\ r.term = 0 /\ r.epoch = 0 /\ r.event = refresh[p].event
  BY RefreshFields, IdleFields
<1> HIDE DEF new, r
<1>4. EventNext /\ leadership' = leadership
  BY <1>1, <1>2 DEF EventNext, WriteStatus
<1>5. OwnEvent(r.event)
  BY <1>3, RefreshFields DEF Remembers
<1>6. OtherOK'
  BY <1>1, RefreshFields DEF LInv, OtherOK, fsmVars
<1> QED BY <1>1, <1>3, <1>4, <1>5, <1>6, OtherCalls, EventChanges DEF fsmVars

\* setLeadership is called with an event, and refreshStatus may end.
LEMMA SetKeeps ==
  ASSUME LInv, NEW e \in Event, OwnEvent(e), SetLeadership(e), OtherOK',
         UNCHANGED <<raftVars, fsmVars>>,
         refresh' = refresh \/ \E p \in Refreshers : refresh' = [refresh EXCEPT ![p] = Idle]
  PROVE  LInv'
<1>1. EventNext /\ (leadership' = leadership \/ leadership' = e)
  BY DEF EventNext, SetLeadership
<1>2. /\ refresh' \in [Refreshers -> Refresh]
      /\ \A q \in Refreshers : /\ refresh'[q].term <= term
                               /\ refresh'[q].epoch \in 0..Len(acquired)
                               /\ OwnEvent(refresh'[q].event)
  <2>1. CASE refresh' = refresh
    BY <2>1 DEF LInv, RefreshKnows, Remembers
  <2>2. CASE \E p \in Refreshers : refresh' = [refresh EXCEPT ![p] = Idle]
    <3>1. Idle \in Refresh /\ Idle.term = 0 /\ Idle.epoch = 0 /\ ~Idle.event.active
      BY IdleFields, Constants
    <3>2. OwnEvent(Idle.event)
      BY <3>1 DEF OwnEvent
    <3> QED BY <2>2, <3>1, <3>2, OtherCalls
  <2> QED BY <2>1, <2>2
<1> QED BY <1>1, <1>2, EventChanges DEF fsmVars

\* The status is written and no call goes on.
LEMMA StatusKeeps ==
  ASSUME LInv, NEW new \in Statuses, WriteStatus(new), OtherOK',
         UNCHANGED <<raftVars, fsmVars, refresh>>
  PROVE  LInv'
<1>1. EventNext /\ leadership' = leadership
  BY DEF EventNext, WriteStatus
<1>2. /\ refresh' \in [Refreshers -> Refresh]
      /\ \A q \in Refreshers : /\ refresh'[q].term <= term
                               /\ refresh'[q].epoch \in 0..Len(acquired)
                               /\ OwnEvent(refresh'[q].event)
  BY DEF LInv, RefreshKnows, Remembers
<1> QED BY <1>1, <1>2, EventChanges DEF fsmVars

\* updateCachedLeadership(false, ...)
LEMMA CacheKeeps ==
  ASSUME LInv, CacheLoss, OtherOK', UNCHANGED <<raftVars, fsmVars, refresh>>
  PROVE  LInv'
<1> DEFINE new == [status EXCEPT !.role = "follower", !.quorum = FALSE]
<1>1. status \in Statuses
  BY Types DEF LInv, IInv
<1>2. new \in Statuses
  BY <1>1 DEF Statuses
<1>3. WriteStatus(new)
  BY DEF CacheLoss
<1> HIDE DEF new
<1> QED BY <1>2, <1>3, StatusKeeps

\* setLeadership, at the end of a call.
LEMMA AnnounceKeeps ==
  ASSUME LInv, NEW p \in Refreshers, Announce(p)
  PROVE  LInv'
<1>1. refresh[p].event \in Event /\ OwnEvent(refresh[p].event)
  BY RefreshFields DEF Remembers
<1>2. transferring' \in BOOLEAN
  BY DEF Announce
<1>3. OtherOK'
  BY <1>2 DEF Announce, LInv, OtherOK, fsmVars
<1> QED BY <1>1, <1>3, SetKeeps DEF Announce

\* The monitor ends, and watchRaftLeadership.
LEMMA WatchKeeps ==
  ASSUME LInv, StopMonitor \/ WatchStep
  PROVE  LInv'
<1>1. NoEvent \in Event /\ OwnEvent(NoEvent)
  BY EpochsAssumption DEF NoEvent, Event, OwnEvent
<1>2. CASE StopMonitor
  <2>1. OtherOK'
    BY <1>2 DEF StopMonitor, LInv, OtherOK, fsmVars
  <2> QED BY <1>1, <1>2, <2>1, SetKeeps DEF StopMonitor
<1>3. CASE WatchAnnounce
  <2>1. OtherOK'
    BY <1>3 DEF WatchAnnounce, LInv, OtherOK, fsmVars
  <2> QED BY <1>1, <1>3, <2>1, SetKeeps DEF WatchAnnounce
<1>4. CASE WatchCache
  <2>1. OtherOK'
    BY <1>4 DEF WatchCache, LInv, OtherOK, fsmVars
  <2> QED BY <1>4, <2>1, CacheKeeps DEF WatchCache, CacheLoss
<1>5. CASE TakeLeaderCh
  <2>1. /\ UNCHANGED <<eventVars, refresh, term, acquired, applied>>
        /\ RaftOK' /\ OtherOK'
    BY <1>5 DEF TakeLeaderCh, LInv, RaftOK, OtherOK, fsmVars
  <2>2. term <= term' /\ applied' \in 0..Len(acquired')
    BY <2>1, NumbersAreNat DEF LInv, RaftOK, FsmOK
  <2> QED BY <2>1, <2>2, RaftChanges DEF AcquiredGrows
<1> QED BY <1>2, <1>3, <1>4, <1>5 DEF WatchStep

-----------------------------------------------------------------------------
(* VerifyBusinessLeadership.                                               *)

\* A call of a caller keeps the invariant.
LEMMA CallKeeps ==
  ASSUME LInv, CallStep
  PROVE  LInv'
<1>1. /\ applied \in 0..Len(acquired) /\ Len(acquired) \in 0..Len(acquired)
      /\ term <= term /\ applied \in Epochs
  BY EpochsBound, NumbersAreNat DEF LInv, FsmOK, RaftOK
<1>2. CASE BeginVerify \/ CheckMetadata \/ CheckTerm \/ CheckStatus \/ CheckQuorum
           \/ AbandonVerify
  <2>0. call' \in Verifications
    <3>1. call \in Verifications /\ NoCall \in Verifications
      BY Constants DEF LInv, OtherOK, NoCall, Verifications
    <3>2. CASE CheckMetadata
      BY <1>1, <3>2 DEF CheckMetadata, Verifications
    <3>3. CASE BeginVerify \/ CheckTerm \/ CheckStatus \/ CheckQuorum
      BY <3>1, <3>3
      DEF BeginVerify, CheckTerm, CheckStatus, CheckQuorum, Verifications
    <3>4. CASE AbandonVerify
      BY <3>1, <3>4 DEF AbandonVerify
    <3> QED BY <1>2, <3>2, <3>3, <3>4
  <2>1. /\ UNCHANGED <<eventVars, refresh, raftVars, acquired>>
        /\ applied' \in 0..Len(acquired') /\ OtherOK'
    BY <1>1, <1>2, <2>0
    DEF BeginVerify, CheckMetadata, CheckTerm, CheckStatus, CheckQuorum,
        AbandonVerify, LInv, OtherOK, fsmVars, AppliedByBarrier, LastEpoch
  <2>2. term <= term' /\ RaftOK'
    BY <1>1, <2>1 DEF LInv, RaftOK, raftVars
  <2> QED BY <2>1, <2>2, RaftChanges DEF AcquiredGrows
<1>3. CASE EndVerify
  <2>1. OtherOK'
    <3>1. NoCall \in Verifications
      BY Constants DEF NoCall, Verifications
    <3> QED BY <1>3, <3>1, Constants DEF EndVerify, LInv, OtherOK, fsmVars
  <2>2. CASE CacheLoss
    BY <1>3, <2>1, <2>2, CacheKeeps DEF EndVerify
  <2>3. CASE WriteStatus([role |-> "leader", quorum |-> TRUE, epoch |-> applied])
    <3>1. [role |-> "leader", quorum |-> TRUE, epoch |-> applied] \in Statuses
      BY <1>1 DEF Statuses
    <3> QED BY <1>3, <2>1, <2>3, <3>1, StatusKeeps DEF EndVerify
  <2> QED BY <1>3, <2>2, <2>3 DEF EndVerify
<1> QED BY <1>2, <1>3 DEF CallStep

-----------------------------------------------------------------------------
(* Raft, the other nodes and time.                                         *)

\* Elections and their end.
LEMMA ElectionKeeps ==
  ASSUME LInv, ElectSelf \/ ElectOther \/ StepDown \/ EndTransfer \/ HearOfTerm
  PROVE  LInv'
<1>1. /\ term \in 0..MaxTerm /\ myTerm \in 0..MaxTerm /\ myTerm <= term
      /\ MaxTerm \in Nat /\ term \in Nat /\ myTerm \in Nat
      /\ leader \in {"self", "other", "none"} /\ leads \in BOOLEAN
      /\ leaderCh \in {"none", "gained", "lost"}
      /\ leader = "self" => leads /\ myTerm = term
  BY NumbersAreNat DEF LInv, RaftOK
<1>2. /\ UNCHANGED <<eventVars, refresh, acquired, applied>>
      /\ OtherOK'
  BY DEF ElectSelf, ElectOther, StepDown, EndTransfer, HearOfTerm, LInv,
         OtherOK, fsmVars, procVars
<1>3. term <= term' /\ RaftOK'
  <2>1. CASE ElectSelf
    <3>1. /\ term' = term + 1 /\ myTerm' = term + 1 /\ term + 1 \in 0..MaxTerm
          /\ leads' = TRUE /\ leader' = "self" /\ leaderCh' = "gained"
      BY <1>1, <2>1 DEF ElectSelf
    <3> QED BY <1>1, <3>1 DEF RaftOK
  <2>2. CASE ElectOther
    BY <1>1, <2>2 DEF ElectOther, RaftOK
  <2>3. CASE LoseLeadership
    <3>1. /\ term' = term /\ (myTerm' = myTerm \/ myTerm' = term)
          /\ leader' \in {"other", "none"} /\ leaderCh' = "lost"
      BY <1>1, <2>3 DEF LoseLeadership
    <3>2. leads' \in BOOLEAN
      BY <2>3 DEF LoseLeadership
    <3>3. term <= term /\ myTerm' \in 0..MaxTerm /\ myTerm' <= term
      BY <1>1, <3>1
    <3> QED BY <1>1, <3>1, <3>2, <3>3 DEF RaftOK
  <2>4. CASE HearOfTerm
    BY <1>1, <2>4 DEF HearOfTerm, RaftOK
  <2>5. CASE UNCHANGED raftVars
    BY <1>1, <2>5 DEF raftVars, RaftOK
  <2> QED BY <2>1, <2>2, <2>3, <2>4, <2>5 DEF StepDown, EndTransfer
<1>4. applied' \in 0..Len(acquired')
  BY <1>2 DEF LInv, FsmOK
<1> QED BY <1>2, <1>3, <1>4, RaftChanges DEF AcquiredGrows

\* The log of the other nodes, and the state machine of this one.
LEMMA LogKeeps ==
  ASSUME LInv, OtherAcquires \/ ApplyEntry \/ RaiseGate \/ Fault
  PROVE  LInv'
<1>1. /\ Len(acquired) \in Nat /\ applied \in 0..Len(acquired)
      /\ term \in 0..MaxTerm /\ MaxTerm \in Nat /\ term \in Nat
  BY EpochsBound, NumbersAreNat DEF LInv, FsmOK, RaftOK
<1>2. UNCHANGED <<eventVars, refresh>> /\ UNCHANGED raftVars
  BY DEF OtherAcquires, ApplyEntry, RaiseGate, Fault, procVars
<1>3. term <= term' /\ RaftOK'
  BY <1>1, <1>2 DEF LInv, RaftOK, raftVars
<1>4. CASE OtherAcquires
  <2> DEFINE e == [owner |-> "other", term |-> term]
  <2>1. TermOf(LastEpoch) < term /\ acquired' = Append(acquired, e)
    BY <1>4 DEF OtherAcquires
  <2>2. term \in 1..MaxTerm
    BY <1>1, <2>1, LastTerm
  <2>3. e \in Acquisition /\ e.term = term
    BY <2>2 DEF Acquisition
  <2>4. OtherOK' /\ applied' = applied
    BY <1>4 DEF OtherAcquires, LInv, OtherOK, procVars
  <2> HIDE DEF e
  <2>5. applied' \in 0..Len(acquired')
    BY <1>1, <2>1, <2>3, <2>4 DEF LInv, FsmOK
  <2>6. AcquiredGrows
    BY <1>1, <2>1, <2>3 DEF AcquiredGrows
  <2> QED BY <1>2, <1>3, <2>4, <2>5, <2>6, RaftChanges
<1>5. CASE ApplyEntry \/ RaiseGate \/ Fault
  <2>1. acquired' = acquired /\ applied' \in 0..Len(acquired')
    BY <1>1, <1>5 DEF ApplyEntry, RaiseGate, Fault, LastEpoch
  <2>2. MaxFaults \in Nat
    BY BoundsAssumption
  <2>3. faults' \in 0..MaxFaults
    BY <1>5, <2>2 DEF ApplyEntry, RaiseGate, Fault, LInv, OtherOK
  <2>4. OtherOK'
    BY <1>5, <2>3 DEF ApplyEntry, RaiseGate, Fault, LInv, OtherOK, procVars
  <2> QED BY <1>2, <1>3, <2>1, <2>4, RaftChanges DEF AcquiredGrows
<1> QED BY <1>4, <1>5

\* The verifications grow old.
LEMMA ExpireKeeps ==
  ASSUME LInv, Expire
  PROVE  LInv'
<1>1. \A at \in Ages : Expired(at) \in Ages
  BY DEF Expired, Ages
<1>2. OtherOK'
  <2>1. expiries' \in 0..MaxExpiries
    BY NumbersAreNat DEF Expire, LInv, OtherOK
  <2> QED BY <1>1, <2>1 DEF Expire, LInv, OtherOK, fsmVars
<1>3. ASSUME NEW p \in Refreshers
      PROVE  /\ refresh'[p] \in Refresh /\ refresh'[p].term <= term
             /\ refresh'[p].epoch \in 0..Len(acquired)
             /\ OwnEvent(refresh'[p].event)
  <2> DEFINE r == [refresh[p] EXCEPT !.at = Expired(refresh[p].at)]
  <2>1. refresh'[p] = r
    BY DEF Expire
  <2>2. Expired(refresh[p].at) \in Ages /\ refresh[p] \in Refresh
    BY <1>1, RefreshFields
  <2>3. r \in Refresh /\ r.term = refresh[p].term /\ r.epoch = refresh[p].epoch
        /\ r.event = refresh[p].event
    BY <2>2 DEF Refresh
  <2> HIDE DEF r
  <2> QED BY <2>1, <2>3, RefreshFields DEF Remembers
<1>4. refresh' \in [Refreshers -> Refresh]
  BY <1>3 DEF Expire
<1>5. UNCHANGED <<eventVars, raftVars, acquired, applied, capable, faults>>
      /\ leadership' = leadership
  BY DEF Expire, fsmVars, eventVars
<1> QED BY <1>2, <1>3, <1>4, <1>5, EventChanges

\* The channels and their readers go on.
LEMMA EventsKeep ==
  ASSUME LInv, EventSteps,
         UNCHANGED <<raftVars, fsmVars, verified, expiries, procVars>>
  PROVE  LInv'
<1>1. EventNext
  BY DEF EventNext
<1>2. leadership' = leadership
  BY DEF EventSteps, Subscribe, SendFirst, Receive, Handle, Cancel, EndLoop,
         TrySend, Drain, Send, Unlock
<1>3. OtherOK' /\ refresh' = refresh
  BY DEF LInv, OtherOK, fsmVars, procVars
<1>4. /\ refresh' \in [Refreshers -> Refresh]
      /\ \A q \in Refreshers : /\ refresh'[q].term <= term
                               /\ refresh'[q].epoch \in 0..Len(acquired)
                               /\ OwnEvent(refresh'[q].event)
  BY <1>3 DEF LInv, RefreshKnows, Remembers
<1> QED BY <1>1, <1>2, <1>3, <1>4, EventChanges DEF fsmVars

-----------------------------------------------------------------------------
(* The theorems.                                                           *)

\* The initial state has the invariant.
LEMMA LeadershipInit == Init => LInv
<1> SUFFICES ASSUME Init PROVE LInv
  OBVIOUS
<1>1. IInv
  BY InitInvariant DEF Init
<1>2. Idle \in Refresh /\ Idle.term = 0 /\ Idle.epoch = 0 /\ ~Idle.event.active
  <2>1. NoEvent \in Event
    BY EpochsAssumption DEF NoEvent, Event
  <2> QED BY <2>1, IdleFields, Constants
<1>3. acquired = <<>> /\ Len(acquired) = 0 /\ applied = 0 /\ term = 0
  BY DEF Init
<1>4. FsmOK /\ RaftOK
  <2>1. TermsGrow /\ acquired \in Seq(Acquisition) /\ 0 \in 0..Len(acquired)
    BY <1>3 DEF TermsGrow
  <2>2. leads \in BOOLEAN
    BY DEF Init
  <2>3. myTerm = 0 /\ 0 <= 0
    BY DEF Init
  <2> QED BY <1>3, <2>1, <2>2, <2>3, NumbersAreNat DEF Init, FsmOK, RaftOK
<1>5. RefreshKnows
  BY <1>2, <1>3 DEF Init, RefreshKnows, Remembers, OwnEvent
<1>6. OtherOK
  <2>1. MaxFaults \in Nat
    BY BoundsAssumption
  <2>2. faults \in 0..MaxFaults /\ expiries \in 0..MaxExpiries
    BY <2>1, NumbersAreNat DEF Init
  <2>3. capable \in BOOLEAN /\ transferring \in BOOLEAN /\ running \in BOOLEAN
    BY DEF Init
  <2>4. NoCall \in Verifications
    BY Constants DEF NoCall, Verifications
  <2> QED BY <2>2, <2>3, <2>4, Constants DEF Init, OtherOK
<1>7. AnnouncedEpochIsOwn
  BY DEF Init, EventInit, NoEvent, AnnouncedEpochIsOwn
<1> QED BY <1>1, <1>4, <1>5, <1>6, <1>7 DEF LInv

\* Every step keeps the invariant.
LEMMA LeadershipStep == LInv /\ [Next]_vars => LInv'
<1> SUFFICES ASSUME LInv, [Next]_vars PROVE LInv'
  OBVIOUS
<1>1. CASE EventSteps /\ UNCHANGED <<raftVars, fsmVars, verified, expiries, procVars>>
  BY <1>1, EventsKeep
<1>2. CASE \E p \in Refreshers : BeginRefresh(p)
  BY <1>2, ReadKeeps
<1>3. CASE \E p \in Refreshers : RefreshStep(p)
  <2> PICK p \in Refreshers : RefreshStep(p)
    BY <1>3
  <2>1. CASE ReadState(p) \/ Reread(p)
    BY <2>1, ReadKeeps
  <2>2. CASE AcquireOk(p) \/ AcquireFails(p)
    BY <2>2, AcquireKeeps
  <2>3. CASE VerifyOk \/ VerifyFails \/ VerifyFromCache
    BY <2>3, VerifyKeeps
  <2>4. CASE PublishStatus(p)
    BY <2>4, PublishKeeps
  <2>5. CASE Announce(p)
    BY <2>5, AnnounceKeeps
  <2> QED BY <2>1, <2>2, <2>3, <2>4, <2>5 DEF RefreshStep
<1>4. CASE StopMonitor \/ WatchStep
  BY <1>4, WatchKeeps
<1>5. CASE CallStep
  BY <1>5, CallKeeps
<1>6. CASE Environment
  <2>1. CASE ElectSelf \/ ElectOther \/ StepDown \/ EndTransfer \/ HearOfTerm
    BY <2>1, ElectionKeeps
  <2>2. CASE OtherAcquires \/ ApplyEntry \/ RaiseGate \/ Fault
    BY <2>2, LogKeeps
  <2>3. CASE Expire
    BY <2>3, ExpireKeeps
  <2> QED BY <1>6, <2>1, <2>2, <2>3 DEF Environment
<1>7. CASE UNCHANGED vars
  <2>1. /\ UNCHANGED <<eventVars, refresh, raftVars, acquired, applied>>
        /\ term' = term
    BY <1>7 DEF vars, fsmVars, procVars, raftVars
  <2>2. OtherOK' /\ RaftOK'
    BY <1>7 DEF vars, fsmVars, procVars, raftVars, LInv, OtherOK, RaftOK
  <2>3. term <= term' /\ applied' \in 0..Len(acquired')
    BY <2>1, NumbersAreNat DEF LInv, RaftOK, FsmOK
  <2> QED BY <2>1, <2>2, <2>3, RaftChanges DEF AcquiredGrows
<1> QED BY <1>1, <1>2, <1>3, <1>4, <1>5, <1>6, <1>7 DEF Next

\* LInv holds in every reachable state of the node and its environment.
THEOREM LeadershipInductive == Spec => []LInv
BY LeadershipInit, LeadershipStep, PTL DEF Spec

\* Every variable of the node and its environment keeps its type: epochs stay
\* within the terms, and the state machine within the log (node.go:359-447).
THEOREM LeadershipTypes == Spec => []TypeOK
BY LeadershipInductive, LInvTypes, PTL

\* A node announces itself only as the leader of an epoch it has acquired
\* itself, for any number of terms, elections and refreshStatus calls that
\* outlast them (node.go:412-447).
THEOREM AnnouncedEpochsAreOwn == Spec => []AnnouncedEpochIsOwn
<1>1. LInv => AnnouncedEpochIsOwn
  BY DEF LInv
<1> QED BY <1>1, LeadershipInductive, PTL

\* The check of node.go:1969-1993 passes on a node with its quorum only in the
\* newest epoch there is: the acquisitions are in the order of their terms, and
\* no term is above the one of a leader that still has its quorum.
LEMMA NewestEpoch == LInv => BusinessLeaderIsNewest
<1> SUFFICES ASSUME LInv, HasBusinessLeadership, Genuine
             PROVE  /\ status.epoch = Len(acquired)
                    /\ acquired[Len(acquired)].owner = "self"
  BY DEF BusinessLeaderIsNewest
<1>1. /\ Owner(applied) = "self" /\ TermOf(applied) = myTerm
      /\ status.epoch = applied
  BY DEF HasBusinessLeadership, MetadataAllows, TermAllows, StatusAllows
<1>2. myTerm = term /\ term \in Nat
  BY NumbersAreNat DEF Genuine, LInv, RaftOK
<1>3. Len(acquired) \in Nat /\ applied \in 0..Len(acquired)
  BY EpochsBound DEF LInv, FsmOK
<1>4. /\ applied \in 1..Len(acquired)
      /\ acquired[applied].owner = "self" /\ acquired[applied].term = term
  BY <1>1, <1>2, <1>3 DEF Owner, TermOf
<1>5. Len(acquired) \in 1..Len(acquired)
  BY <1>3, <1>4
<1>6. acquired[Len(acquired)].term \in Nat /\ acquired[Len(acquired)].term <= term
  BY <1>5, AcquisitionTypes DEF LInv, FsmOK, TermsGrow
<1>7. applied = Len(acquired)
  <2> SUFFICES ASSUME applied < Len(acquired) PROVE FALSE
    BY <1>3, <1>4
  <2>1. acquired[applied].term < acquired[Len(acquired)].term
    BY <1>4, <1>5 DEF LInv, FsmOK, TermsGrow
  <2> QED BY <1>2, <1>4, <1>6, <2>1
<1> QED BY <1>1, <1>4, <1>7

\* A node that may act as the leader, and has its quorum, acts under the newest
\* epoch of the cluster (node.go:1969-1993).
THEOREM BusinessLeadersAreNewest == Spec => []BusinessLeaderIsNewest
BY LeadershipInductive, NewestEpoch, PTL

\* The callers this node really has keep what LeadershipEvents promises its
\* subscribers, whatever terms, faults and stops do to them
\* (node.go:1927-1959).
THEOREM CallersKeepTheEvents ==
  Spec => [](NoChangeIsLost /\ SendsToOpenChannels /\ OnlyOvertakenBlocks)
<1>1. LInv => NoChangeIsLost /\ SendsToOpenChannels /\ OnlyOvertakenBlocks
  BY DEF LInv, IInv, SetterOK, UpToDate, NoChangeIsLost, Free, Registered
<1> QED BY <1>1, LeadershipInductive, PTL
=============================================================================
