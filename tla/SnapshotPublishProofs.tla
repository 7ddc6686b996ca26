----------------------- MODULE SnapshotPublishProofs -----------------------
(***************************************************************************)
(* Proofs about SnapshotPublish: types, and that every committed generation *)
(* was stored by a majority of its voters, for any set of nodes, blobs and *)
(* manifests and any bounds.                                               *)
(***************************************************************************)
EXTENDS SnapshotPublish, FiniteSetTheorems, TLAPS

-----------------------------------------------------------------------------
(* Types.                                                                  *)

\* No call and a waiting maintenance loop have their types.
LEMMA IdleType == Idle \in Calls /\ Syncing.pc = "sync" /\ Syncing.retained = {}
BY LimitsAssumption DEF Idle, Calls, Manifests, NoDraft, Syncing

\* A manifest's blobs are blobs.
LEMMA ManifestType ==
  ASSUME NEW d \in Manifests
  PROVE  d.blobs \subseteq Blobs /\ d.previous \subseteq Blobs
BY DraftsAssumption DEF Manifests, NoDraft

\* The flag that an epoch is current may be set and cleared.
LEMMA CurrentType ==
  ASSUME NEW c \in BOOLEAN
  PROVE  /\ \A p \in Calls : [p EXCEPT !.current = c] \in Calls
         /\ \A e \in Entries : [e EXCEPT !.current = c] \in Entries
BY DEF Calls, Entries

\* The initial state has its type.
LEMMA InitType == Init => TypeOK
<1> SUFFICES ASSUME Init PROVE TypeOK
  OBVIOUS
<1> QED BY IdleType, VotersAssumption, LimitsAssumption
        DEF Init, TypeOK, Syncing

\* Storing blobs keeps the types of the stores.
LEMMA PutType ==
  ASSUME TypeOK, NEW n \in Nodes, NEW bs \in SUBSET Blobs, Put(n, bs)
  PROVE  /\ store' \in [Nodes -> [Blobs -> {"absent", "valid", "corrupt"}]]
         /\ everStored' \in [Nodes -> SUBSET Blobs]
BY DEF TypeOK, Put

\* A change of one call keeps the type of the calls.
LEMMA CallType ==
  ASSUME TypeOK, NEW n \in Nodes, NEW p \in Calls,
         publish' = [publish EXCEPT ![n] = p]
  PROVE  publish' \in [Nodes -> Calls]
BY DEF TypeOK

\* Deciding the oldest command keeps the types of the log and the calls.
LEMMA DecidedType ==
  ASSUME TypeOK, Decided
  PROVE  /\ inflight' \in Seq(Entries)
         /\ publish' \in [Nodes -> Calls]
         /\ Head(inflight) \in Entries
<1>1. inflight \in Seq(Entries) /\ inflight # <<>>
  BY DEF TypeOK, Decided
<1>2. Head(inflight) \in Entries /\ Tail(inflight) \in Seq(Entries)
  BY <1>1
<1>3. Head(inflight).by \in Nodes
  BY <1>2 DEF Entries
<1>4. publish' \in [Nodes -> Calls]
  BY <1>3, IdleType DEF Decided, Returned, TypeOK
<1> QED BY <1>2, <1>4 DEF Decided

\* Every step keeps the types.
LEMMA NextType == TypeOK /\ [Next]_vars => TypeOK'
<1> SUFFICES ASSUME TypeOK, [Next]_vars PROVE TypeOK'
  OBVIOUS
<1> USE DEF raftVars
<1>1. CASE UNCHANGED vars
  BY <1>1 DEF vars, TypeOK
<1>2. ASSUME NEW n \in Nodes, NEW d \in Drafts, BeginPublish(n, d) PROVE TypeOK'
  <2> DEFINE p == [Idle EXCEPT !.pc = "storing", !.draft = d, !.current = TRUE]
  <2> DEFINE q == [Idle EXCEPT !.pc = "storing", !.draft = d]
  <2>1. q \in Calls
    BY IdleType DEF Calls, Manifests
  <2>2. p = [q EXCEPT !.current = TRUE]
    BY DEF Idle
  <2>3. p \in Calls
    BY <2>1, <2>2, CurrentType
  <2>4. publish' \in [Nodes -> Calls]
    BY <1>2, <2>3, CallType DEF BeginPublish
  <2> QED BY <1>2, <2>4 DEF BeginPublish, TypeOK
<1>3. ASSUME NEW n \in Nodes, NEW given \in SUBSET publish[n].draft.blobs,
             StoreLocal(n, given)
      PROVE  TypeOK'
  <2>1. publish[n] \in Calls /\ given \in SUBSET Blobs
    BY ManifestType DEF TypeOK, Calls
  <2> DEFINE p == [publish[n] EXCEPT !.pc = "replicating", !.cfg = cfgIndex,
                                     !.voters = voters, !.waiting = voters,
                                     !.acks = {}]
  <2>2. p \in Calls
    BY <2>1 DEF Calls, TypeOK
  <2>3. publish' = [publish EXCEPT ![n] = p]
    BY <1>3 DEF StoreLocal, TypeOK
  <2>4. publish' \in [Nodes -> Calls]
    BY <2>2, <2>3, CallType
  <2> QED BY <1>3, <2>1, <2>4, PutType DEF StoreLocal, TypeOK
<1>4. ASSUME NEW n \in Nodes, AckSelf(n) PROVE TypeOK'
  <2>1. publish[n] \in Calls
    BY DEF TypeOK
  <2>2. Acked(publish[n], n) \in Calls
    BY <2>1 DEF Acked, Calls
  <2>3. publish' \in [Nodes -> Calls]
    BY <1>4, <2>2, CallType DEF AckSelf
  <2> QED BY <1>4, <2>3 DEF AckSelf, TypeOK
<1>5. ASSUME NEW n \in Nodes, NEW v \in Nodes, NEW b \in Blobs, SendBlob(n, v, b)
      PROVE  TypeOK'
  <2> DEFINE p == publish[n]
             q == [p EXCEPT !.peer = v, !.sent = p.sent \cup {b}]
  <2>1. p \in Calls
    BY DEF TypeOK
  <2>2. Acked(p, v) \in Calls /\ q \in Calls
    BY <2>1 DEF Acked, Calls
  <2>3. publish' = [publish EXCEPT ![n] = Acked(p, v)]
        \/ publish' = [publish EXCEPT ![n] = q]
    BY <1>5 DEF SendBlob
  <2>4. publish' \in [Nodes -> Calls]
    BY <2>2, <2>3, CallType
  <2> QED BY <1>5, <2>4, PutType DEF SendBlob, Receive, TypeOK
<1>6. ASSUME NEW n \in Nodes, NEW v \in Nodes, SendFails(n, v) PROVE TypeOK'
  <2> DEFINE p == [publish[n] EXCEPT !.waiting = @ \ {v}, !.peer = NoNode,
                                     !.sent = {}]
  <2>1. publish[n] \in Calls
    BY DEF TypeOK
  <2>2. p \in Calls
    BY <2>1 DEF Calls
  <2>3. publish' = [publish EXCEPT ![n] = p]
    BY <1>6 DEF SendFails, TypeOK
  <2>4. publish' \in [Nodes -> Calls]
    BY <2>2, <2>3, CallType
  <2>5. publish[n].draft.blobs \subseteq Blobs
    BY <2>1, ManifestType DEF Calls
  <2>6. /\ store' \in [Nodes -> [Blobs -> {"absent", "valid", "corrupt"}]]
        /\ everStored' \in [Nodes -> SUBSET Blobs]
    <3>1. CASE UNCHANGED <<store, everStored>>
      BY <3>1 DEF TypeOK
    <3>2. ASSUME NEW b \in publish[n].draft.blobs, Receive(v, b)
          PROVE  /\ store' \in [Nodes -> [Blobs -> {"absent", "valid", "corrupt"}]]
                 /\ everStored' \in [Nodes -> SUBSET Blobs]
      BY <2>5, <3>2, PutType DEF Receive
    <3> QED BY <1>6, <3>1, <3>2 DEF SendFails
  <2> QED BY <1>6, <2>4, <2>6 DEF SendFails, TypeOK
<1>7. ASSUME NEW n \in Nodes, FinishReplication(n) PROVE TypeOK'
  <2>1. publish[n] \in Calls
    BY DEF TypeOK
  <2> DEFINE p == [publish[n] EXCEPT !.pc = "prepared", !.confirmed = voters]
  <2>2. p \in Calls
    BY <2>1 DEF Calls, TypeOK
  <2>3. publish' = [publish EXCEPT ![n] = p]
    BY <1>7 DEF FinishReplication, TypeOK
  <2>4. publish' \in [Nodes -> Calls]
    BY <2>2, <2>3, CallType
  <2> QED BY <1>7, <2>4 DEF FinishReplication, TypeOK
<1>8. ASSUME NEW n \in Nodes, SubmitManifest(n) PROVE TypeOK'
  <2> DEFINE p == publish[n]
             e == [by |-> n, draft |-> p.draft, current |-> p.current,
                   voters |-> p.voters, confirmed |-> p.confirmed]
  <2>1. p \in Calls
    BY DEF TypeOK
  <2>2. [p EXCEPT !.pc = "submitted"] \in Calls /\ e \in Entries
    BY <2>1 DEF Calls, Entries
  <2>3. publish' = [publish EXCEPT ![n] = [p EXCEPT !.pc = "submitted"]]
    BY <1>8 DEF SubmitManifest, TypeOK
  <2>4. publish' \in [Nodes -> Calls]
    BY <2>2, <2>3, CallType
  <2>5. inflight' \in Seq(Entries)
    BY <1>8, <2>2 DEF SubmitManifest, TypeOK
  <2> QED BY <1>8, <2>4, <2>5 DEF SubmitManifest, TypeOK
<1>9. ASSUME CommitManifest PROVE TypeOK'
  <2> DEFINE g == [draft |-> Head(inflight).draft, voters |-> Head(inflight).voters,
                   confirmed |-> Head(inflight).confirmed]
  <2>1. /\ inflight' \in Seq(Entries) /\ publish' \in [Nodes -> Calls]
        /\ Head(inflight) \in Entries
    BY <1>9, DecidedType DEF CommitManifest
  <2>2. g \in Generations
    BY <2>1 DEF Entries, Generations
  <2>3. committed' = Append(committed, g) /\ committed \in Seq(Generations)
    BY <1>9 DEF CommitManifest, TypeOK
  <2>4. committed' \in Seq(Generations) /\ Len(committed') = Len(committed) + 1
    BY <2>2, <2>3
  <2>5. applied \in [Nodes -> 0..Len(committed')]
    BY <2>4 DEF TypeOK
  <2> QED BY <1>9, <2>1, <2>4, <2>5 DEF CommitManifest, TypeOK
<1>10. ASSUME RefuseManifest PROVE TypeOK'
  BY <1>10, DecidedType DEF RefuseManifest, TypeOK
<1>11. ASSUME NEW n \in Nodes, AbortPublish(n) PROVE TypeOK'
  <2>1. publish' \in [Nodes -> Calls]
    BY <1>11, IdleType, CallType DEF AbortPublish
  <2> QED BY <1>11, <2>1 DEF AbortPublish, TypeOK
<1>12. ASSUME NEW n \in Nodes, NEW v \in Nodes, NEW b \in Blobs, Pull(n, v, b)
       PROVE  TypeOK'
  BY <1>12, PutType DEF Pull, TypeOK
<1>13. ASSUME NEW n \in Nodes, ReadState(n) PROVE TypeOK'
  <2>1. PICK keep \in KeepChoices(n) :
          loop' = [loop EXCEPT ![n] =
            [pc |-> "state",
             retained |-> UNION {References(committed[i].draft) : i \in keep}]]
    BY <1>13 DEF ReadState
  <2>2. \A i \in keep : i \in 1..Len(committed)
    BY DEF KeepChoices, TypeOK
  <2>3. \A i \in keep : References(committed[i].draft) \subseteq Blobs
    <3> SUFFICES ASSUME NEW i \in keep
                 PROVE  References(committed[i].draft) \subseteq Blobs
      OBVIOUS
    <3>1. committed[i] \in Generations
      BY <2>2 DEF TypeOK
    <3>2. committed[i].draft \in Manifests
      BY <3>1 DEF Generations
    <3> QED BY <3>2, ManifestType DEF References
  <2>4. UNION {References(committed[i].draft) : i \in keep} \subseteq Blobs
    BY <2>3
  <2> QED BY <1>13, <2>1, <2>4 DEF ReadState, TypeOK
<1>14. ASSUME NEW n \in Nodes, ReadStaging(n) PROVE TypeOK'
  <2>1. publish[n].draft.blobs \subseteq Blobs
    BY ManifestType DEF TypeOK, Calls
  <2> QED BY <1>14, <2>1 DEF ReadStaging, TypeOK
<1>15. ASSUME NEW n \in Nodes, NEW b \in Blobs, RemoveBlob(n, b) PROVE TypeOK'
  BY <1>15 DEF RemoveBlob, TypeOK
<1>16. ASSUME NEW n \in Nodes, EndGC(n) PROVE TypeOK'
  BY <1>16 DEF EndGC, TypeOK, Syncing
<1>17. ASSUME NEW n \in Nodes, ApplyManifest(n) PROVE TypeOK'
  <2>1. Len(committed) \in Nat
    BY DEF TypeOK
  <2>2. applied' \in [Nodes -> 0..Len(committed)]
    BY <1>17, <2>1 DEF ApplyManifest, TypeOK
  <2> QED BY <1>17, <2>2 DEF ApplyManifest, TypeOK
<1>18. ASSUME NEW n \in Nodes, Elect(n) PROVE TypeOK'
  BY <1>18 DEF Elect, TypeOK
<1>19. ASSUME Acquire PROVE TypeOK'
  <2>1. \A n \in Nodes : [publish[n] EXCEPT !.current = FALSE] \in Calls
    BY CurrentType DEF TypeOK
  <2>2. publish' \in [Nodes -> Calls]
    BY <1>19, <2>1 DEF Acquire
  <2>3. \A i \in 1..Len(inflight) :
          [inflight[i] EXCEPT !.current = FALSE] \in Entries
    <3>1. \A i \in 1..Len(inflight) : inflight[i] \in Entries
      BY DEF TypeOK
    <3> QED BY <3>1, CurrentType
  <2>4. inflight' \in Seq(Entries)
    <3>1. inflight \in Seq(Entries) /\ Len(inflight) \in Nat
          /\ DOMAIN inflight = 1..Len(inflight)
      BY DEF TypeOK
    <3>2. inflight' \in [1..Len(inflight) -> Entries]
      BY <1>19, <2>3, <3>1 DEF Acquire
    <3> QED BY <3>1, <3>2
  <2> QED BY <1>19, <2>2, <2>4 DEF Acquire, TypeOK
<1>20. ASSUME LoseLeadership PROVE TypeOK'
  <2>1. publish' \in [Nodes -> Calls]
    BY <1>20, IdleType DEF LoseLeadership, Returned, TypeOK
  <2> QED BY <1>20, <2>1 DEF LoseLeadership, TypeOK
<1>21. ASSUME NEW v \in Nodes, ChangeVoters(v) PROVE TypeOK'
  BY <1>21, LimitsAssumption DEF ChangeVoters, TypeOK
<1>22. ASSUME NEW n \in Nodes, Crash(n) PROVE TypeOK'
  BY <1>22, IdleType DEF Crash, TypeOK, Syncing
<1>23. ASSUME NEW n \in Nodes, NEW b \in Blobs, Corrupt(n, b) PROVE TypeOK'
  BY <1>23, LimitsAssumption DEF Corrupt, TypeOK
<1> QED
  BY <1>1, <1>2, <1>3, <1>4, <1>5, <1>6, <1>7, <1>8, <1>9, <1>10, <1>11, <1>12,
     <1>13, <1>14, <1>15, <1>16, <1>17, <1>18, <1>19, <1>20, <1>21, <1>22, <1>23
  DEF Next

\* Every variable of the publication model (node.go:693-1127) keeps its type,
\* whatever the nodes, blobs, manifests and bounds.
THEOREM PublishTypeCorrect == Spec => []TypeOK
BY InitType, NextType, PTL DEF Spec

-----------------------------------------------------------------------------
(* Storage.                                                                *)

\* A quorum of the servers has stored the blobs, by the record ever.
WasStored(blobs, servers, ever) ==
  \E q \in SUBSET servers :
    IsQuorum(q, servers) /\ \A v \in q : blobs \subseteq ever[v]

\* What a call counts as sent and acknowledged was stored, and once it is
\* past its replication it has a quorum.
CallStored(p, ever) ==
  /\ p.waiting \subseteq p.voters
  /\ p.acks \subseteq p.voters
  /\ \A v \in p.acks : p.draft.blobs \subseteq ever[v]
  /\ p.pc = "storing" => p.acks = {} /\ p.peer = NoNode
  /\ p.peer = NoNode => p.sent = {}
  /\ p.peer # NoNode => p.sent \subseteq ever[p.peer]
  /\ p.pc \in {"prepared", "submitted"} => IsQuorum(p.acks, p.voters)

CopiesStored ==
  \A n \in Nodes, b \in Blobs : store[n][b] = "valid" => b \in everStored[n]

CallsStored == \A n \in Nodes : CallStored(publish[n], everStored)

InflightStored ==
  \A i \in 1..Len(inflight) :
    WasStored(inflight[i].draft.blobs, inflight[i].voters, everStored)

CommittedStored ==
  \A i \in 1..Len(committed) :
    WasStored(committed[i].draft.blobs, committed[i].voters, everStored)

\* The inductive invariant behind GenerationWasStored.
StoredInv ==
  TypeOK /\ CopiesStored /\ CallsStored /\ InflightStored /\ CommittedStored

\* The test of replicateSnapshotBlobs (node.go:879) finds a quorum.
LEMMA MajorityIsQuorum ==
  ASSUME NEW servers \in SUBSET Nodes, NEW acks \in SUBSET servers,
         Majority(acks, servers)
  PROVE  IsQuorum(acks, servers)
<1>1. IsFiniteSet(servers) /\ IsFiniteSet(acks)
  BY VotersAssumption, FS_Subset
<1>2. Cardinality(servers) \in Nat /\ Cardinality(acks) \in Nat
  BY <1>1, FS_CardinalityType
<1> QED BY <1>2 DEF Majority, IsQuorum

\* The record of stored blobs grows.
Grows == \A n \in Nodes : everStored[n] \subseteq everStored'[n]

\* Storing blobs records them, and a copy they make valid is recorded.
LEMMA PutGrows ==
  ASSUME TypeOK, NEW n \in Nodes, NEW bs \in SUBSET Blobs, Put(n, bs),
         CopiesStored
  PROVE  Grows /\ bs \subseteq everStored'[n] /\ CopiesStored'
BY DEF TypeOK, Put, Grows, CopiesStored

\* What was stored stays recorded.
LEMMA StaysStored ==
  ASSUME Grows, NEW servers \in SUBSET Nodes, NEW blobs,
         WasStored(blobs, servers, everStored)
  PROVE  WasStored(blobs, servers, everStored')
<1>1. PICK q \in SUBSET servers :
        IsQuorum(q, servers) /\ \A v \in q : blobs \subseteq everStored[v]
  BY DEF WasStored
<1>2. \A v \in q : blobs \subseteq everStored'[v]
  BY <1>1 DEF Grows
<1> QED BY <1>1, <1>2 DEF WasStored

\* A call's record of stored blobs stays true.
LEMMA CallStaysStored ==
  ASSUME Grows, NEW p \in Calls, CallStored(p, everStored)
  PROVE  CallStored(p, everStored')
BY DEF Grows, CallStored, Calls

\* The commands and the generations name nodes as voters.
LEMMA LogVoters ==
  ASSUME TypeOK
  PROVE  /\ \A i \in 1..Len(inflight) : inflight[i].voters \in SUBSET Nodes
         /\ \A i \in 1..Len(committed) : committed[i].voters \in SUBSET Nodes
<1>1. /\ \A i \in 1..Len(inflight) : inflight[i] \in Entries
      /\ \A i \in 1..Len(committed) : committed[i] \in Generations
  BY DEF TypeOK
<1>2. /\ \A e \in Entries : e.voters \in SUBSET Nodes
      /\ \A g \in Generations : g.voters \in SUBSET Nodes
  BY DEF Entries, Generations
<1> QED BY <1>1, <1>2

\* What is known of the log stays true when the log does not change.
LEMMA LogStaysStored ==
  ASSUME TypeOK, Grows, InflightStored, CommittedStored,
         UNCHANGED <<inflight, committed>>
  PROVE  InflightStored' /\ CommittedStored'
<1>1. InflightStored'
  BY LogVoters, StaysStored DEF InflightStored
<1>2. CommittedStored'
  BY LogVoters, StaysStored DEF CommittedStored
<1> QED BY <1>1, <1>2

\* One call changes, the others stay.
LEMMA OneCall ==
  ASSUME TypeOK, CallsStored, Grows, NEW n \in Nodes, NEW p,
         publish' = [publish EXCEPT ![n] = p], CallStored(p, everStored')
  PROVE  CallsStored'
<1>1. \A m \in Nodes : publish'[m] = IF m = n THEN p ELSE publish[m]
  BY DEF TypeOK
<1>2. \A m \in Nodes : CallStored(publish[m], everStored')
  BY CallStaysStored DEF CallsStored, TypeOK
<1> QED BY <1>1, <1>2 DEF CallsStored

\* No call counts nothing.
LEMMA IdleStored == \A ever : CallStored(Idle, ever)
BY DEF CallStored, Idle

\* The initial state satisfies the invariant.
LEMMA InitStored == Init => StoredInv
<1> SUFFICES ASSUME Init PROVE StoredInv
  OBVIOUS
<1>1. CopiesStored
  BY DEF Init, CopiesStored
<1>2. CallsStored
  BY IdleStored DEF Init, CallsStored
<1>3. InflightStored /\ CommittedStored
  BY DEF Init, InflightStored, CommittedStored
<1> QED BY <1>1, <1>2, <1>3, InitType DEF StoredInv

\* The oldest command leaves the log, and its call may return.
LEMMA DecidedStored ==
  ASSUME StoredInv, Decided, UNCHANGED everStored
  PROVE  /\ CallsStored' /\ InflightStored'
         /\ WasStored(Head(inflight).draft.blobs, Head(inflight).voters, everStored)
<1>1. inflight \in Seq(Entries) /\ inflight # <<>> /\ inflight' = Tail(inflight)
  BY DEF StoredInv, TypeOK, Decided
<1>2. Len(inflight) \in Nat \ {0} /\ Head(inflight) = inflight[1]
  BY <1>1
<1>3. WasStored(Head(inflight).draft.blobs, Head(inflight).voters, everStored)
  BY <1>2 DEF StoredInv, InflightStored
<1>4. Len(inflight') = Len(inflight) - 1
      /\ \A i \in 1..Len(inflight') : inflight'[i] = inflight[i + 1]
  BY <1>1, <1>2
<1>5. \A i \in 1..Len(inflight') : i + 1 \in 1..Len(inflight)
  BY <1>2, <1>4
<1>6. InflightStored'
  BY <1>4, <1>5 DEF StoredInv, InflightStored
<1>7. Head(inflight).by \in Nodes
  <2>1. Head(inflight) \in Entries
    BY <1>1
  <2> QED BY <2>1 DEF Entries
<1>8. \A n \in Nodes : publish'[n] \in {publish[n], Idle}
  BY <1>7 DEF Decided, Returned, StoredInv, TypeOK
<1>9. CallsStored'
  BY <1>8, IdleStored DEF StoredInv, CallsStored
<1> QED BY <1>3, <1>6, <1>9

\* Every step keeps the invariant: one step per action below.
LEMMA NextStored == StoredInv /\ [Next]_vars => StoredInv'
<1> SUFFICES ASSUME StoredInv, [Next]_vars PROVE StoredInv'
  OBVIOUS
<1>0. TypeOK /\ TypeOK' /\ CopiesStored /\ CallsStored /\ InflightStored
      /\ CommittedStored
  BY NextType DEF StoredInv
<1>1. ASSUME NEW n \in Nodes PROVE publish[n] \in Calls
  BY <1>0 DEF TypeOK
<1> DEFINE Kept == CopiesStored' /\ CallsStored' /\ InflightStored' /\ CommittedStored'
<1> SUFFICES Kept
  BY <1>0 DEF StoredInv
<1>2. UNCHANGED everStored => Grows
  BY DEF Grows
<1>3. ASSUME UNCHANGED <<everStored, publish, inflight, committed>>, CopiesStored'
      PROVE  Kept
  BY <1>0, <1>3 DEF CallsStored, InflightStored, CommittedStored
<1>4. ASSUME UNCHANGED <<store, everStored>> PROVE CopiesStored'
  BY <1>0, <1>4 DEF CopiesStored
<1>5. ASSUME NEW n \in Nodes, NEW p, publish' = [publish EXCEPT ![n] = p],
             Grows, CallStored(p, everStored'), CopiesStored',
             UNCHANGED <<inflight, committed>>
      PROVE  Kept
  BY <1>0, <1>5, OneCall, LogStaysStored
<1>6. CASE UNCHANGED vars
  BY <1>3, <1>4, <1>6 DEF vars
<1>7. ASSUME NEW n \in Nodes, NEW d \in Drafts, BeginPublish(n, d) PROVE Kept
  <2> DEFINE p == [Idle EXCEPT !.pc = "storing", !.draft = d, !.current = TRUE]
  <2>1. CallStored(p, everStored')
    BY DEF CallStored, Idle
  <2> QED BY <1>2, <1>4, <1>5, <1>7, <2>1 DEF BeginPublish
<1>8. ASSUME NEW n \in Nodes, NEW given \in SUBSET publish[n].draft.blobs,
             StoreLocal(n, given)
      PROVE  Kept
  <2> DEFINE p == [publish[n] EXCEPT !.pc = "replicating", !.cfg = cfgIndex,
                                     !.voters = voters, !.waiting = voters,
                                     !.acks = {}]
  <2>1. publish[n] \in Calls /\ given \in SUBSET Blobs
    BY <1>1, ManifestType DEF Calls
  <2>2. Grows /\ CopiesStored'
    BY <1>0, <1>8, <2>1, PutGrows DEF StoreLocal
  <2>3. publish' = [publish EXCEPT ![n] = p]
    BY <1>0, <1>8 DEF StoreLocal, TypeOK
  <2>4. CallStored(publish[n], everStored) /\ publish[n].pc = "storing"
    BY <1>0, <1>8 DEF CallsStored, StoreLocal
  <2>5. CallStored(p, everStored')
    BY <2>1, <2>4 DEF CallStored, Calls
  <2> QED BY <1>5, <1>8, <2>2, <2>3, <2>5 DEF StoreLocal
<1>9. ASSUME NEW n \in Nodes, AckSelf(n) PROVE Kept
  <2> DEFINE p == publish[n]
  <2>1. p \in Calls /\ CallStored(p, everStored)
    BY <1>0, <1>1 DEF CallsStored
  <2>2. p.draft.blobs \subseteq everStored[n]
    <3>1. p.draft.blobs \subseteq Blobs
      BY <2>1, ManifestType DEF Calls
    <3> QED BY <1>0, <1>9, <3>1 DEF AckSelf, HoldsAll, CopiesStored
  <2>3. p.pc = "replicating" /\ n \in p.waiting
    BY <1>9 DEF AckSelf
  <2>4. CallStored(Acked(p, n), everStored)
    BY <2>1, <2>2, <2>3 DEF CallStored, Acked, Calls
  <2> QED BY <1>2, <1>4, <1>5, <1>9, <2>4 DEF AckSelf
<1>10. ASSUME NEW n \in Nodes, NEW v \in Nodes, NEW b \in Blobs,
              SendBlob(n, v, b)
       PROVE  Kept
  <2> DEFINE p == publish[n]
             q == [p EXCEPT !.peer = v, !.sent = p.sent \cup {b}]
  <2>1. p \in Calls /\ CallStored(p, everStored)
    BY <1>0, <1>1 DEF CallsStored
  <2>2. Grows /\ CopiesStored' /\ b \in everStored'[v]
    BY <1>0, <1>10, PutGrows DEF SendBlob, Receive
  <2>3. CallStored(p, everStored')
    BY <2>1, <2>2, CallStaysStored
  <2>4. /\ p.pc = "replicating" /\ v \in p.waiting /\ p.peer \in {v, NoNode}
        /\ UNCHANGED <<inflight, committed>>
    BY <1>10 DEF SendBlob
  <2>5. p.sent \cup {b} \subseteq everStored'[v]
    BY <2>2, <2>3, <2>4 DEF CallStored
  <2>6. CASE /\ p.sent \cup {b} = p.draft.blobs
             /\ publish' = [publish EXCEPT ![n] = Acked(p, v)]
    <3>1. CallStored(Acked(p, v), everStored')
      BY <2>1, <2>3, <2>4, <2>5, <2>6 DEF CallStored, Acked, Calls
    <3> QED BY <1>5, <2>2, <2>4, <2>6, <3>1
  <2>7. CASE publish' = [publish EXCEPT ![n] = q]
    <3>1. v # NoNode
      BY VotersAssumption
    <3>2. CallStored(q, everStored')
      BY <2>1, <2>3, <2>4, <2>5, <3>1 DEF CallStored, Calls
    <3> QED BY <1>5, <2>2, <2>4, <2>7, <3>2
  <2> QED BY <1>10, <2>6, <2>7 DEF SendBlob
<1>11. ASSUME NEW n \in Nodes, NEW v \in Nodes, SendFails(n, v) PROVE Kept
  <2> DEFINE p == [publish[n] EXCEPT !.waiting = @ \ {v}, !.peer = NoNode,
                                     !.sent = {}]
  <2>1. publish[n] \in Calls /\ CallStored(publish[n], everStored)
    BY <1>0, <1>1 DEF CallsStored
  <2>2. publish[n].draft.blobs \subseteq Blobs
    BY <2>1, ManifestType DEF Calls
  <2>3. Grows /\ CopiesStored'
    <3>1. CASE UNCHANGED <<store, everStored>>
      BY <1>2, <1>4, <3>1
    <3>2. ASSUME NEW b \in publish[n].draft.blobs, Receive(v, b)
          PROVE  Grows /\ CopiesStored'
      BY <1>0, <2>2, <3>2, PutGrows DEF Receive
    <3> QED BY <1>11, <3>1, <3>2 DEF SendFails
  <2>4. publish' = [publish EXCEPT ![n] = p]
    BY <1>0, <1>11 DEF SendFails, TypeOK
  <2>5. CallStored(publish[n], everStored') /\ publish[n].pc = "replicating"
    BY <1>11, <2>1, <2>3, CallStaysStored DEF SendFails
  <2>6. CallStored(p, everStored')
    BY <2>1, <2>5 DEF CallStored, Calls
  <2> QED BY <1>5, <1>11, <2>3, <2>4, <2>6 DEF SendFails
<1>12. ASSUME NEW n \in Nodes, FinishReplication(n) PROVE Kept
  <2> DEFINE p == [publish[n] EXCEPT !.pc = "prepared", !.confirmed = voters]
  <2>1. publish[n] \in Calls /\ CallStored(publish[n], everStored)
    BY <1>0, <1>1 DEF CallsStored
  <2>2. publish[n].voters \in SUBSET Nodes
        /\ publish[n].acks \in SUBSET publish[n].voters
    BY <2>1 DEF CallStored, Calls
  <2>3. IsQuorum(publish[n].acks, publish[n].voters)
    BY <1>12, <2>2, MajorityIsQuorum DEF FinishReplication
  <2>4. CallStored(p, everStored)
    BY <2>1, <2>3 DEF CallStored, Calls
  <2>5. publish' = [publish EXCEPT ![n] = p]
    BY <1>0, <1>12 DEF FinishReplication, TypeOK
  <2> QED BY <1>2, <1>4, <1>5, <1>12, <2>4, <2>5 DEF FinishReplication
<1>13. ASSUME NEW n \in Nodes, SubmitManifest(n) PROVE Kept
  <2> DEFINE p == publish[n]
             q == [p EXCEPT !.pc = "submitted"]
             e == [by |-> n, draft |-> p.draft, current |-> p.current,
                   voters |-> p.voters, confirmed |-> p.confirmed]
  <2>1. p \in Calls /\ CallStored(p, everStored) /\ p.pc = "prepared"
    BY <1>0, <1>1, <1>13 DEF CallsStored, SubmitManifest
  <2>2. CallStored(q, everStored)
    BY <2>1 DEF CallStored, Calls
  <2>3. WasStored(e.draft.blobs, e.voters, everStored)
    BY <2>1 DEF CallStored, WasStored
  <2>4. /\ publish' = [publish EXCEPT ![n] = q] /\ inflight' = Append(inflight, e)
        /\ UNCHANGED <<store, everStored, committed>>
    BY <1>0, <1>13 DEF SubmitManifest, TypeOK
  <2>5. CallsStored' /\ CopiesStored'
    BY <1>0, <1>2, <1>4, <2>2, <2>4, OneCall
  <2>6. /\ Len(inflight) \in Nat /\ Len(inflight') = Len(inflight) + 1
        /\ \A i \in 1..Len(inflight) : inflight'[i] = inflight[i]
        /\ inflight'[Len(inflight) + 1] = e
    BY <1>0, <2>4 DEF TypeOK
  <2>7. InflightStored'
    <3> SUFFICES ASSUME NEW i \in 1..Len(inflight')
                 PROVE  WasStored(inflight'[i].draft.blobs, inflight'[i].voters,
                                  everStored)
      BY <2>4 DEF InflightStored
    <3>1. CASE i = Len(inflight) + 1
      BY <2>3, <2>6, <3>1
    <3>2. CASE i \in 1..Len(inflight)
      BY <1>0, <2>6, <3>2 DEF InflightStored
    <3> QED BY <2>6, <3>1, <3>2
  <2>8. CommittedStored'
    BY <1>0, <2>4 DEF CommittedStored
  <2> QED BY <2>5, <2>7, <2>8
<1>14. ASSUME CommitManifest PROVE Kept
  <2> DEFINE g == [draft |-> Head(inflight).draft, voters |-> Head(inflight).voters,
                   confirmed |-> Head(inflight).confirmed]
  <2>1. /\ Decided /\ UNCHANGED <<store, everStored>>
        /\ committed' = Append(committed, g)
    BY <1>14 DEF CommitManifest
  <2>2. /\ CallsStored' /\ InflightStored'
        /\ WasStored(g.draft.blobs, g.voters, everStored)
    BY <2>1, DecidedStored
  <2>3. /\ Len(committed) \in Nat /\ Len(committed') = Len(committed) + 1
        /\ \A i \in 1..Len(committed) : committed'[i] = committed[i]
        /\ committed'[Len(committed) + 1] = g
    BY <1>0, <2>1 DEF TypeOK
  <2>4. CommittedStored'
    <3> SUFFICES ASSUME NEW i \in 1..Len(committed')
                 PROVE  WasStored(committed'[i].draft.blobs, committed'[i].voters,
                                  everStored)
      BY <2>1 DEF CommittedStored
    <3>1. CASE i = Len(committed) + 1
      BY <2>2, <2>3, <3>1
    <3>2. CASE i \in 1..Len(committed)
      BY <1>0, <2>3, <3>2 DEF CommittedStored
    <3> QED BY <2>3, <3>1, <3>2
  <2> QED BY <1>4, <2>1, <2>2, <2>4
<1>15. ASSUME RefuseManifest PROVE Kept
  <2>1. Decided /\ UNCHANGED <<store, everStored, committed>>
    BY <1>15 DEF RefuseManifest
  <2>2. CommittedStored'
    BY <1>0, <2>1 DEF CommittedStored
  <2> QED BY <1>4, <2>1, <2>2, DecidedStored
<1>16. ASSUME NEW n \in Nodes, AbortPublish(n) PROVE Kept
  BY <1>2, <1>4, <1>5, <1>16, IdleStored DEF AbortPublish
<1>17. ASSUME NEW n \in Nodes, NEW v \in Nodes, NEW b \in Blobs, Pull(n, v, b)
       PROVE  Kept
  <2>1. Put(n, {b}) /\ UNCHANGED <<publish, inflight, committed>>
    BY <1>17 DEF Pull
  <2>2. Grows /\ CopiesStored'
    BY <1>0, <2>1, PutGrows
  <2>3. CallsStored'
    BY <1>0, <1>1, <2>1, <2>2, CallStaysStored DEF CallsStored
  <2> QED BY <1>0, <2>1, <2>2, <2>3, LogStaysStored
<1>18. ASSUME NEW n \in Nodes, ReadState(n) PROVE Kept
  BY <1>3, <1>4, <1>18 DEF ReadState
<1>19. ASSUME NEW n \in Nodes, ReadStaging(n) PROVE Kept
  BY <1>3, <1>4, <1>19 DEF ReadStaging
<1>20. ASSUME NEW n \in Nodes, NEW b \in Blobs, RemoveBlob(n, b) PROVE Kept
  <2>1. CopiesStored'
    BY <1>0, <1>20 DEF RemoveBlob, CopiesStored, TypeOK
  <2> QED BY <1>3, <1>20, <2>1 DEF RemoveBlob
<1>21. ASSUME NEW n \in Nodes, EndGC(n) PROVE Kept
  BY <1>3, <1>4, <1>21 DEF EndGC
<1>22. ASSUME NEW n \in Nodes, ApplyManifest(n) PROVE Kept
  BY <1>3, <1>4, <1>22 DEF ApplyManifest
<1>23. ASSUME NEW n \in Nodes, Elect(n) PROVE Kept
  BY <1>3, <1>4, <1>23 DEF Elect
<1>24. ASSUME Acquire PROVE Kept
  <2>1. UNCHANGED <<store, everStored, committed>>
    BY <1>24 DEF Acquire
  <2>2. ASSUME NEW n \in Nodes PROVE CallStored(publish'[n], everStored)
    <3>1. publish'[n] = [publish[n] EXCEPT !.current = FALSE]
      BY <1>24 DEF Acquire
    <3>2. publish[n] \in Calls /\ CallStored(publish[n], everStored)
      BY <1>0, <1>1 DEF CallsStored
    <3> QED BY <3>1, <3>2 DEF CallStored, Calls
  <2>3. CallsStored'
    BY <2>1, <2>2 DEF CallsStored
  <2>4. Len(inflight') = Len(inflight)
        /\ \A i \in 1..Len(inflight) :
             inflight'[i] = [inflight[i] EXCEPT !.current = FALSE]
    <3>1. inflight \in Seq(Entries) /\ DOMAIN inflight = 1..Len(inflight)
          /\ Len(inflight) \in Nat
      BY <1>0 DEF TypeOK
    <3>2. inflight' \in Seq(Entries) /\ DOMAIN inflight' = 1..Len(inflight')
          /\ Len(inflight') \in Nat
      BY <1>0 DEF TypeOK
    <3>3. inflight' = [i \in 1..Len(inflight) |->
                         [inflight[i] EXCEPT !.current = FALSE]]
      BY <1>24, <3>1 DEF Acquire
    <3>4. 1..Len(inflight') = 1..Len(inflight)
      BY <3>2, <3>3
    <3> QED BY <3>1, <3>2, <3>3, <3>4
  <2>5. \A i \in 1..Len(inflight) :
          /\ inflight'[i].draft = inflight[i].draft
          /\ inflight'[i].voters = inflight[i].voters
    <3>1. \A i \in 1..Len(inflight) : inflight[i] \in Entries
      BY <1>0 DEF TypeOK
    <3>2. \A e \in Entries :
            /\ [e EXCEPT !.current = FALSE].draft = e.draft
            /\ [e EXCEPT !.current = FALSE].voters = e.voters
      BY DEF Entries
    <3> QED BY <2>4, <3>1, <3>2
  <2>6. InflightStored' /\ CommittedStored'
    BY <1>0, <2>1, <2>4, <2>5 DEF InflightStored, CommittedStored
  <2> QED BY <1>4, <2>1, <2>3, <2>6
<1>25. ASSUME LoseLeadership PROVE Kept
  <2>1. /\ leader \in Nodes
        /\ UNCHANGED <<store, everStored, inflight, committed>>
    BY <1>0, <1>25 DEF LoseLeadership, TypeOK
  <2>2. \A n \in Nodes : publish'[n] \in {publish[n], Idle}
    BY <1>0, <1>25, <2>1 DEF LoseLeadership, Returned, TypeOK
  <2>3. CallsStored'
    BY <1>0, <2>1, <2>2, IdleStored DEF CallsStored
  <2> QED BY <1>0, <1>2, <1>4, <2>1, <2>3, LogStaysStored
<1>26. ASSUME NEW v \in Nodes, ChangeVoters(v) PROVE Kept
  BY <1>3, <1>4, <1>26 DEF ChangeVoters
<1>27. ASSUME NEW n \in Nodes, Crash(n) PROVE Kept
  BY <1>2, <1>4, <1>5, <1>27, IdleStored DEF Crash
<1>28. ASSUME NEW n \in Nodes, NEW b \in Blobs, Corrupt(n, b) PROVE Kept
  <2>1. CopiesStored'
    BY <1>0, <1>28 DEF Corrupt, CopiesStored, TypeOK
  <2> QED BY <1>3, <1>28, <2>1 DEF Corrupt
<1> HIDE DEF Kept
<1> QED
  BY <1>6, <1>7, <1>8, <1>9, <1>10, <1>11, <1>12, <1>13, <1>14, <1>15, <1>16,
     <1>17, <1>18, <1>19, <1>20, <1>21, <1>22, <1>23, <1>24, <1>25, <1>26, <1>27,
     <1>28
  DEF Next

-----------------------------------------------------------------------------
(* The second look at the configuration.                                   *)

\* A call has read its configuration at its index, from which no later
\* configuration comes back.
ConfigRead(p) ==
  /\ p.cfg <= cfgIndex
  /\ p.pc = "replicating" /\ p.cfg = cfgIndex => p.voters = voters

\* What was prepared names the configuration that was found again.
Confirmed ==
  /\ \A n \in Nodes :
       ConfigRead(publish[n]) /\ (publish[n].pc = "prepared" =>
                                    publish[n].confirmed = publish[n].voters)
  /\ \A i \in 1..Len(inflight) : inflight[i].confirmed = inflight[i].voters
  /\ \A i \in 1..Len(committed) : committed[i].confirmed = committed[i].voters

\* Every step keeps it.
LEMMA NextConfirmed == TypeOK /\ TypeOK' /\ Confirmed /\ [Next]_vars => Confirmed'
<1> SUFFICES ASSUME TypeOK, TypeOK', Confirmed, [Next]_vars PROVE Confirmed'
  OBVIOUS
<1> DEFINE Good(p) == ConfigRead(p) /\ (p.pc = "prepared" => p.confirmed = p.voters)
<1> USE DEF raftVars
<1>1. /\ cfgIndex \in Nat
      /\ \A n \in Nodes : publish[n] \in Calls /\ Good(publish[n])
      /\ \A p \in Calls : p.cfg \in Nat
  <2>1. MaxChanges \in Nat
    BY LimitsAssumption
  <2>2. cfgIndex \in Nat
    BY <2>1 DEF TypeOK
  <2>3. \A p \in Calls : p.cfg \in Nat
    BY <2>1 DEF Calls
  <2>4. \A n \in Nodes : publish[n] \in Calls
    BY DEF TypeOK
  <2>5. \A n \in Nodes : Good(publish[n])
    BY DEF Confirmed
  <2> QED BY <2>2, <2>3, <2>4, <2>5
<1>2. Good(Idle) /\ (UNCHANGED raftVars => Good(Idle)')
  BY <1>1 DEF Idle, ConfigRead
<1>3. ASSUME NEW n \in Nodes, NEW p, publish' = [publish EXCEPT ![n] = p],
             Good(p), UNCHANGED <<voters, cfgIndex, inflight, committed>>
      PROVE  Confirmed'
  BY <1>1, <1>3 DEF Confirmed, ConfigRead, TypeOK
<1>4. ASSUME UNCHANGED <<voters, cfgIndex, publish, inflight, committed>>
      PROVE  Confirmed'
  BY <1>4 DEF Confirmed, ConfigRead
<1>5. CASE UNCHANGED vars
  BY <1>4, <1>5 DEF vars
<1>6. ASSUME NEW n \in Nodes, NEW d \in Drafts, BeginPublish(n, d)
      PROVE  Confirmed'
  <2>1. Good([Idle EXCEPT !.pc = "storing", !.draft = d, !.current = TRUE])
    BY <1>1 DEF Idle, ConfigRead
  <2> QED BY <1>3, <1>6, <2>1 DEF BeginPublish
<1>7. ASSUME NEW n \in Nodes, NEW given \in SUBSET publish[n].draft.blobs,
             StoreLocal(n, given)
      PROVE  Confirmed'
  <2> DEFINE p == [publish[n] EXCEPT !.pc = "replicating", !.cfg = cfgIndex,
                                     !.voters = voters, !.waiting = voters,
                                     !.acks = {}]
  <2>1. Good(p)
    BY <1>1 DEF ConfigRead, Calls
  <2>2. publish' = [publish EXCEPT ![n] = p]
    BY <1>7 DEF StoreLocal, TypeOK
  <2> QED BY <1>3, <1>7, <2>1, <2>2 DEF StoreLocal
<1>8. ASSUME NEW n \in Nodes, NEW v \in Nodes
      PROVE  Good(publish[n]) => Good(Acked(publish[n], v))
  BY <1>1 DEF Acked, ConfigRead, Calls
<1>9. ASSUME NEW n \in Nodes, AckSelf(n) PROVE Confirmed'
  BY <1>1, <1>3, <1>8, <1>9 DEF AckSelf
<1>10. ASSUME NEW n \in Nodes, NEW v \in Nodes, NEW b \in Blobs,
              SendBlob(n, v, b)
       PROVE  Confirmed'
  <2> DEFINE p == publish[n]
             q == [p EXCEPT !.peer = v, !.sent = p.sent \cup {b}]
  <2>1. Good(q) /\ Good(Acked(p, v))
    BY <1>1, <1>8 DEF ConfigRead, Calls
  <2>2. publish' = [publish EXCEPT ![n] = Acked(p, v)]
        \/ publish' = [publish EXCEPT ![n] = q]
    BY <1>10 DEF SendBlob
  <2>3. UNCHANGED <<voters, cfgIndex, inflight, committed>>
    BY <1>10 DEF SendBlob
  <2> HIDE DEF q, Good
  <2> QED BY <1>3, <2>1, <2>2, <2>3
<1>11. ASSUME NEW n \in Nodes, NEW v \in Nodes, SendFails(n, v) PROVE Confirmed'
  <2> DEFINE p == [publish[n] EXCEPT !.waiting = @ \ {v}, !.peer = NoNode,
                                     !.sent = {}]
  <2>1. Good(p)
    BY <1>1 DEF ConfigRead, Calls
  <2>2. publish' = [publish EXCEPT ![n] = p]
    BY <1>11 DEF SendFails, TypeOK
  <2> QED BY <1>3, <1>11, <2>1, <2>2 DEF SendFails
<1>12. ASSUME NEW n \in Nodes, FinishReplication(n) PROVE Confirmed'
  <2> DEFINE p == [publish[n] EXCEPT !.pc = "prepared", !.confirmed = voters]
  <2>1. publish[n].voters = voters
    BY <1>1, <1>12 DEF FinishReplication, ConfigRead
  <2>2. Good(p)
    BY <1>1, <2>1 DEF ConfigRead, Calls
  <2>3. publish' = [publish EXCEPT ![n] = p]
    BY <1>12 DEF FinishReplication, TypeOK
  <2> QED BY <1>3, <1>12, <2>2, <2>3 DEF FinishReplication
<1>13. ASSUME NEW n \in Nodes, SubmitManifest(n) PROVE Confirmed'
  <2> DEFINE p == publish[n]
             q == [p EXCEPT !.pc = "submitted"]
             e == [by |-> n, draft |-> p.draft, current |-> p.current,
                   voters |-> p.voters, confirmed |-> p.confirmed]
  <2>1. Good(q) /\ e.confirmed = e.voters
    BY <1>1, <1>13 DEF SubmitManifest, ConfigRead, Calls
  <2>2. /\ publish' = [publish EXCEPT ![n] = q] /\ inflight' = Append(inflight, e)
        /\ UNCHANGED <<voters, cfgIndex, committed>>
    BY <1>13 DEF SubmitManifest, TypeOK
  <2>3. \A m \in Nodes : Good(publish'[m])
    BY <1>1, <2>1, <2>2 DEF TypeOK
  <2>4. /\ Len(inflight) \in Nat /\ Len(inflight') = Len(inflight) + 1
        /\ \A i \in 1..Len(inflight) : inflight'[i] = inflight[i]
        /\ inflight'[Len(inflight) + 1] = e
    BY <2>2 DEF TypeOK
  <2>5. \A i \in 1..Len(inflight') : inflight'[i].confirmed = inflight'[i].voters
    BY <2>1, <2>4 DEF Confirmed
  <2> QED BY <2>2, <2>3, <2>5 DEF Confirmed, ConfigRead
<1>14. ASSUME Decided, UNCHANGED raftVars
       PROVE  /\ \A n \in Nodes : Good(publish[n])'
              /\ \A i \in 1..Len(inflight') : inflight'[i].confirmed = inflight'[i].voters
              /\ Head(inflight).confirmed = Head(inflight).voters
  <2>1. inflight \in Seq(Entries) /\ inflight # <<>> /\ Head(inflight).by \in Nodes
    BY <1>14, DecidedType DEF Decided, TypeOK, Entries
  <2>2. \A n \in Nodes : publish'[n] \in {publish[n], Idle}
    BY <1>14, <2>1 DEF Decided, Returned, TypeOK
  <2>3. \A n \in Nodes : Good(publish[n])'
    BY <1>1, <1>2, <1>14, <2>2 DEF ConfigRead
  <2>4. /\ Len(inflight) \in Nat \ {0} /\ Head(inflight) = inflight[1]
        /\ Len(inflight') = Len(inflight) - 1
        /\ \A i \in 1..Len(inflight') : inflight'[i] = inflight[i + 1]
    BY <1>14, <2>1 DEF Decided
  <2> QED BY <2>3, <2>4 DEF Confirmed
<1>15. ASSUME CommitManifest PROVE Confirmed'
  <2> DEFINE g == [draft |-> Head(inflight).draft, voters |-> Head(inflight).voters,
                   confirmed |-> Head(inflight).confirmed]
  <2>1. Decided /\ UNCHANGED raftVars /\ committed' = Append(committed, g)
    BY <1>15 DEF CommitManifest
  <2>2. /\ Len(committed) \in Nat /\ Len(committed') = Len(committed) + 1
        /\ \A i \in 1..Len(committed) : committed'[i] = committed[i]
        /\ committed'[Len(committed) + 1] = g
    BY <2>1 DEF TypeOK
  <2>3. \A i \in 1..Len(committed') : committed'[i].confirmed = committed'[i].voters
    BY <1>14, <2>1, <2>2 DEF Confirmed
  <2> QED BY <1>14, <2>1, <2>3 DEF Confirmed
<1>16. ASSUME RefuseManifest PROVE Confirmed'
  <2>1. Decided /\ UNCHANGED raftVars /\ UNCHANGED committed
    BY <1>16 DEF RefuseManifest
  <2> QED BY <1>14, <2>1 DEF Confirmed
<1>17. ASSUME NEW n \in Nodes, AbortPublish(n) \/ Crash(n) PROVE Confirmed'
  BY <1>2, <1>3, <1>17 DEF AbortPublish, Crash
<1>18. ASSUME Acquire PROVE Confirmed'
  <2>1. \A n \in Nodes : Good(publish'[n])
    <3> SUFFICES ASSUME NEW n \in Nodes PROVE Good(publish'[n])
      OBVIOUS
    <3>1. publish'[n] = [publish[n] EXCEPT !.current = FALSE]
      BY <1>18 DEF Acquire
    <3> QED BY <1>1, <3>1 DEF ConfigRead, Calls
  <2>2. inflight \in Seq(Entries) /\ inflight' \in Seq(Entries)
        /\ DOMAIN inflight = 1..Len(inflight) /\ DOMAIN inflight' = 1..Len(inflight')
        /\ Len(inflight) \in Nat /\ Len(inflight') \in Nat
    BY DEF TypeOK
  <2>3. inflight' = [i \in 1..Len(inflight) |-> [inflight[i] EXCEPT !.current = FALSE]]
    BY <1>18, <2>2 DEF Acquire
  <2>4. 1..Len(inflight') = 1..Len(inflight)
    BY <2>2, <2>3
  <2>5. \A e \in Entries : /\ [e EXCEPT !.current = FALSE].confirmed = e.confirmed
                           /\ [e EXCEPT !.current = FALSE].voters = e.voters
    BY DEF Entries
  <2>6. \A i \in 1..Len(inflight) : inflight[i] \in Entries
    BY <2>2
  <2>7. \A i \in 1..Len(inflight') : inflight'[i].confirmed = inflight'[i].voters
    BY <2>3, <2>4, <2>5, <2>6 DEF Confirmed
  <2>8. UNCHANGED <<voters, cfgIndex, committed>>
    BY <1>18 DEF Acquire
  <2> QED BY <2>1, <2>7, <2>8 DEF Confirmed, ConfigRead
<1>19. ASSUME LoseLeadership PROVE Confirmed'
  <2>1. /\ leader \in Nodes
        /\ UNCHANGED <<voters, cfgIndex, inflight, committed>>
    BY <1>19 DEF LoseLeadership, TypeOK
  <2>2. \A n \in Nodes : publish'[n] \in {publish[n], Idle}
    BY <1>19, <2>1 DEF LoseLeadership, Returned, TypeOK
  <2> QED BY <1>1, <1>2, <2>1, <2>2 DEF Confirmed, ConfigRead
<1>20. ASSUME NEW v \in Nodes, ChangeVoters(v) PROVE Confirmed'
  <2>1. cfgIndex' = cfgIndex + 1 /\ UNCHANGED <<publish, inflight, committed>>
    BY <1>20 DEF ChangeVoters
  <2>2. \A n \in Nodes : Good(publish[n])'
    BY <1>1, <2>1 DEF ConfigRead
  <2> QED BY <2>1, <2>2 DEF Confirmed
<1>21. ASSUME NEW n \in Nodes,
              \/ \E v \in Nodes, b \in Blobs : Pull(n, v, b)
              \/ ReadState(n) \/ ReadStaging(n) \/ EndGC(n) \/ ApplyManifest(n)
              \/ Elect(n)
              \/ \E b \in Blobs : RemoveBlob(n, b) \/ Corrupt(n, b)
       PROVE  Confirmed'
  BY <1>4, <1>21 DEF Pull, ReadState, ReadStaging, EndGC, ApplyManifest, Elect,
     RemoveBlob, Corrupt
<1> HIDE DEF Good
<1> QED
  BY <1>5, <1>6, <1>7, <1>9, <1>10, <1>11, <1>12, <1>13, <1>15, <1>16, <1>17,
     <1>18, <1>19, <1>20, <1>21
  DEF Next

\* Nothing is prepared at first.
LEMMA InitConfirmed == Init => Confirmed
BY DEF Init, Confirmed, ConfigRead, Idle

-----------------------------------------------------------------------------
\* Every committed generation was stored completely by more than half of the
\* voters its manifest names, which were still the configuration when the last
\* had been asked (node.go:725-751, 862-883), for any number of nodes, calls,
\* failed sends, crashes and changes of the voters.
THEOREM GenerationsAreAlwaysStored == Spec => []GenerationWasStored
<1>1. StoredInv /\ Confirmed => GenerationWasStored
  BY DEF StoredInv, CommittedStored, Confirmed, WasStored, GenerationWasStored
<1>2. StoredInv /\ Confirmed /\ [Next]_vars => StoredInv' /\ Confirmed'
  BY NextStored, NextConfirmed DEF StoredInv
<1> QED BY <1>1, <1>2, InitStored, InitConfirmed, PTL DEF Spec

\* Whichever majority of those voters elects a later leader, one of its
\* nodes, at least, once stored the whole generation.
ElectorsOnceStored ==
  \A i \in 1..Len(committed) :
    \A electors \in SUBSET committed[i].voters :
      IsQuorum(electors, committed[i].voters) =>
        \E v \in electors : committed[i].draft.blobs \subseteq everStored[v]

\* A generation that was committed under one leader has been seen whole by
\* some node of every majority that can replace it (node.go:862-883), for any
\* configuration: this is what acknowledgements by a quorum are for.
THEOREM ElectorsAlwaysOnceStored == Spec => []ElectorsOnceStored
<1>1. StoredInv => ElectorsOnceStored
  <2> SUFFICES ASSUME StoredInv, NEW i \in 1..Len(committed),
                      NEW electors \in SUBSET committed[i].voters,
                      IsQuorum(electors, committed[i].voters)
               PROVE  \E v \in electors :
                        committed[i].draft.blobs \subseteq everStored[v]
    BY DEF ElectorsOnceStored
  <2> DEFINE named == committed[i].voters
  <2>1. PICK servers \in SUBSET named :
          /\ IsQuorum(servers, named)
          /\ \A v \in servers : committed[i].draft.blobs \subseteq everStored[v]
    BY DEF StoredInv, CommittedStored, WasStored
  <2>2. named \in SUBSET Nodes
    <3>1. committed \in Seq(Generations)
      BY DEF StoredInv, TypeOK
    <3>2. committed[i] \in Generations
      BY <3>1
    <3> QED BY <3>2 DEF Generations
  <2> HIDE DEF named
  <2>3. IsFiniteSet(named)
    BY <2>2, VotersAssumption, FS_Subset
  <2>4. IsFiniteSet(servers) /\ IsFiniteSet(electors)
    BY <2>1, <2>3, FS_Subset DEF named
  <2>5. /\ Cardinality(named) \in Nat /\ Cardinality(servers) \in Nat
        /\ Cardinality(electors) \in Nat
    BY <2>3, <2>4, FS_CardinalityType
  <2>6. Cardinality(servers) + Cardinality(electors) > Cardinality(named)
    BY <2>1, <2>5 DEF IsQuorum, named
  <2>7. servers \cap electors # {}
    BY <2>1, <2>3, <2>6, FS_MajoritiesIntersect DEF named
  <2> QED BY <2>1, <2>7
<1> QED BY <1>1, InitStored, NextStored, PTL DEF Spec
=============================================================================
