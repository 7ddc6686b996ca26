-------------------------- MODULE SnapshotPublish --------------------------
(***************************************************************************)
(* Publishing a snapshot generation (PublishSnapshot of node.go): the      *)
(* leader stores the blobs, sends them to the voters, waits for a quorum   *)
(* of acknowledgements and commits the manifest, while every node's        *)
(* maintenance loop pulls the blobs of the active generation and removes   *)
(* the blobs it does not know to be in use.                                *)
(*                                                                         *)
(* The metadata state machine is reduced to the sequence of generations it *)
(* committed (MetadataFSM has the rest): a manifest is fenced by its epoch, *)
(* so it can only be committed before the next acquisition of leadership.  *)
(* Raft is external.  A blob is named by its hash, and a stored copy is    *)
(* valid or corrupt; PutHash, Open and Verify check the hash.              *)
(***************************************************************************)
EXTENDS Naturals, Sequences, FiniteSets

CONSTANTS
  Nodes, NoNode,
  Blobs,
  Drafts,           \* the manifests callers publish: [blobs, previous]
  InitialVoters,
  Retention,        \* cfg.GenerationRetention
  MaxCalls,         \* bound: PublishSnapshot calls in progress at once
  MaxGenerations,   \* bound: commit_snapshot commands
  MaxChanges,       \* bound: changes of the voter configuration
  MaxCorruptions    \* bound: copies the disk corrupts

ASSUME VotersAssumption ==
  /\ IsFiniteSet(Nodes) /\ NoNode \notin Nodes
  /\ InitialVoters \subseteq Nodes /\ InitialVoters # {}
ASSUME DraftsAssumption ==
  \A d \in Drafts :
    d \in [blobs : SUBSET Blobs, previous : SUBSET Blobs] /\ d.blobs # {}
ASSUME LimitsAssumption ==
  {Retention, MaxCalls, MaxGenerations, MaxChanges, MaxCorruptions} \subseteq Nat

VARIABLES
  leader,       \* the Raft leader, or NoNode
  voters,       \* the voters of the Raft configuration
  cfgIndex,     \* and its index
  store,        \* store[n][b]: "absent", "valid" or "corrupt"
  everStored,   \* everStored[n]: blobs n has durably stored at some time
  publish,      \* publish[n]: the PublishSnapshot call that holds n's
                \*   configurationMu
  inflight,     \* commit_snapshot commands in the log, not yet applied
  committed,    \* generations in commit order
  applied,      \* applied[n]: how many of them n's state machine has applied
  loop,         \* loop[n]: where n's snapshotMaintenance is
  corruptions   \* counter for MaxCorruptions

vars == <<leader, voters, cfgIndex, store, everStored, publish,
          inflight, committed, applied, loop, corruptions>>
raftVars == <<leader, voters, cfgIndex>>

NoDraft == [blobs |-> {}, previous |-> {}]
Idle == [pc |-> "idle", draft |-> NoDraft, current |-> FALSE, cfg |-> 0,
         voters |-> {}, waiting |-> {}, peer |-> NoNode, sent |-> {},
         acks |-> {}, confirmed |-> {}]

Syncing == [pc |-> "sync", retained |-> {}]

-----------------------------------------------------------------------------
(* Blob stores and manifests.                                              *)

\* verifyManifestBlobs
HoldsAll(n, blobs) == \A b \in blobs : store[n][b] = "valid"

\* Mutant of Put: a file that exists is taken to be valid.
PutIfAbsent(n, bs) ==
  /\ store' = [store EXCEPT ![n] = [b \in Blobs |->
                 IF b \in bs /\ store[n][b] = "absent"
                 THEN "valid" ELSE store[n][b]]]
  /\ everStored' = [everStored EXCEPT ![n] = @ \cup bs]

\* PutHash of every blob of bs on n; a corrupt copy is quarantined first.
Put(n, bs) ==
  /\ store' = [store EXCEPT ![n] = [b \in Blobs |->
                 IF b \in bs THEN "valid" ELSE store[n][b]]]
  /\ everStored' = [everStored EXCEPT ![n] = @ \cup bs]

Known(n) == {committed[i].draft : i \in 1..applied[n]}

\* ActiveSnapshot: {} or the one draft.
Active(n) == {committed[i].draft : i \in {applied[n]} \ {0}}

References(d) == d.blobs \cup d.previous

\* isCommittedBlob
CommittedBlobs(n) == UNION {References(d) : d \in Known(n)}

-----------------------------------------------------------------------------
(* PublishSnapshot.                                                        *)

\* Mutant of Majority: one acknowledgement too few.
Half(acks, servers) == Cardinality(acks) >= Cardinality(servers) \div 2

Majority(acks, servers) == Cardinality(acks) >= Cardinality(servers) \div 2 + 1

\* The manifest names the epoch that is current now.  The call passed
\* VerifyBusinessLeadership before it waited for configurationMu, perhaps long
\* ago: n need not lead any more, and any node may have led once.
BeginPublish(n, d) ==
  /\ publish[n].pc = "idle"
  /\ Cardinality({m \in Nodes : publish[m].pc # "idle"}) < MaxCalls
  /\ publish' = [publish EXCEPT ![n] =
       [Idle EXCEPT !.pc = "storing", !.draft = d, !.current = TRUE]]
  /\ UNCHANGED <<raftVars, store, everStored, inflight, committed, applied,
                 loop, corruptions>>

\* The caller hands over some of the blobs; the voters are read after.
StoreLocal(n, given) ==
  /\ publish[n].pc = "storing"
  /\ given \subseteq publish[n].draft.blobs
  /\ Put(n, given)
  /\ publish' = [publish EXCEPT ![n].pc = "replicating", ![n].cfg = cfgIndex,
                                ![n].voters = voters, ![n].waiting = voters,
                                ![n].acks = {}]
  /\ UNCHANGED <<raftVars, inflight, committed, applied, loop, corruptions>>

\* Mutant of Acked: the voter is visited again.
AckedAgain(p, v) == [p EXCEPT !.acks = @ \cup {v}, !.peer = NoNode, !.sent = {}]

Acked(p, v) == [p EXCEPT !.acks = @ \cup {v}, !.waiting = @ \ {v},
                         !.peer = NoNode, !.sent = {}]

AckSelf(n) ==
  /\ publish[n].pc = "replicating"
  /\ n \in publish[n].waiting
  /\ publish[n].peer = NoNode
  /\ HoldsAll(n, publish[n].draft.blobs)
  /\ publish' = [publish EXCEPT ![n] = Acked(@, n)]
  /\ UNCHANGED <<raftVars, store, everStored, inflight, committed, applied,
                 loop, corruptions>>

\* The peer's PUT handler.
Receive(v, b) == Put(v, {b})

\* putBlobToPeer.  The peer has acknowledged the
\* manifest once it has stored the last of its blobs.
SendBlob(n, v, b) ==
  LET p    == publish[n]
      sent == p.sent \cup {b}
  IN  /\ p.pc = "replicating"
      /\ v \in p.waiting \ {n}
      /\ p.peer \in {v, NoNode}
      /\ b \in p.draft.blobs \ p.sent
      /\ store[n][b] = "valid"
      /\ Receive(v, b)
      /\ publish' = [publish EXCEPT ![n] =
           IF sent = p.draft.blobs THEN Acked(p, v)
           ELSE [p EXCEPT !.peer = v, !.sent = sent]]
      /\ UNCHANGED <<raftVars, inflight, committed, applied, loop, corruptions>>

\* The peer is down or refuses (429, 4xx), or it stored the blob and its
\* answer was lost.
SendFails(n, v) ==
  /\ publish[n].pc = "replicating"
  /\ v \in publish[n].waiting \ {n}
  /\ publish[n].peer \in {v, NoNode}
  /\ publish' = [publish EXCEPT ![n].waiting = @ \ {v}, ![n].peer = NoNode,
                                ![n].sent = {}]
  /\ \/ UNCHANGED <<store, everStored>>
     \/ \E b \in publish[n].draft.blobs \ publish[n].sent :
          store[n][b] = "valid" /\ Receive(v, b)
  /\ UNCHANGED <<raftVars, inflight, committed, applied, loop, corruptions>>

\* The end of replicateSnapshotBlobs and the second look at the configuration:
\* `confirmed` is a ghost, the voters it finds.
FinishReplication(n) ==
  /\ publish[n].pc = "replicating"
  /\ publish[n].waiting = {}
  /\ Majority(publish[n].acks, publish[n].voters)
  /\ publish[n].cfg = cfgIndex
  /\ publish' = [publish EXCEPT ![n].pc = "prepared",
                                ![n].confirmed = voters]
  /\ UNCHANGED <<raftVars, store, everStored, inflight, committed, applied,
                 loop, corruptions>>

\* n.apply: only the Raft leader can append.
SubmitManifest(n) ==
  LET p == publish[n]
  IN  /\ p.pc = "prepared"
      /\ leader = n
      /\ Len(committed) + Len(inflight) < MaxGenerations
      /\ inflight' = Append(inflight, [by |-> n, draft |-> p.draft,
                                       current |-> p.current,
                                       voters |-> p.voters,
                                       confirmed |-> p.confirmed])
      /\ publish' = [publish EXCEPT ![n].pc = "submitted"]
      /\ UNCHANGED <<raftVars, store, everStored, committed, applied, loop,
                     corruptions>>

\* The call of n, if it waits for a command, returns.
Returned(n) ==
  publish' = [publish EXCEPT ![n] = IF @.pc = "submitted" THEN Idle ELSE @]

\* The oldest command is decided.  Its call may have gone before, and its
\* node's next call may wait for a later command.
Decided ==
  /\ inflight # <<>>
  /\ inflight' = Tail(inflight)
  /\ LET by == Head(inflight).by
     IN  IF \E i \in 2..Len(inflight) : inflight[i].by = by
         THEN UNCHANGED publish ELSE Returned(by)

\* The command is applied and accepted: its epoch is still current.
CommitManifest ==
  /\ Decided
  /\ Head(inflight).current
  /\ committed' = Append(committed, [draft |-> Head(inflight).draft,
                                     voters |-> Head(inflight).voters,
                                     confirmed |-> Head(inflight).confirmed])
  /\ UNCHANGED <<raftVars, store, everStored, applied, loop, corruptions>>

\* The command is refused (epoch, revision) or lost in an election.
RefuseManifest ==
  /\ Decided
  /\ UNCHANGED <<raftVars, store, everStored, committed, applied, loop,
                 corruptions>>

\* Any error return of the call, but while Raft decides on its command.
\* The staged blobs are released.
AbortPublish(n) ==
  /\ publish[n].pc \notin {"idle", "submitted"}
  /\ publish' = [publish EXCEPT ![n] = Idle]
  /\ UNCHANGED <<raftVars, store, everStored, inflight, committed, applied,
                 loop, corruptions>>

-----------------------------------------------------------------------------
(* The maintenance loop.                                                   *)

\* The peer's GET handler.
Offers(v, b) == b \in CommittedBlobs(v) /\ store[v][b] = "valid"

\* syncActiveSnapshot: n pulls one blob it misses from a voter that has it
\* and knows it to be committed.
Pull(n, v, b) ==
  /\ loop[n].pc = "sync"
  /\ b \in UNION {d.blobs : d \in Active(n)}
  /\ store[n][b] # "valid"
  /\ v \in voters \ {n}
  /\ Offers(v, b)
  /\ Put(n, {b})
  /\ UNCHANGED <<raftVars, publish, inflight, committed, applied, loop,
                 corruptions>>

\* The generations gcSnapshotBlobs keeps: the newest Retention by the
\* callers' CreatedAt, those younger than GenerationPinTTL, and the active
\* one.  The times being the callers', that is any large enough set.
KeepChoices(n) ==
  {keep \in SUBSET (1..applied[n]) :
     /\ Cardinality(keep) >= Retention \/ keep = 1..applied[n]
     /\ applied[n] # 0 => applied[n] \in keep}

ReadState(n) ==
  /\ loop[n].pc = "sync"
  /\ \E keep \in KeepChoices(n) :
       loop' = [loop EXCEPT ![n] =
         [pc |-> "state",
          retained |-> UNION {References(committed[i].draft) : i \in keep}]]
  /\ UNCHANGED <<raftVars, store, everStored, publish, inflight, committed,
                 applied, corruptions>>

\* The blobs of the call in progress on this node are retained too.
ReadStaging(n) ==
  /\ loop[n].pc = "state"
  /\ loop' = [loop EXCEPT ![n] =
       [pc |-> "remove", retained |-> @.retained \cup publish[n].draft.blobs]]
  /\ UNCHANGED <<raftVars, store, everStored, publish, inflight, committed,
                 applied, corruptions>>

\* BlobStore.GC: one file of the walk.
RemoveBlob(n, b) ==
  /\ loop[n].pc = "remove"
  /\ b \notin loop[n].retained
  /\ store[n][b] # "absent"
  /\ store' = [store EXCEPT ![n][b] = "absent"]
  /\ UNCHANGED <<raftVars, everStored, publish, inflight, committed, applied,
                 loop, corruptions>>

\* The walk ends, or stops at an error.
EndGC(n) ==
  /\ loop[n].pc = "remove"
  /\ loop' = [loop EXCEPT ![n] = Syncing]
  /\ UNCHANGED <<raftVars, store, everStored, publish, inflight, committed,
                 applied, corruptions>>

-----------------------------------------------------------------------------
(* Raft and the environment (external).                                    *)

ApplyManifest(n) ==
  /\ applied[n] < Len(committed)
  /\ applied' = [applied EXCEPT ![n] = @ + 1]
  /\ UNCHANGED <<raftVars, store, everStored, publish, inflight, committed,
                 loop, corruptions>>

Elect(n) ==
  /\ leader = NoNode
  /\ n \in voters
  /\ leader' = n
  /\ UNCHANGED <<voters, cfgIndex, store, everStored, publish,
                 inflight, committed, applied, loop, corruptions>>

\* acquire_leadership is applied: what carries an older epoch is fenced.
Acquire ==
  /\ leader # NoNode
  /\ publish' = [n \in Nodes |-> [publish[n] EXCEPT !.current = FALSE]]
  /\ inflight' = [i \in DOMAIN inflight |-> [inflight[i] EXCEPT !.current = FALSE]]
  /\ UNCHANGED <<leader, voters, cfgIndex, store, everStored, committed,
                 applied, loop, corruptions>>

\* A call that waits for its command gets ErrLeadershipLost; the command may
\* still be committed.
LoseLeadership ==
  /\ leader # NoNode
  /\ leader' = NoNode
  /\ Returned(leader)
  /\ UNCHANGED <<voters, cfgIndex, store, everStored, inflight,
                 committed, applied, loop, corruptions>>

\* runConfigurationChange holds configurationMu; it checks no epoch.  A removal
\* that a new leader resumes (reconcileRemoveOperation) may be the removal of
\* that leader, who then steps down.
ChangeVoters(v) ==
  /\ leader # NoNode
  /\ publish[leader].pc = "idle"
  /\ cfgIndex < MaxChanges
  /\ voters # {v}
  /\ voters' = IF v \in voters THEN voters \ {v} ELSE voters \cup {v}
  /\ cfgIndex' = cfgIndex + 1
  /\ leader' = IF v = leader THEN NoNode ELSE leader
  /\ UNCHANGED <<store, everStored, publish, inflight, committed, applied, loop,
                 corruptions>>

\* n stops and starts again: only its blobs and its Raft data survive.
Crash(n) ==
  /\ publish' = [publish EXCEPT ![n] = Idle]
  /\ loop' = [loop EXCEPT ![n] = Syncing]
  /\ leader' = IF leader = n THEN NoNode ELSE leader
  /\ UNCHANGED <<voters, cfgIndex, store, everStored, inflight,
                 committed, applied, corruptions>>

Corrupt(n, b) ==
  /\ corruptions < MaxCorruptions
  /\ store[n][b] = "valid"
  /\ store' = [store EXCEPT ![n][b] = "corrupt"]
  /\ corruptions' = corruptions + 1
  /\ UNCHANGED <<raftVars, everStored, publish, inflight, committed, applied,
                 loop>>

Init ==
  /\ leader = NoNode
  /\ voters = InitialVoters
  /\ cfgIndex = 0
  /\ store = [n \in Nodes |-> [b \in Blobs |-> "absent"]]
  /\ everStored = [n \in Nodes |-> {}]
  /\ publish = [n \in Nodes |-> Idle]
  /\ inflight = <<>>
  /\ committed = <<>>
  /\ applied = [n \in Nodes |-> 0]
  /\ loop = [n \in Nodes |-> Syncing]
  /\ corruptions = 0

Next ==
  \/ \E n \in Nodes, d \in Drafts : BeginPublish(n, d)
  \/ \E n \in Nodes : \E given \in SUBSET publish[n].draft.blobs :
       StoreLocal(n, given)
  \/ \E n \in Nodes : AckSelf(n)
  \/ \E n, v \in Nodes, b \in Blobs : SendBlob(n, v, b)
  \/ \E n, v \in Nodes : SendFails(n, v)
  \/ \E n \in Nodes : FinishReplication(n)
  \/ \E n \in Nodes : SubmitManifest(n)
  \/ CommitManifest
  \/ RefuseManifest
  \/ \E n \in Nodes : AbortPublish(n)
  \/ \E n, v \in Nodes, b \in Blobs : Pull(n, v, b)
  \/ \E n \in Nodes : ReadState(n)
  \/ \E n \in Nodes : ReadStaging(n)
  \/ \E n \in Nodes, b \in Blobs : RemoveBlob(n, b)
  \/ \E n \in Nodes : EndGC(n)
  \/ \E n \in Nodes : ApplyManifest(n)
  \/ \E n \in Nodes : Elect(n)
  \/ Acquire
  \/ LoseLeadership
  \/ \E v \in Nodes : ChangeVoters(v)
  \/ \E n \in Nodes : Crash(n)
  \/ \E n \in Nodes, b \in Blobs : Corrupt(n, b)

\* The maintenance loop keeps running, Raft keeps applying, and a blob that
\* some voter offers again and again is pulled at last.
Fairness ==
  \A n \in Nodes :
    /\ WF_vars(ApplyManifest(n))
    /\ WF_vars(ReadStaging(n))
    /\ WF_vars(EndGC(n))
    /\ \A b \in Blobs : SF_vars(\E v \in Nodes : Pull(n, v, b))

Spec == Init /\ [][Next]_vars /\ Fairness

-----------------------------------------------------------------------------
(* Properties.                                                             *)

Manifests == Drafts \cup {NoDraft}
Calls ==
  {p \in [pc : {"idle", "storing", "replicating", "prepared", "submitted"},
          draft : Manifests, current : BOOLEAN, cfg : 0..MaxChanges,
          voters : SUBSET Nodes, waiting : SUBSET Nodes,
          peer : Nodes \cup {NoNode}, sent : SUBSET Blobs,
          acks : SUBSET Nodes, confirmed : SUBSET Nodes] :
     p.acks \cap p.waiting = {}}
Entries ==
  [by : Nodes, draft : Manifests, current : BOOLEAN, voters : SUBSET Nodes,
   confirmed : SUBSET Nodes]
Generations ==
  [draft : Manifests, voters : SUBSET Nodes, confirmed : SUBSET Nodes]

\* Every variable has its type, and a call visits no voter again that it has
\* counted (node.go:865-878).
TypeOK ==
  /\ leader \in Nodes \cup {NoNode}
  /\ voters \in SUBSET Nodes
  /\ cfgIndex \in 0..MaxChanges
  /\ store \in [Nodes -> [Blobs -> {"absent", "valid", "corrupt"}]]
  /\ everStored \in [Nodes -> SUBSET Blobs]
  /\ publish \in [Nodes -> Calls]
  /\ inflight \in Seq(Entries)
  /\ committed \in Seq(Generations)
  /\ applied \in [Nodes -> 0..Len(committed)]
  /\ loop \in [Nodes -> [pc : {"sync", "state", "remove"},
                         retained : SUBSET Blobs]]
  /\ corruptions \in 0..MaxCorruptions

\* More than half of the voters.
IsQuorum(servers, all) == 2 * Cardinality(servers) > Cardinality(all)

\* Every committed generation was stored completely, at some time, by a
\* majority of the voters of the configuration its manifest names, and this was
\* still the configuration when the last of them had been asked
\* (node.go:725-751, 862-883), however sends failed, nodes crashed, leaders and
\* the configuration changed meanwhile.
GenerationWasStored ==
  \A i \in 1..Len(committed) :
    /\ committed[i].confirmed = committed[i].voters
    /\ \E servers \in SUBSET committed[i].voters :
         /\ IsQuorum(servers, committed[i].voters)
         /\ \A v \in servers : committed[i].draft.blobs \subseteq everStored[v]

LastBlobs == UNION {committed[i].draft.blobs : i \in {Len(committed)} \ {0}}

\* Once the last generation stays whole on one up-to-date voter, it gets to
\* every voter and stays there, through garbage collection, crashes and
\* corrupt copies (node.go:913-1021).
GenerationSpreads ==
  <>[](\E v \in voters : applied[v] = Len(committed) /\ HoldsAll(v, LastBlobs))
  => <>[](\A v \in voters : HoldsAll(v, LastBlobs))

\* README.md:13: a generation is submitted for commit only when its blobs are
\* durable on a voter quorum.
SubmittedIsDurable ==
  \A i \in 1..Len(inflight) :
    IsQuorum({v \in inflight[i].voters : HoldsAll(v, inflight[i].draft.blobs)},
             inflight[i].voters)
=============================================================================
