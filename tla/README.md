# TLA+ verification of go-clusterha

go-clusterha keeps a small cluster of nodes in step on top of HashiCorp Raft:
a replicated metadata state machine, "business leadership" with fencing
epochs, snapshot generations whose blobs live outside the Raft log, a
capability gate for rolling upgrades, membership changes and local reads.
This directory models these parts in TLA+, model-checks them with TLC on small
instances and proves the central invariants with TLAPS for all instances.
Line numbers refer to the files under `src/`.

## 1. Inventory

| Component | State | Operations | Talks to |
|---|---|---|---|
| Metadata state machine (`consensus.go`) | revision, epoch, owner, term, values, manifests, active snapshot, gate, applied commands | `Apply` of `acquire_leadership`, `put_metadata`, `put_metadata_batch`, `commit_snapshot`, `activate_capabilities` | fed by Raft, read by every other part through `Node.Metadata` |
| Metadata replicas (`consensus.go`, `startRaft`) | one state per node, the apply fault, its marker file, the Raft snapshots | `Apply`, `Snapshot`, `Restore`, `configureApplyFaultFile`, `persistFSMApplyFault` | called by Raft's FSM goroutine |
| Capability gate (`capability.go`) | the active gate (in the metadata), each binary's capabilities | normalise, `SupportsGate`, `validateManifestCapability`, `ActivateCapabilities` | the other voters' status over internal HTTP |
| Business leadership (`node.go:280-514`, `1794-1850`, `1961-2000`) | cached role and epoch, time of the last quorum check | `monitor`/`refreshStatus`, `acquireLeadership`, `VerifyBusinessLeadership`, `watchRaftLeadership` | Raft, the state machine, leadership events |
| Leadership events (`node.go:1921-1959`) | subscribers' one-element channels, `n.leadership` | `SubscribeLeadership`, `setLeadership`, cancellation | leadership, the application |
| Snapshot publication (`node.go:693-1127`) | staged blobs, the configuration lock | `PublishSnapshot`, `syncActiveSnapshot`, `gcSnapshotBlobs` | blob stores of all nodes, the state machine, Raft's configuration |
| Blob store (`snapshot.go`) | files named by hash, a lock per hash, `staging/`, `quarantine/` | `Put`, `PutHash`, `Open`, `Read`, `Verify`, `GC` | publication, HTTP handlers |
| Membership operations (`node.go:1143-1710`) | the operation and its phase (in the metadata), pending members | `JoinVoter`, `RemoveServer`, reconciliation by a new leader | Raft configuration, joining node, capability gate |
| Peer registry and transport (`node.go:1602-1652`, `transport.go`) | the peers a node dials and accepts | `refreshPeerRegistry`, `Dial`, verification of a handshake | the state machine, Raft |
| Local reads and proxying (`node.go:1711-1919`) | leader status | `VerifyLocalReadResult`, `ProxyToLeader`, the barrier and proxy handlers | leader over internal HTTP |
| HTTP views, certificates, configuration | – | decode, call a `Node` method, encode | – |

What is hard here, and what correctness means:

* **Commands are built from stale reads.** Every call verifies leadership,
  reads the state (often more than once) and only then submits. Correct: a
  command takes effect at most once, on the revision its caller saw, under an
  epoch that has one owner.
* **Replicas may halt one by one.** An apply fault stops a replica, depends on
  its binary, and is remembered in a file whose write may fail. Correct:
  replicas that are healthy agree, a halted one never spreads its state, and
  forgetting is impossible as long as the marker is on disk.
* **Blobs are outside the log.** Replication, acknowledgement, commit and
  garbage collection are separate steps on separate nodes. Correct: what is
  committed was stored by a majority, one intact copy is enough for all, an
  acknowledged file survives a crash, and no reader gets other bytes than
  those it asked for.
* **Who leads is cached, and told to others.** Raft's role, the epoch, the
  cached status and the announced leadership are four pieces of state that
  several goroutines write. Correct: nobody announces or uses an epoch that is
  not its own, a healthy Raft leader comes to act as the leader, a change is
  never lost on the way to a subscriber, and handing it out blocks nobody.
* **A membership change has six or more log entries**, and any of them may be
  the last one its leader sees. Correct: another leader goes on exactly where
  Raft's configuration stands, and every operation is completed.
* **A node trusts only the peers its own, perhaps old, state names.** Correct:
  after restarts enough nodes still reach each other to elect a leader.
* **Leaders change in the middle of anything**; nodes crash and come back,
  perhaps with another binary; answers are lost; the voters change.

`PROJECT.json` lists these as hazards, each at its line.

## 2. Modules

| Module | Models | Proved in |
|---|---|---|
| `Capability` | `capability.go` and the gate-dependent checks of `snapshot.go`, as operators | – |
| `MetadataFSM` | `metadataFSM.Apply` as the operator `Outcome`; the node calls that submit commands, as actions | `ReplicatedFSMProofs` |
| `ReplicatedFSM` | extends `MetadataFSM` with one replica per node: faults, marker, Raft snapshots, restarts | `ReplicatedFSMProofs` |
| `SnapshotPublish` | publication, pulls and garbage collection of blobs, on all nodes | `SnapshotPublishProofs` |
| `BlobStore` | one blob's file on one node: locks, renames, syncs, quarantine, crashes | `BlobStoreProofs` |
| `LeadershipEvents` | subscriptions and the channel operations of `setLeadership` | `BusinessLeadershipProofs` |
| `BusinessLeadership` | extends `LeadershipEvents` with its callers: monitor, requests, watcher, verification | `BusinessLeadershipProofs` |
| `MembershipSteps` | the states of the log during a membership change and the steps between them, as operators | – |
| `MembershipSpec` | the abstract specification of a membership change | `MembershipSpecProofs` |
| `Membership` | the calls on every node that carry it out; implements `MembershipSpec` | `MembershipProofs` |
| `PeerNetwork` | registries, elections and restarts over a log of `MembershipSteps` | `PeerNetworkProofs` |
| `LocalRead` | a query answered from a node's own state, or forwarded | `LocalReadProofs` |
| `MCMetadata`, `MCReplicas`, `MCPublish`, `MCBlobs`, `MCEvents`, `MCLeadership`, `MCMembership`, `MCNetwork`, `MCRead` | instances for TLC | |

Definitions named "Mutant of …" in a comment are deliberately wrong variants
of the definition below them; no specification uses them. They document which
mistake in the code each property would notice.

**MetadataFSM.** `log` is the sequence of committed commands; `hist[i + 1]`
is the state after the first `i` of them on a binary that supports every gate:
the meaning of the log. `Outcome(s, index, cmd)` follows `Apply` check by
check: empty id, version fault, duplicate by id and digest (a record without
a digest, from before there were any, matches every payload; the instances
start from an empty state and so record none), compare-and-set, then the
command type. A verdict is `ok`, `reject` (an error in the reply) or
`fault` (the replica halts). Submission is a step of the Raft leader:
`PutMetadata`, `PutMetadataBatch`, `PublishSnapshot`, `ActivateCapabilities`,
`AcquireLeadership` and `InitializeMembers` each build their command as the Go
method does. A call that reads the metadata twice reads two prefixes of the
log, the second no older than the first, both at most `MaxLag` behind. A call
needs a `VerifyBusinessLeadership` that its node passed *at some earlier
time*: the code never repeats the check, so nothing bounds the delay.
`AcquireLeadership` takes any term up to the current one, because
`refreshStatus` reads `raft.Stats()` before it tests for leadership.

**ReplicatedFSM.** Every node applies the log to `fsm[n]` with the
capabilities of its binary. An entry is applied (`ApplyEntry`), faults
(`ApplyFaulting`: in the log's meaning or only for this binary) or is skipped
by a halted replica (`ApplyHalted`). The marker write may fail
(`PersistFault`). `Restart` is a crash followed by `startRaft` with any
binary: marker first, then the local Raft snapshot, then replay. The rename of
the marker is never synced (`consensus.go:392`), so `PowerLoss` is a start
without a marker that was written.
`InstallSnapshot` restores another node's snapshot.

**SnapshotPublish.** The state machine is reduced to the sequence of committed
generations; fencing by epochs is the flag `current`, cleared by `Acquire`.
`publish[n]` is the call that holds `configurationMu` on `n`. It stores the
blobs the caller hands over, sends them blob by blob, counts the voters that
stored all of them, compares the configuration index and submits; the ghost
`confirmed` holds the voters in force at that comparison. `loop[n]` is
the maintenance loop; a collection is several steps (`ReadState`,
`ReadStaging`, one `RemoveBlob` per file), as each reads shared state at its
own time. A copy is absent, valid or corrupt. Because retention sorts by the
callers' creation times and pins by age, `KeepChoices` allows every set of
retained generations that is large enough and contains the active one.

**BlobStore.** The three kinds of copy of `SnapshotPublish`, seen from within:
`file` is what is at the blob's path, `disk` the set of things a loss of power
may leave there, because a rename or a removal is durable only once the
directory is synced. A process that dies (`Crash`) leaves both as they are; a
machine that loses its power (`PowerLoss`) comes back with any member of
`disk`. Two ghosts say what an acknowledgement rests on: whether the call
installed the file or found it (`acked`), and whether a call was ever cut off
between its rename and its sync (`unsynced`). A `Put` receives into a file of its own, takes the hash's lock,
verifies what is there, quarantines it if it is damaged, renames and syncs;
`Open` verifies and opens the path a second time, without the lock. One hash
is enough: hashes share neither a file nor a lock.

**LeadershipEvents.** Each channel operation is a step. `setter` is the
`setLeadership` call that holds `n.mu` from its first to its last send, so
every action that takes `n.mu` has the guard `Free`. `sub[s]` holds the
one-element buffer, where `SubscribeLeadership` or the reader is, and the
history flag `synced`: the first event was what `n.leadership` held and no
other event overtook it. A `SubscribeLeadership` that finds its channel full
is `parked`; Go hands the room that `Drain` makes to the parked sender at
once, so `Drain` completes that call.

**BusinessLeadership.** One node against an environment that elects, deposes
and acquires. `refreshStatus` runs as the monitor (which verifies the quorum)
and as a request (which goes by the cached verification), step by step:
`BeginRefresh` reads Raft's term, `ReadState` the state and Raft's role, then
the acquisition, the re-read, the verification, `PublishStatus` and `Announce`.
`TakeLeaderCh`, `WatchCache` and `WatchAnnounce` are the watcher;
`BeginVerify`, `CheckQuorum` and `EndVerify` a `VerifyBusinessLeadership`
call, whose local check reads Raft's role, the metadata, the fault and term,
and the cached status one after the other (`BeginVerify` to `CheckStatus`).
`HasBusinessLeadership` is the conjunction of these tests at one moment. A
check whose reads are apart can pass although they never held together, for
example across a re-election; what it lets through is a verification at the
quorum and a command that the epoch fences. An acquisition that fails for its
caller may be committed all the same, and one that is repeated for a term this
node acquired is answered with success as a duplicate.

**MembershipSteps and MembershipSpec.** A cluster is Raft's configuration, the
recorded operation with its phase, and the committed members. `Steps(c)` are
the entries that may follow: an operation begins when none is active, a join
goes through non-voter, caught up, voter and completed, a removal through
Raft's removal, removed and completed. `MembershipSpec` takes any such step.

**Membership.** `proc[n]` is the call that holds `membershipMu` on node `n`:
`JoinVoter`, `RemoveServer`, `ActivateCapabilities`, or `Reconcile`, which the
maintenance loop and the first two run. A step reaches from one blocking call
to the next. `change[n]` is the configuration change in Raft's hands; its
caller may give up first (`AbandonChange`). A metadata command takes effect,
fails, or takes effect and is reported as failed. Locks of two nodes do not
exclude each other: a deposed leader finishes its call next to the new one's.
`BeginOperation` returns at once, its pending member kept, when the same
operation is already active.
Peers come from the metadata and from `pending[n]`. The refinement mapping is
`Abstract`: configuration, operation without its number, and members.

**PeerNetwork.** The log is a sequence of clusters; `applied[n]` is what node
`n` derives its registry from, the founders while it has applied nothing. Two
nodes reach each other if each is in the other's registry. An election needs a
majority of the voters of the candidate's configuration to be reachable and
not ahead of it. A restart falls back to any snapshot the node may have taken.

In the three modules about membership only `Joiners` join, and these are not
founders. This is an assumption about the operator: README.md:348 has a
replacement use a new id, but nothing in `JoinVoter` or `config.go:170`
enforces it. `FoundersAreKnown` and `FoundersElect` rest on it.

**LocalRead.** The log holds acquisitions and generations. Raft's applied
index `raft[n]` runs ahead of what the state machine has executed (`fsm[n]`),
for good after an apply fault. A query goes through the local checks, the
barrier at the leader, and the comparison; each verification and each HTTP
call may fail. A refused query may be served stale or proxied, with a barrier
and a verification of its own.

## 3. Model-checking runs

Passing runs:

| Run | Checks | Shows |
|---|---|---|
| `metadata` | `TypeOK`, `ExactlyOnce`, `RevisionCountsCommands`, `EpochHasOneOwner`, `ValuesFollowTheLog`, `NoLostUpdate`, `ActiveSnapshotIsLastCommitted`, `SequenceGrowsByOne` | retries, stale reads and elections never make a command count twice, lose an update, tear a batch or share an epoch; the active manifest is the last committed and present; sequences are consecutive while the gate demands it |
| `replicas` | `ReplicaTypeOK`, `ReplicasAgree`, `SnapshotsAreHealthy`, `RevisionIdentifiesState`, `HaltSurvives`, `EveryReplicaCatchesUp` | replicas with mixed binaries, faults, markers not written or lost with the power, snapshots and restarts stay consistent, and a halted one does not block the apply loop |
| `publish` | `TypeOK`, `GenerationWasStored`, `GenerationSpreads` | a committed generation was stored by a majority of its voters, who were still the voters when the configuration was looked at again; from one intact copy every voter gets, and keeps, the last generation |
| `blobs` | `StoreTypeOK`, `AcknowledgedIsDurable`, `ReadsAreVerified`, `DamagedIsQuarantined` | two `Put`s, two readers and `GC` on one hash, with damage, failing syncs, process crashes and losses of power: what a `Put` installed stays, and what it found stays unless a call was cut off before its sync |
| `events` | `NoChangeIsLost`, `SendsToOpenChannels`, `OnlyOvertakenBlocks`, `LockIsReleased` | however reads, drains, sends and cancellations interleave, the newest event waits for its reader, no send hits a closed channel, and `n.mu` is released |
| `leadership` | `TypeOK`, `AnnouncedEpochIsOwn`, `BusinessLeaderIsNewest` | over three terms, with stale statistics, an apply fault, a gate and a stop, a node announces only epochs it acquired and acts with a quorum only under the newest |
| `leader_takes_over` | `LeaderTakesOver`, `LossIsAnnounced` | a lasting healthy Raft leader gets business leadership; a node that lost Raft leadership for good withdraws its announcement |
| `membership` | `MembershipTypeOK`, `MembersFollowRaft`, `VotersSupportGate`, `Implements`, `JoinIsStaged`, `OperationCompletes` | a join, a removal and an activation with any two faults implement `MembershipSpec`, promote in stages, keep every voter able to read the log, and end |
| `network` | `FoundersAreKnown`, `FoundersElect` | registries from old states contain every founder that votes, so a running majority of founders gets a leader |
| `read` | `ReadTypeOK`, `ServedIsServable` | what a lagging or halted node serves as proved, or has the leader serve, was current or pinned at some moment of the call |

Two runs end in a violation. Each shows a mistake in the code, against what
the repository says of it (`PROJECT.json`, findings):

| Run | Property | Disagreement |
|---|---|---|
| `publish_during_activation` | `PublishNeverHalts` | README.md:244 against the gate check before replication (`node.go:705`, `746`): every replica halts |
| `subscribe_race` | `SubscribeReturns` | README.md:192 against the first send after the registration (`node.go:1927`): the call never returns |

**Bounds.** Two nodes suffice for leadership to move away and back; `MaxTerm`
2 gives an old and a new leader, 3 a re-election. In `metadata`, `MaxLog` 4
holds an acquisition, a write, a second acquisition and a retry, or an
acquisition, a gate and two generations; `MaxLag` 2 lets the reads of one call
fall on both sides of another command; `MaxSequence` 3 brings the exhausted
sequence within reach; `NoID` is among the command ids, so faults by an empty
id occur. In `replicas`, two restarts cover "roll back and forward again".
`publish` has one blob, one generation, one change of voters and one corrupt
copy: a generation of one blob is enough for a stale collection to hit it, and
partial sends of several blobs are covered by the proof. `blobs` has two calls
of each kind, so that both can be between check and use, two process crashes
and two losses of power, so that each can come before or after the other. In
`membership` and `network` three founders are the least for which losing one
leaves a majority, and the joining node lacks the next gate; two operations
are a join followed by a removal; `MaxFaults` 2 is shared by depositions,
failing calls and crashes, so any two of them meet. `MaxPauses` 0 excludes
that a node is deposed *and* re-elected in the middle of one of its calls;
what happens otherwise is in section 4. `MaxLog` 11 in `network` is a join and
a removal with every phase recorded. In `read`, `MaxLog` 4 allows two
generations under two leaders. In `leadership`, one concurrent verification,
fault, gate and stop suffice, since each only needs to fall between two steps.

Permutations of nodes, command ids, writers and readers are symmetries where
the specification treats them alike; runs with liveness properties use none.
Deadlock is not checked where the bounds end the behaviour (log, terms or
operations used up); it is checked in `publish`, `events`, `read` and `blobs`.

**Fairness.** `ReplicatedFSM`: Raft's FSM goroutine keeps handing committed
entries to the node (weak fairness of the three apply actions together); the
code never blocks it (`consensus.go:158`). `SnapshotPublish`: the maintenance
loop runs every second until the context ends (weak fairness of its steps), so
does Raft's apply loop, and a blob that a voter offers again and again is
pulled eventually (strong fairness: a pull may fail, but the loop repeats it).
No publication, election or send is assumed fair, and `GenerationSpreads`
itself assumes that one up-to-date voter keeps a whole copy.
`LeadershipEvents`: each goroutine that can go on does (weak fairness), readers
included, as the loop of README.md:192 reads; nothing says a subscription is
made or cancelled. `BusinessLeadership`: `n.mu` is handed to waiters in turn
(Go's mutex does not starve), so a step that needs it is taken if it is
possible again and again (strong fairness); so are the monitor's acquisition
and verification, which the ticker repeats and which a leader with a quorum
does not fail for ever. `LeaderTakesOver` itself says the quorum lasts.
`Membership`: some call goes on as long as one can, Raft elects when there is
no leader and replicates to the joining node; the catch-up poll runs every
100 ms and is assumed to meet a moment without a write in between (strong
fairness). `PeerNetwork`: Raft keeps electing, replicating and noticing that a
majority is gone; no restart is assumed.

**Refinement.** `Membership!Implements` checks every step of every leader's
calls against `MembershipSpec` under the mapping `Abstract`. `PeerNetwork`
takes its log from the same `Steps`, so what it shows of registries holds for
the logs `Membership` can produce.

## 4. Further disagreements

While modelling, more places turned up where the code does something else than
the repository says. Each has a configuration, named first, that makes TLC
print the behaviour: `tlc -config X.cfg M`.

* `RetryAfterElection` (`MCMetadata`, `RetryIsIdempotent`): README.md:238 calls
  a command with the same id and payload idempotent; `commandDigest`
  (`consensus.go:405`) covers the epoch and versions the node fills in, so the
  same call after an election is refused although it was applied.
* `WriteAfterReelection` (`MCMetadata`, `WriterOwnsEpoch`): README.md:212 has
  the caller own the epoch; it is read after the check (`node.go:555`), so a
  call delayed over two elections writes under another node's epoch.
* `RollbackUnderGate` (`MCReplicas`, `HealthyReplicaSupportsGate`): README.md:18
  keeps old binaries from new formats; `Restore` (`consensus.go:433`) has no
  gate test.
* `DurableQuorum` (`MCPublish`, `SubmittedIsDurable`): README.md:13 commits
  after durable acknowledgements by a quorum; a follower's collection
  (`node.go:996`) may remove the blob between acknowledgement and commit.
* `SubscribersAreStopped` (`MCLeadership`): README.md:192-201 stops the
  collector on an inactive event; `VerifyBusinessLeadership` (`node.go:1825`)
  restores the cached role after leadership was lost, and a subscription made
  then is told that the node leads and never hears otherwise (`node.go:1940`).
* `FaultedLeader` (`MCLeadership`, `AnnouncedLeaderMayAct`): README.md:10 lets
  only a node with business leadership collect; `refreshStatus`
  (`node.go:437`) announces a leader whose state machine has halted, which
  `checkLocalBusinessLeadership` (`node.go:1977`) refuses for ever.
* `ResumedRemoval` (`MCMembership`, `LeaderIsNotRemoved`): README.md:17 and
  `node.go:1152` exclude the leader from removal; `reconcileRemoveOperation`
  (`node.go:1391`) does not, so a target that is elected removes itself.
* `StalePeers` (`MCMembership`, `PeersAreMembers`): `transport.go:105` and
  `node_membership_test.go:111` trust committed members only; the clean-up of
  `pendingMembers` on a deposed leader (`node.go:1319-1326`) may keep a node
  that was joined and removed by others.
* `PausedPromotion` (`MCMembership`, `JoinIsStaged`) and `PausedActivation`
  (`VotersSupportGate`), with `MaxPauses` 1: README.md:351 promotes only a
  caught-up non-voter, and README.md:361 activates when all voters are ready. A call held up while
  other leaders finish and its own node is elected again promotes an absent
  node (`AddVoter` with `prevIndex` 0, `node.go:1455`), or activates over a new
  voter's head (the expected revision is read after the answers,
  `node.go:610`).
* `MajorityElects` (`MCNetwork`): README.md:30 has a new leader elected after
  failures; nodes restarted without a snapshot know only `initial_members`
  (`node.go:1602`) and neither dial nor accept a joined voter, although their
  majority may need it. `FoundersElect` is what remains true.
* `LinearizableRead` (`MCRead`): README.md:14 and 326 confirm a linearizable
  read with a barrier; the generation is chosen before it and any pinned one is
  confirmed (`node.go:1910`), so a read may return an older generation than one
  committed before it began. `ServedIsServable` is what remains true.
* `UnsyncedAcknowledgement` (`MCBlobs`, `AcknowledgementIsPersistent`):
  README.md:386 has an acknowledgement presuppose persistence. When the process
  dies between the rename and `syncDir`, or `syncDir` fails (`snapshot.go:398`),
  the file is there but not durable; the same blob sent again is found and
  acknowledged without a sync (`snapshot.go:387`), and a loss of power may take
  it. `AcknowledgedIsDurable` is what remains true.
* `snapshot.go:417-418` says GC quarantines invalid files; it removes them
  (`snapshot.go:446`). This is why `DamagedIsQuarantined` is about `Put`.

## 5. Proofs

All theorems hold for arbitrary constants that satisfy the named assumptions.
These only say that model values are distinct, sets of nodes finite and bounds
natural numbers, and, in `MetadataFSM`'s `DraftsAssumption`, that a caller's
sequence number fits its width.

`ReplicatedFSMProofs`, first part, about `MetadataFSM`. The argument is about
one application: `GoodStep(s, r)`
says what a result `r` of applying a command to `s` may be (a well-typed state
whose applied commands are numbered 1 to its revision, that is `s` itself if
the revision did not move, and whose owner and term are those of `s` if the
epoch did not). One lemma per command type shows that it is a good step, `Outcome`
and `Submit` follow, and every action is a `Submit` or an election. The first
inductive invariant is

    IndInv == TypeOK /\ RevisionCountsCommands /\ EpochHasOneOwner /\ RevisionNamesState

`RevisionNamesState` (two prefixes with the same revision have the same state)
is the strengthening: it is what `RevisionIdentifiesState` rests on below. It
gives `TypeCorrect`, `RevisionsAreCounted` and `EpochsAreExclusive`.

The second, `LogInv`, adds what the log *means*. `Meaning` says, from its reply
alone, what an entry did to the state before it: either it took effect
(`Effective`: what changed, by command type) or nothing changed
(`Ineffective`: and why). `LogMeaning` says so of every entry; it is proved once,
check by check, along `Apply`. On top of it `AppliedGrows` (a recorded command
stays recorded with its answer) gives `CommandsTakeEffectOnce` and
`NoUpdateIsLost`; `LastWrites`, `LastCommit` and `SequencesCount` restate the
properties about values, the active manifest and sequences without their sets,
so that one appended entry settles them: `ValuesAlwaysFollowTheLog`,
`ActiveIsAlwaysLastCommitted`, `SequencesAlwaysGrowByOne`. `DigestsRecorded`
(every recorded command has its digest) is needed because a record without one
would answer a different payload as a duplicate.

`ReplicatedFSMProofs`, second part: `ReplicasAlwaysAgree`, `SnapshotsAreAlwaysHealthy`,
`RevisionsIdentifyStates`, `HaltsSurvive`, `ReplicaTypesHold`. Its inductive
invariant adds to `IndInv` the types of the replica variables, that `hist` is
the meaning of `log` entry by entry (`HistFollowsLog`), that a marker on disk
is a fault in memory and no snapshot carries one (`FaultsAreLocal`),
`ReplicasAgree` and `SnapshotsAreHealthy`. The link between `hist` and `log` is
needed because a replica recomputes what `Submit` computed; appending to `hist`
leaves its prefix alone, so the steps of `MetadataFSM` preserve what is said of
the replicas. `HaltsSurvive` excuses exactly the loss of power that takes the
marker; the other results hold through it. `MixedBinariesKeepTheLog` shows that `LogInv` is kept as well when
the commands come from nodes with different binaries, and with it the five
results above.

`SnapshotPublishProofs`: `PublishTypeCorrect`, `GenerationsAreAlwaysStored`,
from `VotersAssumption` (finitely many nodes), `DraftsAssumption` and
`LimitsAssumption`. A committed generation was in the log before, and a
manifest in the log came from a call, so the inductive invariant `StoredInv`
follows the blobs through them: a valid copy was stored, a call's sent and
acknowledged blobs were stored (`CallStored`), a call past its replication has
a quorum, and every command in the log and every generation names a quorum
that stored its blobs. `ConfigRead` and `Confirmed` carry the comparison of
configuration indices from the call to the generation: as long as the index is
the one the call read, so are the voters, hence those that were counted are
those in force at the second look. The record `everStored` only grows, so what other nodes
do in between (collections, crashes, corrupt copies) cannot undo any of this.
`ElectorsAlwaysOnceStored` draws the consequence the quorum is there for: since
majorities intersect, every majority of those voters has a node that once stored
the whole generation.

`MembershipSpecProofs`: `ClusterTypeCorrect`, `MembersAlwaysFollowRaft`,
`VotersAreAlwaysEnough`, for any number of founders and joiners. The inductive
invariant `IInv` is the type, `MembersFollowRaft` and `Room`: there are at
least `BootstrapExpect` members, and more while a removal is active. `Room` is
needed because the number is compared only when a removal begins.
`MembershipProofs` carries the results over to what the leaders do.

`MembershipProofs` instantiates `MembershipSpecProofs` at the replicated state
and shows that the leaders' calls take only its steps. A call remembers the
operation and the gate it read, and acts on them much later, perhaps after
others have led. What makes this safe is that a deposed node's commands and
changes have no effect, so it is enough to speak about the node that leads:
`Call(p, c)` says, for every program counter of its call `p`, which phase and
which state of Raft's configuration it may have found (`JoinCall`,
`RemoveCall`, `Beginning`). The hard part is the configuration change `c` that
Raft may still commit after its caller has given up and a second call has moved
on: `Submitted(c)` says that such a change is either the next step of the
active operation or has no effect any more. In particular a late promotion
finds a non-voter that has applied "caughtup", and a late `AddNonvoter` never
meets a voter. All of this needs that a node is not re-elected in the middle of
one of its calls. `Unpaused` says that none has been so far; `MInv` is the types,
which need no such condition, and `Unpaused => StepInv`. Hence `MembershipTypes`
holds for any number of pauses, `VotersAlwaysSupportGate`,
`RecordedPhaseFollowsRaft` and `VotersRemainEnough` up to the first pause, and the two properties of
whole behaviours, `JoinsAreStaged` and the refinement
`MembershipImplementsSpec`, for `MaxPauses` 0. The condition cannot be dropped:
`PausedPromotion` and `PausedActivation` (section 4) refute `JoinIsStaged` and `VotersSupportGate`
with one pause. `Good` is what every action shows: the invariant afterwards, a
step of `MembershipSpec` or none (`RStep`), and a staged promotion.

`BlobStoreProofs`: `LockIsExclusive`, `AcknowledgedAlwaysDurable`,
`ReadsAlwaysVerified`, `DamagedAlwaysQuarantined`, for any number of calls,
damages, crashes, losses of power and failing syncs. The invariant adds to the
lock's holder what the holder knows (`Locked`: the file it is about to
quarantine is damaged, the path is empty between quarantine and rename), that
only verified bytes are staged (`Staged`), and `Durable`: a file that its own
`Put` installed and acknowledged is valid and the only thing a loss of power can
leave; and as long as no call was cut off before its sync, the same is true of
every valid file whose lock is free. The first half needs no condition, because
GC and damage, which end it, also end the acknowledgement; the second is all
that `Put` has when it acknowledges a file that it finds in place.

`BusinessLeadershipProofs`, first part: `NoChangeIsEverLost`, `ChannelsAreAlwaysOpen`,
`OnlyOvertakenEverBlocks`, for any number of subscriptions, epochs and
callers. The invariant generalises `NoChangeIsLost` to the middle of a
`setLeadership` call (`UpToDate`: every channel that is not on its list has or
had `n.leadership`), says where the setter is (`SetterOK`), and follows a
channel whose first event was overtaken from that send to the one that would
block (`Overtaken`). `OneSubscription` states what any step on one
subscription has to show, and `SendPreserves` does so for the two sends of
`setLeadership`.

`BusinessLeadershipProofs`, second part: `LeadershipTypes`, `AnnouncedEpochsAreOwn`,
`BusinessLeadersAreNewest`, `CallersKeepTheEvents`, for any number of terms,
epochs, expiries, faults and subscriptions. The invariant `LInv` is that of
the events plus the order of the acquisitions: their terms grow,
none is of a future term, and the leader of the newest term knows that term
(`TermsGrow`, `RaftOK`); and what a `refreshStatus` call carries from one step
to the next stays true of the log of acquisitions, because that log only grows
(`RefreshKnows`: its term is not of the future, its epoch exists, the event it
is going to announce names an epoch of this node). A node with a quorum behind
it whose last acquisition is of the newest term therefore acts under the last
epoch. The lemmas of the first part are used for the calls of
`setLeadership` that this node really makes, which gives
`CallersKeepTheEvents`.

`PeerNetworkProofs`: `FoundersAreAlwaysKnown`. A registry comes from an old
state of the log, the votes that count from the last one. The invariant links
the two: no step makes a founder a voter again (`Lasting`, only joining nodes
join), so a founder that votes now has voted in every earlier state, and in
each of them it was a member that Raft had not removed (`Listed`).

`LocalReadProofs`: `ReadsAreTyped`, `ServedIsAlwaysServable`,
`ServedAlwaysInNewestEpoch`, for any nodes, readers and length of the log. The
query compares states of two nodes at four moments, while the log grows, pins
run out and leaders change; the invariant `ReadInv` refers all of them to
`read.from`, the length of the log when the query began. The leader has executed
the whole log (`LeaderIsCurrent`). So a node that passes the leadership check
has executed at least `read.from` entries, and still has when it answers,
leader or not (`AskedIsCurrent`). What is servable of a prefix only shrinks
(`ServableShrinks`): pins only run out, and the active generation of a longer
log, if it lies in the prefix, was active there (`ServableInPrefix`). An answer
therefore lists only generations that were servable at the start or are newer
(`AnswerIsGood`), and that is all a node serves. `AnswerIsCurrent` follows the
epochs the same way: the reader's is at most that of the log at `read.from`,
the answer's at least, so the comparison that `verifyLocalReadStrict` makes
leaves only the newest one, and its owner. That a nonempty bounded set of
indices has a maximum, which `Active` and `Owner` need, is `MaxIsGreatest`, from
the well-foundedness of the naturals.

Every safety invariant and action property of the passing runs is stated by a
theorem. `EveryReplicaCatchesUp`, `GenerationSpreads`, `LockIsReleased`,
`LeaderTakesOver`, `LossIsAnnounced`, `OperationCompletes` and `FoundersElect`
are only model-checked: they are liveness properties, and fairness is beyond
this prover.

## 6. What is not modelled

Times and ages as numbers: a verification is recent or too old, a pin has run
out or not, a time-out may strike at any wait. Error texts, JSON and file
layout are left out. SHA-256 is taken to be injective. Inside Raft only what
the code relies on is modelled, and marked external in `PROJECT.json`.

* **External HTTP API** (`http.go`): read-only views of the status.
* **Configuration** (`config.go`, `duration.go`): sequential defaulting and
  validation; what it guarantees (three founders, distinct names)
  appears as the instances' constants.
* **Certificates and sockets** (`transport.go`): a handshake is reduced to its
  membership test; that a certificate names its node is taken for granted.
* **Order within `Start` and `Close`**: listeners, Raft and its store are
  opened and closed by one goroutine. `Close` followed by a second `Start` on
  the same `Node` is not modelled.
* **Node status and metrics**: fields of `NodeStatus` that nothing decides on.

`MetadataFSM` has no membership operations, so its `ActivateCapabilities` does
not test for an active one; `Membership` does. Manifests are those
`ValidateManifest` accepts. The replicas' Raft indices and the publication's
generations are separate views of one log: `SnapshotPublish`, `LocalRead` and
`Membership` each reduce the state machine of `MetadataFSM` to the part of it
they depend on.

## 7. Plan

What the plan had is done. Worth adding when the code changes:

1. A membership call that is re-elected in the middle (`MaxPauses` above 0): the
   theorems then hold only up to that moment, and section 4 shows why. A check of
   the term at each step in the code would let `MInv` do without `Unpaused`.
2. `Close` followed by a second `Start` on one `Node`, if that becomes a
   supported use.
