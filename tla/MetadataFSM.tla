---------------------------- MODULE MetadataFSM ----------------------------
(***************************************************************************)
(* The replicated metadata state machine of consensus.go, and the          *)
(* operations of node.go that put commands into its log.                   *)
(*                                                                         *)
(* Raft is external: it is a log of committed commands to which only the   *)
(* leader of the current term appends.  hist[i + 1] is what a binary that  *)
(* supports every activated gate holds after the first i commands, so      *)
(* hist is the meaning of the log that every replica has to agree with     *)
(* (module ReplicatedFSM).  A node builds a command from its own copy of   *)
(* the state, which may lag: every read of n.Metadata() is a read of some  *)
(* recent prefix, and two reads of one call are two prefixes, the second   *)
(* no older than the first.                                                *)
(*                                                                         *)
(* A Go map is a function on a finite set, an optional value ({} or {v}) a *)
(* set, and a content hash the content itself: SHA-256 is taken to be      *)
(* injective.  Times, error texts and JSON layout are left out.            *)
(***************************************************************************)
EXTENDS Capability, Sequences, FiniteSets

CONSTANTS
  Nodes, NoNode,     \* node ids; "no owner yet"
  CommandIDs,        \* the command ids callers use (NoID may be one of them)
  NoID,              \* the empty command id
  Keys, Vals,        \* metadata keys and values
  MembersKey,        \* "cluster/members"
  MembersValue,      \* the initial members of the configuration
  EmptyKey,          \* the empty key
  Writes,            \* the key/value maps callers write
  ClusterID,
  Drafts,            \* the valid manifests callers publish, but for the epoch
  Gates,             \* the gates callers activate
  MaxLog, MaxTerm,   \* bounds: commands in the log, Raft terms
  MaxLag             \* bound: how far a read may lag behind the log

\* A partial function on S with values in T: a Go map.
IsMap(f, S, T) == f \in [DOMAIN f -> T] /\ DOMAIN f \subseteq S

\* The map m after the entries of w were written to it.
Overwrite(m, w) ==
  [k \in DOMAIN m \cup DOMAIN w |-> IF k \in DOMAIN w THEN w[k] ELSE m[k]]

Entry(k, v) == [x \in {k} |-> v]

ASSUME NodesAssumption == NoNode \notin Nodes
ASSUME KeysAssumption ==
  MembersKey \in Keys /\ EmptyKey \notin Keys /\ MembersValue \in Vals
ASSUME WritesAssumption ==
  \A w \in Writes : IsMap(w, Keys \cup {EmptyKey}, Vals)
ASSUME GatesAssumption ==
  \A g \in Gates :
    {g.protocol, g.command, g.manifest, g.minLeader, g.minVoter} \subseteq Nat
ASSUME DraftsAssumption == \A d \in Drafts : d.sequence \in 0..MaxSequence
ASSUME BoundsAssumption ==
  MaxLog \in Nat /\ MaxTerm \in Nat \ {0} /\ MaxLag \in Nat

VARIABLES
  raftTerm, raftLeader,  \* Raft (external): the current term and its leader
  log,                   \* committed commands: [command, by, at, reply]
  hist                   \* hist[i + 1] = [state, fault] after i commands

vars == <<raftTerm, raftLeader, log, hist>>

-----------------------------------------------------------------------------
(* The state machine: metadataFSM.Apply.                                   *)

InitialState ==
  [revision    |-> 0,
   epoch       |-> 0,
   owner       |-> NoNode,
   term        |-> 0,
   values      |-> [k \in {} |-> MembersValue],
   snapshots   |-> {},
   active      |-> {},
   activeIndex |-> 0,
   gate        |-> LegacyCapabilityGate,
   applied     |-> [id \in {} |-> 0]]

\* A zero version in a command is the legacy version.
Normalized(cmd) ==
  [cmd EXCEPT !.protocol = OrLegacy(@), !.command = OrLegacy(@)]

\* commandDigest: everything but the id and the creation time.
Digest(cmd) ==
  [type |-> cmd.type, expected |-> cmd.expected, epoch |-> cmd.epoch,
   protocol |-> cmd.protocol, command |-> cmd.command,
   payload |-> cmd.payload]

Result(s, verdict, revision) ==
  [state |-> s, verdict |-> verdict, revision |-> revision]

Rejected(s) == Result(s, "reject", s.revision)
Faulted(s)  == Result(s, "fault", s.revision)

\* Mutant of Committed: the command is recorded before the revision is raised.
CommittedUnderOldRevision(t, cmd) ==
  Result([t EXCEPT !.revision = @ + 1,
                   !.applied  = Overwrite(@, Entry(cmd.id,
                                  [revision |-> t.revision,
                                   digest   |-> {Digest(cmd)}]))],
         "ok", t.revision + 1)

\* The common tail of Apply: t is s with the effect of cmd.
Committed(t, cmd) ==
  Result([t EXCEPT !.revision = @ + 1,
                   !.applied  = Overwrite(@, Entry(cmd.id,
                                  [revision |-> t.revision + 1,
                                   digest   |-> {Digest(cmd)}]))],
         "ok", t.revision + 1)

Fenced(s, cmd) == cmd.epoch # s.epoch \/ s.owner = NoNode

\* Mutant of ApplyAcquireLeadership: an equal term takes the epoch over.
AcquireOnEqualTerm(s, cmd) ==
  LET p == cmd.payload
  IN  IF p.node = NoNode \/ p.term = 0 \/ p.term < s.term THEN Rejected(s)
      ELSE Committed([s EXCEPT !.epoch = IF p.term = s.term THEN @ ELSE @ + 1,
                               !.term = p.term, !.owner = p.node], cmd)

ApplyAcquireLeadership(s, cmd) ==
  LET p == cmd.payload
  IN  IF p.node = NoNode \/ p.term = 0 \/ p.term < s.term THEN Rejected(s)
      ELSE IF p.term = s.term THEN Committed(s, cmd)
      ELSE Committed([s EXCEPT !.epoch = @ + 1, !.term = p.term,
                               !.owner = p.node], cmd)

\* Mutants of ApplyPutMetadata: the keys are not checked; the valid part of a
\* batch is written before the check of the keys refuses it.
PutWithoutKeyCheck(s, cmd) ==
  IF Fenced(s, cmd) \/ DOMAIN cmd.payload = {} THEN Rejected(s)
  ELSE Committed([s EXCEPT !.values = Overwrite(@, cmd.payload)], cmd)

PutBeforeKeyCheck(s, cmd) ==
  LET w     == cmd.payload
      valid == [k \in DOMAIN w \ {EmptyKey} |-> w[k]]
      t     == [s EXCEPT !.values = Overwrite(@, valid)]
  IN  IF Fenced(s, cmd) \/ DOMAIN w = {} THEN Rejected(s)
      ELSE IF EmptyKey \in DOMAIN w THEN Rejected(t)
      ELSE Committed(t, cmd)

\* put_metadata and put_metadata_batch: a single write is a batch of one.
ApplyPutMetadata(s, cmd) ==
  LET w == cmd.payload
  IN  IF Fenced(s, cmd) \/ DOMAIN w = {} \/ EmptyKey \in DOMAIN w
      THEN Rejected(s)
      ELSE Committed([s EXCEPT !.values = Overwrite(@, w)], cmd)

MonotonicSequence(gate) == gate.minVoter >= MonotonicSnapshotSequence

\* Mutant of ApplyCommitSnapshot: the index of the active snapshot is not set.
CommitWithoutIndex(s, index, cmd) ==
  LET m == cmd.payload
  IN  IF Fenced(s, cmd) \/ m.cluster # ClusterID \/ m.epoch # s.epoch
      THEN Rejected(s)
      ELSE IF MonotonicSequence(s.gate) /\ ~(s.active \subseteq s.snapshots)
      THEN Faulted(s)
      ELSE IF MonotonicSequence(s.gate) /\ ~IsNextSequence(s.active, m.sequence)
      THEN Rejected(s)
      ELSE IF ~ManifestMatchesGate(m, s.gate) THEN Faulted(s)
      ELSE Committed([s EXCEPT !.snapshots = @ \cup {m}, !.active = {m}], cmd)

ApplyCommitSnapshot(s, index, cmd) ==
  LET m == cmd.payload
  IN  IF Fenced(s, cmd) \/ m.cluster # ClusterID \/ m.epoch # s.epoch
      THEN Rejected(s)
      ELSE IF MonotonicSequence(s.gate) /\ ~(s.active \subseteq s.snapshots)
      THEN Faulted(s)
      ELSE IF MonotonicSequence(s.gate) /\ ~IsNextSequence(s.active, m.sequence)
      THEN Rejected(s)
      ELSE IF ~ManifestMatchesGate(m, s.gate) THEN Faulted(s)
      ELSE Committed([s EXCEPT !.snapshots = @ \cup {m}, !.active = {m},
                               !.activeIndex = index], cmd)

\* Mutant of ApplyActivateCapabilities: the gate changes, the revision stays.
ActivateWithoutRevision(s, cmd) ==
  LET g == NormalizeGate(cmd.payload)
  IN  IF Fenced(s, cmd) \/ ~ValidGate(g) THEN Rejected(s)
      ELSE Result([s EXCEPT !.gate = g], "ok", s.revision)

\* But for the test of the local binary's capabilities: see LocalFault.
ApplyActivateCapabilities(s, cmd) ==
  LET g == NormalizeGate(cmd.payload)
  IN  IF Fenced(s, cmd) \/ ~ValidGate(g) THEN Rejected(s)
      ELSE Committed([s EXCEPT !.gate = g], cmd)

ApplyByType(s, index, cmd) ==
  CASE cmd.type = "acquire_leadership"    -> ApplyAcquireLeadership(s, cmd)
    [] cmd.type = "put_metadata"          -> ApplyPutMetadata(s, cmd)
    [] cmd.type = "put_metadata_batch"    -> ApplyPutMetadata(s, cmd)
    [] cmd.type = "commit_snapshot"       -> ApplyCommitSnapshot(s, index, cmd)
    [] cmd.type = "activate_capabilities" -> ApplyActivateCapabilities(s, cmd)
    [] OTHER                              -> Faulted(s)

\* Mutant of ApplyDuplicate: the digests are not compared.
DuplicateOfAnything(s, cmd) == Result(s, "ok", s.applied[cmd.id].revision)

\* An entry of an old Raft snapshot (UnmarshalJSON) has no digest and any
\* command matches it; commands applied here always record theirs.
ApplyDuplicate(s, cmd) ==
  IF s.applied[cmd.id].digest \subseteq {Digest(cmd)}
  THEN Result(s, "ok", s.applied[cmd.id].revision)
  ELSE Rejected(s)

\* Mutant of Outcome: the expected revision is not checked.
OutcomeWithoutCAS(s, index, raw) ==
  LET cmd == Normalized(raw)
  IN  IF cmd.id = NoID THEN Faulted(s)
      ELSE IF cmd.protocol # s.gate.protocol \/ cmd.command # s.gate.command
      THEN Faulted(s)
      ELSE IF cmd.id \in DOMAIN s.applied THEN ApplyDuplicate(s, cmd)
      ELSE ApplyByType(s, index, cmd)

\* What a healthy replica whose binary supports the gates does with raw.
Outcome(s, index, raw) ==
  LET cmd == Normalized(raw)
  IN  IF cmd.id = NoID THEN Faulted(s)
      ELSE IF cmd.protocol # s.gate.protocol \/ cmd.command # s.gate.command
      THEN Faulted(s)
      ELSE IF cmd.id \in DOMAIN s.applied THEN ApplyDuplicate(s, cmd)
      ELSE IF \E r \in cmd.expected : r # s.revision THEN Rejected(s)
      ELSE ApplyByType(s, index, cmd)

\* The same, on a replica that may already be halted by an earlier fault.
ApplyTo(r, index, cmd) ==
  IF r.fault # 0 THEN Rejected(r.state) ELSE Outcome(r.state, index, cmd)

-----------------------------------------------------------------------------
(* The log and the calls that append to it.                                *)

Recent == {i \in 1..Len(hist) : i + MaxLag >= Len(hist)}

View(i) == hist[i].state

\* Two reads of the state by one call.
Reads == {r \in Recent \X Recent : r[1] <= r[2]}

Reply(r) == [ok |-> r.verdict = "ok", revision |-> r.revision]

LogHasRoom == Len(log) < MaxLog

\* Node.apply on the Raft leader: the command is committed at the next index.
Submit(cmd) ==
  LET index == Len(log) + 1
      last  == hist[index]
      r     == ApplyTo(last, index, cmd)
  IN  /\ log' = Append(log, [command |-> cmd, by |-> raftLeader,
                             at |-> raftTerm, reply |-> Reply(r)])
      /\ hist' = Append(hist,
                   [state |-> r.state,
                    fault |-> IF r.verdict = "fault" THEN index ELSE last.fault])
      /\ UNCHANGED <<raftTerm, raftLeader>>

Command(id, type, versions, expected, epoch, payload) ==
  [id |-> id, type |-> type,
   protocol |-> versions.gate.protocol, command |-> versions.gate.command,
   expected |-> expected, epoch |-> epoch, payload |-> payload]

\* checkLocalBusinessLeadership passed on n, with capabilities c, when n had
\* applied prefix i: the epoch is n's own, of the Raft term it then led.
VerifiedAt(n, c, i) ==
  /\ hist[i].fault = 0
  /\ View(i).owner = n
  /\ SupportsGate(c, View(i).gate, TRUE)
  /\ \E k \in 1..(i - 1) :
       /\ log[k].by = n
       /\ log[k].command.type = "acquire_leadership"
       /\ log[k].command.payload.term = log[k].at
       /\ log[k].at = View(i).term

\* A call that n's VerifyBusinessLeadership let through no later than prefix
\* i.  Nothing repeats the check, so the call may be arbitrarily delayed.
LetThrough(c, i) == \E v \in 1..i : VerifiedAt(raftLeader, c, v)

ReadsLetThrough(c) == {r \in Reads : LetThrough(c, r[1])}

Election(n) ==
  /\ raftTerm < MaxTerm
  /\ raftTerm' = raftTerm + 1
  /\ raftLeader' = n
  /\ UNCHANGED <<log, hist>>

\* refreshStatus on the Raft leader, with binary c, wants the epoch for term t.
WantsEpoch(t, c, i) ==
  /\ SupportsGate(c, View(i).gate, TRUE)
  /\ View(i).owner # raftLeader \/ View(i).term # t

\* acquireLeadership, up to its first command.  The term comes from
\* raft.Stats(), read before the state and before the leader test: it may be
\* an older one.
AcquireLeadership(t, c) ==
  LogHasRoom /\ \E cmd \in
    {Command(<<"acquire", t, raftLeader>>, "acquire_leadership",
             View(r[2]), {}, 0, [node |-> raftLeader, term |-> t]) :
       r \in {r \in Reads : WantsEpoch(t, c, r[1])}} :
    Submit(cmd)

\* The rest of acquireLeadership: once its command was applied, record the
\* initial members if they are missing (with the versions read before).
InitializeMembers(t) ==
  LogHasRoom /\ \E cmd \in
    {Command(<<"initialize">>, "put_metadata", View(r[1]),
             {View(r[2]).revision}, View(r[2]).epoch,
             Entry(MembersKey, MembersValue)) :
       r \in {r \in Reads :
                /\ MembersKey \notin DOMAIN View(r[2]).values
                /\ \E k \in r[1]..(r[2] - 1) :
                     /\ log[k].command.id = <<"acquire", t, raftLeader>>
                     /\ log[k].reply.ok}} :
    Submit(cmd)

PutMetadata(id, w, revision, c) ==
  /\ LogHasRoom
  /\ \E k \in DOMAIN w : DOMAIN w = {k}
  /\ \E cmd \in
       {Command(id, "put_metadata", View(r[2]), {revision},
                View(r[1]).epoch, w) : r \in ReadsLetThrough(c)} :
       Submit(cmd)

PutMetadataBatch(id, w, revision, c) ==
  LogHasRoom /\ \E cmd \in
    {Command(id, "put_metadata_batch", View(r[2]), {revision},
             View(r[1]).epoch, w) : r \in ReadsLetThrough(c)} :
    Submit(cmd)

\* The manifest is checked against the gate of prefix i and the active
\* snapshot of prefix j; after the blobs are replicated the command is built
\* from two later reads.
PublishSnapshot(id, d, epoch, c) ==
  LET m == [cluster |-> d.cluster, epoch |-> epoch, sequence |-> d.sequence,
            schema |-> d.schema, datasets |-> d.datasets]
      Checked(i, j) ==
        /\ LetThrough(c, i)
        /\ ManifestMatchesGate(m, View(i).gate)
        /\ MonotonicSequence(View(i).gate)
             => IsNextSequence(View(j).active, m.sequence)
  IN  LogHasRoom /\ \E cmd \in
        {Command(id, "commit_snapshot", View(r[2]), {View(r[1]).revision},
                 View(r[1]).epoch, m) :
           r \in {r \in Reads :
                    \E q \in Reads : q[2] <= r[1] /\ Checked(q[1], q[2])}} :
        Submit(cmd)

\* voters gives the capabilities the voters reported.  The call's test for an
\* active membership operation is left out: none runs in this model.
ActivateCapabilities(id, g, c, voters) ==
  /\ LogHasRoom
  /\ ValidGate(g)
  /\ ValidActivationVoters(voters, NormalizeGate(g))
  /\ \E cmd \in
       {Command(id, "activate_capabilities", View(r[2]), {View(r[1]).revision},
                View(r[1]).epoch, NormalizeGate(g)) : r \in ReadsLetThrough(c)} :
       Submit(cmd)

Init ==
  /\ raftTerm = 0
  /\ raftLeader = NoNode
  /\ log = <<>>
  /\ hist = <<[state |-> InitialState, fault |-> 0]>>

\* Here every node runs the current binary.
Caps == SupportedNodeCapabilities

Revisions == 0..View(Len(hist)).revision
Epochs == 1..View(Len(hist)).epoch

Next ==
  \/ \E n \in Nodes : Election(n)
  \/ \E t \in 1..raftTerm : AcquireLeadership(t, Caps)
  \/ \E t \in 1..raftTerm : InitializeMembers(t)
  \/ \E id \in CommandIDs, w \in Writes, r \in Revisions :
       PutMetadata(id, w, r, Caps)
  \/ \E id \in CommandIDs, w \in Writes, r \in Revisions :
       PutMetadataBatch(id, w, r, Caps)
  \/ \E id \in CommandIDs, d \in Drafts, e \in Epochs :
       PublishSnapshot(id, d, e, Caps)
  \/ \E id \in CommandIDs, g \in Gates :
       ActivateCapabilities(id, g, Caps, [n \in Nodes |-> Caps])

Spec == Init /\ [][Next]_vars

-----------------------------------------------------------------------------
(* Properties.                                                             *)

IDs == CommandIDs \cup {<<"initialize">>}
         \cup {<<"acquire", t, n>> : t \in 1..MaxTerm, n \in Nodes}

GateFields ==
  {"protocol", "command", "manifest", "datasets", "minLeader", "minVoter"}

IsGate(g) ==
  /\ DOMAIN g = GateFields
  /\ g.protocol \in Nat \ {0}
  /\ g.command \in Nat \ {0}
  /\ g.manifest \in Nat \ {0}
  /\ g.minLeader \in Nat \ {0}
  /\ g.minVoter \in Nat \ {0}

IsState(s) ==
  /\ DOMAIN s = {"revision", "epoch", "owner", "term", "values", "snapshots",
                 "active", "activeIndex", "gate", "applied"}
  /\ s.revision \in Nat /\ s.epoch \in Nat /\ s.term \in Nat
  /\ s.activeIndex \in Nat
  /\ s.owner \in Nodes \cup {NoNode}
  /\ IsMap(s.values, Keys, Vals)
  /\ \A m \in s.active : m.sequence \in 0..MaxSequence
  /\ IsGate(s.gate)
  /\ DOMAIN s.applied \subseteq IDs
  /\ \A id \in DOMAIN s.applied : s.applied[id].revision \in Nat

IsCommand(c) ==
  /\ DOMAIN c = {"id", "type", "protocol", "command", "expected", "epoch",
                 "payload"}
  /\ c.id \in IDs
  /\ c.type \in {"acquire_leadership", "put_metadata", "put_metadata_batch",
                 "commit_snapshot", "activate_capabilities"}
  /\ c.protocol \in Nat /\ c.command \in Nat /\ c.epoch \in Nat
  /\ c.expected \subseteq Nat
  /\ c.type = "acquire_leadership" =>
       c.payload.node \in Nodes /\ c.payload.term \in 1..MaxTerm
  /\ c.type \in {"put_metadata", "put_metadata_batch"} =>
       IsMap(c.payload, Keys \cup {EmptyKey}, Vals)
  /\ c.type = "commit_snapshot" => c.payload.sequence \in 0..MaxSequence
  /\ c.type = "activate_capabilities" => IsGate(c.payload)

IsSequence(s) == s \in Seq({s[i] : i \in 1..Len(s)})

\* Every variable has its type, and every gate the state machine of
\* consensus.go holds is normalised (no version in it is 0).
TypeOK ==
  /\ raftTerm \in 0..MaxTerm
  /\ raftLeader \in Nodes \cup {NoNode}
  /\ raftTerm = 0 <=> raftLeader = NoNode
  /\ IsSequence(log)
  /\ IsSequence(hist)
  /\ Len(hist) = Len(log) + 1
  /\ \A i \in 1..Len(log) :
       /\ IsCommand(log[i].command)
       /\ log[i].by \in Nodes
       /\ log[i].at \in 1..MaxTerm
       /\ log[i].reply \in [ok : BOOLEAN, revision : Nat]
  /\ \A i \in 1..Len(hist) :
       IsState(hist[i].state) /\ hist[i].fault \in 0..(i - 1)

Sent(i) == Normalized(log[i].command)

\* Entry i took effect: it was accepted and was no duplicate.
TookEffect(i) == log[i].reply.ok /\ Sent(i).id \notin DOMAIN View(i).applied

\* A command id takes effect at most once (consensus.go:174-180): whoever
\* submits it again is told the same revision if it is the same command, and
\* neither a duplicate nor a refusal changes anything, however the retries
\* interleave with other commands and with changes of leader.
ExactlyOnce ==
  \A i, j \in 1..Len(log) :
    i < j /\ log[i].command.id = log[j].command.id /\ log[i].reply.ok =>
      /\ ~TookEffect(j)
      /\ hist[j + 1].state = hist[j].state
      /\ log[j].reply.ok =>
           /\ Digest(Sent(i)) = Digest(Sent(j))
           /\ log[i].reply.revision = log[j].reply.revision

\* The revision counts the commands that took effect, and each of them was
\* given a revision of its own (consensus.go:300-301), so a caller's
\* compare-and-set on a revision names exactly one prior command.
RevisionCountsCommands ==
  \A i \in 1..Len(hist) :
    LET a == View(i).applied
    IN  /\ {a[id].revision : id \in DOMAIN a} = 1..View(i).revision
        /\ \A x, y \in DOMAIN a : a[x].revision = a[y].revision => x = y

\* Leadership epochs never go back, and an epoch belongs to one owner and one
\* Raft term for good (consensus.go:187-202), even when nodes acquire with a
\* term from before the last election.
EpochHasOneOwner ==
  \A i, j \in 1..Len(hist) :
    i <= j =>
      /\ View(i).epoch <= View(j).epoch
      /\ View(i).term <= View(j).term
      /\ View(i).epoch = View(j).epoch =>
           View(i).owner = View(j).owner /\ View(i).term = View(j).term

\* The metadata values are exactly what the last effective write of each key
\* left (consensus.go:203-235): no refused batch leaves a part behind and no
\* retry brings an old value back.
ValuesFollowTheLog ==
  LET Writers(k) ==
        {i \in 1..Len(log) :
           /\ TookEffect(i)
           /\ Sent(i).type \in {"put_metadata", "put_metadata_batch"}
           /\ k \in DOMAIN Sent(i).payload}
      now == View(Len(hist)).values
  IN  \A k \in Keys :
        IF Writers(k) = {} THEN k \notin DOMAIN now
        ELSE /\ k \in DOMAIN now
             /\ \E i \in Writers(k) :
                  /\ \A j \in Writers(k) : j <= i
                  /\ now[k] = Sent(i).payload[k]

\* A write takes effect only on the revision its caller named, so two callers
\* that read the same revision never both win (consensus.go:181).
NoLostUpdate ==
  \A i, j \in 1..Len(log) :
    i < j /\ TookEffect(i) /\ TookEffect(j) =>
      \A r \in Sent(i).expected : r \notin Sent(j).expected

\* The active snapshot is the manifest of the last commit_snapshot that took
\* effect, at that command's index, and is among the retained manifests, so
\* the fault of consensus.go:257 ("active snapshot manifest is missing") never
\* happens.
ActiveSnapshotIsLastCommitted ==
  LET now     == View(Len(hist))
      Commits == {i \in 1..Len(log) :
                    TookEffect(i) /\ Sent(i).type = "commit_snapshot"}
  IN  IF Commits = {} THEN now.active = {} /\ now.activeIndex = 0
      ELSE /\ now.activeIndex \in Commits
           /\ \A i \in Commits : i <= now.activeIndex
           /\ now.active = {Sent(now.activeIndex).payload}
           /\ now.active \subseteq now.snapshots

\* As long as a gate with monotonic sequences stays in force, every snapshot
\* that becomes active is numbered one higher than the one it replaces
\* (consensus.go:250-263, snapshot.go:48-60): readers never see a generation
\* again, whichever leader published it and however late its command came.
SequenceGrowsByOne ==
  \A i, j \in 1..Len(hist) :
    /\ i <= j
    /\ \A k \in i..j : MonotonicSequence(View(k).gate)
    => LET Sequence(s) == IF s.active = {} THEN 0
                          ELSE (CHOOSE m \in s.active : TRUE).sequence
       IN  Sequence(View(j)) - Sequence(View(i)) =
             Cardinality({k \in i..(j - 1) :
               TookEffect(k) /\ Sent(k).type = "commit_snapshot"})

-----------------------------------------------------------------------------
(* What the documentation says of the program, and the program does not.   *)

\* README.md:238: a command id sent again with the same payload is
\* idempotent.  For PutMetadata the caller gives the id, the key and value,
\* and the expected revision.
RetryIsIdempotent ==
  \A i, j \in 1..Len(log) :
    /\ i < j
    /\ log[i].reply.ok
    /\ Sent(i).type = Sent(j).type
    /\ Sent(i).type = "put_metadata"
    /\ Sent(i).id = Sent(j).id
    /\ Sent(i).payload = Sent(j).payload
    /\ Sent(i).expected = Sent(j).expected
    => log[j].reply.ok

\* README.md:244: PublishSnapshot validates the manifest against the current
\* gate, so a snapshot it submits is committed or refused; it never halts
\* the state machine of every replica.
PublishNeverHalts ==
  \A i \in 1..Len(log) :
    Sent(i).type = "commit_snapshot" /\ Sent(i).id # NoID =>
      hist[i + 1].fault = hist[i].fault

\* README.md:212: VerifyBusinessLeadership, which every call below starts
\* with, confirms that the node holds the current leader_epoch.  A call that
\* takes effect then takes effect under its node's own epoch.
WriterOwnsEpoch ==
  \A i \in 1..Len(log) :
    TookEffect(i) /\ Sent(i).id \in CommandIDs => View(i).owner = log[i].by
=============================================================================
