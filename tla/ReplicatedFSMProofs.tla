------------------------ MODULE ReplicatedFSMProofs ------------------------
(***************************************************************************)
(* Proofs about the metadata state machine.  The first part is about       *)
(* MetadataFSM, for any sets of nodes, ids, keys, manifests and gates and  *)
(* any bounds; the second about ReplicatedFSM, which runs the same machine *)
(* on every node: whatever the number of nodes, the binaries they run, the *)
(* crashes and the commands, the replicas agree.                           *)
(***************************************************************************)
EXTENDS ReplicatedFSM, SequenceTheorems, FiniteSetTheorems, TLAPS


-----------------------------------------------------------------------------
(* Sequences.                                                              *)

\* A sequence over any set is a sequence over its own elements.
LEMMA SequenceOverItsElements ==
  ASSUME NEW S, NEW t \in Seq(S)
  PROVE  IsSequence(t)
<1> DEFINE T == {t[i] : i \in 1..Len(t)}
<1>1. Len(t) \in Nat /\ t \in [1..Len(t) -> S]
  BY LenProperties
<1>2. t \in [1..Len(t) -> T]
  BY <1>1
<1>3. t \in UNION {[1..n -> T] : n \in Nat}
  BY <1>1, <1>2
<1> HIDE DEF T
<1>4. t \in Seq(T)
  BY <1>3, SeqDef
<1> QED BY <1>4 DEF IsSequence, T

\* What Append does to a sequence whose elements have no common type.
LEMMA AppendFacts ==
  ASSUME NEW s, IsSequence(s), NEW x
  PROVE  /\ IsSequence(Append(s, x))
         /\ Len(Append(s, x)) = Len(s) + 1
         /\ Append(s, x)[Len(s) + 1] = x
         /\ \A i \in 1..Len(s) : Append(s, x)[i] = s[i]
         /\ Len(s) \in Nat
<1> DEFINE R == {s[i] : i \in 1..Len(s)}
           S == R \cup {x}
<1>1. s \in Seq(R)
  BY DEF IsSequence
<1> HIDE DEF R
<1>2. s \in Seq(S)
  BY <1>1, SeqMonotonic
<1> HIDE DEF S
<1>3. x \in S
  BY DEF S
<1>4. /\ Append(s, x) \in Seq(S)
      /\ Len(Append(s, x)) = Len(s) + 1
      /\ Append(s, x)[Len(s) + 1] = x
      /\ \A i \in 1..Len(s) : Append(s, x)[i] = s[i]
      /\ Len(s) \in Nat
  BY <1>2, <1>3
<1> QED BY <1>4, SequenceOverItsElements

-----------------------------------------------------------------------------
(* One command.                                                            *)

\* Normalising a command keeps its type.
LEMMA NormalizedType ==
  ASSUME NEW raw, IsCommand(raw)
  PROVE  IsCommand(Normalized(raw))
BY DEF IsCommand, Normalized, OrLegacy, LegacyVersion

\* Normalising a gate with natural-number versions gives a gate.
LEMMA NormalizeGateType ==
  ASSUME NEW g,
         g.protocol \in Nat, g.command \in Nat, g.manifest \in Nat,
         g.minLeader \in Nat, g.minVoter \in Nat
  PROVE  IsGate(NormalizeGate(g))
<1> DEFINE h == NormalizeGate(g)
<1>1. DOMAIN h = GateFields
  BY DEF NormalizeGate, GateFields
<1>2. /\ h.protocol \in Nat \ {0} /\ h.command \in Nat \ {0}
      /\ h.manifest \in Nat \ {0}
      /\ h.minLeader \in Nat \ {0} /\ h.minVoter \in Nat \ {0}
  BY DEF NormalizeGate, OrLegacy, LegacyVersion
<1> QED BY <1>1, <1>2 DEF IsGate

\* One conjunct of RevisionCountsCommands: a's entries are numbered 1..n.
Numbered(a, n) ==
  /\ {a[id].revision : id \in DOMAIN a} = 1..n
  /\ \A x, y \in DOMAIN a : a[x].revision = a[y].revision => x = y

\* How the leadership of one state may follow that of another.
EpochStep(s, t) ==
  /\ s.epoch <= t.epoch
  /\ s.term <= t.term
  /\ s.epoch = t.epoch => s.owner = t.owner /\ s.term = t.term

\* How the revision of one state may follow that of another.
RevisionStep(s, t) ==
  /\ s.revision <= t.revision
  /\ s.revision = t.revision => s = t

\* What a state has to satisfy, and what one command may do to it.
GoodState(s) == IsState(s) /\ Numbered(s.applied, s.revision)

GoodStep(s, r) ==
  /\ GoodState(r.state)
  /\ EpochStep(s, r.state)
  /\ RevisionStep(s, r.state)
  /\ r.verdict \in {"ok", "reject", "fault"}
  /\ r.revision \in Nat

\* A new entry with the next number keeps the entries numbered.
LEMMA NumberedStep ==
  ASSUME NEW a, NEW n \in Nat, Numbered(a, n), NEW id, id \notin DOMAIN a,
         NEW e, e.revision = n + 1
  PROVE  LET b == Overwrite(a, Entry(id, e))
         IN  /\ DOMAIN b = DOMAIN a \cup {id}
             /\ \A x \in DOMAIN b : b[x] = IF x = id THEN e ELSE a[x]
             /\ Numbered(b, n + 1)
<1> DEFINE b == Overwrite(a, Entry(id, e))
<1>1. /\ DOMAIN b = DOMAIN a \cup {id}
      /\ \A x \in DOMAIN b : b[x] = IF x = id THEN e ELSE a[x]
  BY DEF Overwrite, Entry
<1> HIDE DEF b
<1>2. \A x \in DOMAIN a : a[x].revision \in 1..n
  BY DEF Numbered
<1>3. \A k \in 1..n : \E x \in DOMAIN a : a[x].revision = k
  BY DEF Numbered
<1>4. \A x \in DOMAIN b : b[x].revision \in 1..(n + 1)
  BY <1>1, <1>2
<1>5. \A k \in 1..(n + 1) : \E x \in DOMAIN b : b[x].revision = k
  <2> SUFFICES ASSUME NEW k \in 1..(n + 1)
               PROVE  \E x \in DOMAIN b : b[x].revision = k
    OBVIOUS
  <2>1. CASE k = n + 1
    BY <2>1, <1>1
  <2>2. CASE k \in 1..n
    <3>1. PICK x \in DOMAIN a : a[x].revision = k
      BY <2>2, <1>3
    <3> QED BY <3>1, <1>1
  <2> QED BY <2>1, <2>2
<1>6. {b[x].revision : x \in DOMAIN b} = 1..(n + 1)
  BY <1>4, <1>5
<1>7. \A x, y \in DOMAIN b : b[x].revision = b[y].revision => x = y
  BY <1>1, <1>2 DEF Numbered
<1> QED BY <1>1, <1>6, <1>7 DEF Numbered, b

\* The tail of Apply, after an effect that left revision and applied alone.
LEMMA CommittedStep ==
  ASSUME NEW s, NEW t, GoodState(t), EpochStep(s, t),
         s.revision = t.revision, NEW cmd, cmd.id \in IDs, cmd.id \notin DOMAIN t.applied
  PROVE  GoodStep(s, Committed(t, cmd))
<1> DEFINE e == [revision |-> t.revision + 1, digest |-> {Digest(cmd)}]
           a == Overwrite(t.applied, Entry(cmd.id, e))
           u == [t EXCEPT !.revision = @ + 1, !.applied = a]
<1>1. t.revision \in Nat /\ e.revision = t.revision + 1
  BY DEF GoodState, IsState
<1> HIDE DEF e
<1>2. /\ DOMAIN a = DOMAIN t.applied \cup {cmd.id}
      /\ \A id \in DOMAIN a : a[id] = IF id = cmd.id THEN e ELSE t.applied[id]
      /\ Numbered(a, t.revision + 1)
  BY <1>1, NumberedStep DEF GoodState
<1> HIDE DEF a
<1>3. IsState(u)
  BY <1>1, <1>2 DEF GoodState, IsState
<1>4. /\ u.revision = t.revision + 1 /\ u.applied = a
      /\ u.epoch = t.epoch /\ u.term = t.term /\ u.owner = t.owner
  BY DEF GoodState, IsState
<1>5. Committed(t, cmd) = Result(u, "ok", t.revision + 1)
  BY DEF Committed, a, e
<1> HIDE DEF u
<1>6. GoodState(u) /\ EpochStep(s, u) /\ RevisionStep(s, u)
  BY <1>1, <1>2, <1>3, <1>4 DEF GoodState, EpochStep, RevisionStep
<1> QED BY <1>1, <1>5, <1>6 DEF GoodStep, Result

\* A refusal, a fault or the answer to a duplicate changes nothing.
LEMMA UnchangedStep ==
  ASSUME NEW s, GoodState(s), NEW verdict, NEW revision \in Nat,
         verdict \in {"ok", "reject", "fault"}
  PROVE  GoodStep(s, Result(s, verdict, revision))
BY DEF GoodStep, Result, EpochStep, RevisionStep, GoodState, IsState

\* In particular Rejected and Faulted change nothing.
LEMMA RefusedStep ==
  ASSUME NEW s, GoodState(s)
  PROVE  GoodStep(s, Rejected(s)) /\ GoodStep(s, Faulted(s))
<1>1. s.revision \in Nat
  BY DEF GoodState, IsState
<1> QED BY <1>1, UnchangedStep DEF Rejected, Faulted

\* acquire_leadership raises the epoch exactly when the term grows.
LEMMA AcquireStep ==
  ASSUME NEW s, GoodState(s), NEW cmd, IsCommand(cmd),
         cmd.type = "acquire_leadership", cmd.id \notin DOMAIN s.applied
  PROVE  GoodStep(s, ApplyAcquireLeadership(s, cmd))
<1> DEFINE p == cmd.payload
           t == [s EXCEPT !.epoch = @ + 1, !.term = p.term, !.owner = p.node]
<1>1. /\ p.term \in Nat /\ p.node \in Nodes /\ cmd.id \in IDs
      /\ s.term \in Nat /\ s.epoch \in Nat
  BY BoundsAssumption DEF IsCommand, GoodState, IsState
<1>2. CASE p.node = NoNode \/ p.term = 0 \/ p.term < s.term
  BY <1>2, RefusedStep DEF ApplyAcquireLeadership
<1>3. CASE ~(p.node = NoNode \/ p.term = 0 \/ p.term < s.term) /\ p.term = s.term
  <2>1. EpochStep(s, s)
    BY <1>1 DEF EpochStep
  <2> QED BY <1>1, <1>3, <2>1, CommittedStep DEF ApplyAcquireLeadership
<1>4. CASE ~(p.node = NoNode \/ p.term = 0 \/ p.term < s.term) /\ p.term # s.term
  <2>1. IsState(t) /\ t.applied = s.applied /\ t.revision = s.revision
    BY <1>1 DEF GoodState, IsState
  <2>2. EpochStep(s, t)
    BY <1>1, <1>4 DEF EpochStep, GoodState, IsState
  <2>3. ApplyAcquireLeadership(s, cmd) = Committed(t, cmd)
    BY <1>4 DEF ApplyAcquireLeadership
  <2> HIDE DEF t
  <2>4. GoodState(t) /\ cmd.id \notin DOMAIN t.applied
    BY <2>1 DEF GoodState
  <2> QED BY <1>1, <2>1, <2>2, <2>3, <2>4, CommittedStep
<1> QED BY <1>2, <1>3, <1>4

\* put_metadata and put_metadata_batch write only keys that are not empty.
LEMMA PutStep ==
  ASSUME NEW s, GoodState(s), NEW cmd, IsCommand(cmd),
         cmd.type \in {"put_metadata", "put_metadata_batch"},
         cmd.id \notin DOMAIN s.applied
  PROVE  GoodStep(s, ApplyPutMetadata(s, cmd))
<1> DEFINE w == cmd.payload
           v == Overwrite(s.values, w)
           t == [s EXCEPT !.values = v]
           refused == Fenced(s, cmd) \/ DOMAIN w = {} \/ EmptyKey \in DOMAIN w
<1>1. CASE refused
  BY <1>1, RefusedStep DEF ApplyPutMetadata
<1>2. CASE ~refused
  <2>1. IsMap(w, Keys \cup {EmptyKey}, Vals) /\ IsMap(s.values, Keys, Vals)
    BY DEF IsCommand, GoodState, IsState
  <2>2. IsMap(v, Keys, Vals)
    BY <1>2, <2>1 DEF IsMap, Overwrite
  <2>3. ApplyPutMetadata(s, cmd) = Committed(t, cmd)
    BY <1>2 DEF ApplyPutMetadata
  <2> HIDE DEF v
  <2>4. /\ IsState(t) /\ t.applied = s.applied /\ t.revision = s.revision
        /\ EpochStep(s, t)
    BY <2>2 DEF GoodState, IsState, EpochStep
  <2> HIDE DEF t
  <2>5. GoodState(t) /\ cmd.id \notin DOMAIN t.applied /\ cmd.id \in IDs
    BY <2>4 DEF GoodState, IsCommand
  <2> QED BY <2>3, <2>4, <2>5, CommittedStep
<1> QED BY <1>1, <1>2

\* commit_snapshot changes only what concerns snapshots.
LEMMA CommitSnapshotStep ==
  ASSUME NEW s, GoodState(s), NEW index \in Nat, NEW cmd, IsCommand(cmd),
         cmd.type = "commit_snapshot", cmd.id \notin DOMAIN s.applied
  PROVE  GoodStep(s, ApplyCommitSnapshot(s, index, cmd))
<1> DEFINE m == cmd.payload
           t == [s EXCEPT !.snapshots = @ \cup {m}, !.active = {m},
                          !.activeIndex = index]
<1>1. /\ IsState(t) /\ t.applied = s.applied /\ t.revision = s.revision
      /\ EpochStep(s, t)
  BY DEF GoodState, IsState, EpochStep, IsCommand
<1>2. \/ ApplyCommitSnapshot(s, index, cmd) = Rejected(s)
      \/ ApplyCommitSnapshot(s, index, cmd) = Faulted(s)
      \/ ApplyCommitSnapshot(s, index, cmd) = Committed(t, cmd)
  BY DEF ApplyCommitSnapshot
<1> HIDE DEF t
<1>3. GoodState(t) /\ cmd.id \notin DOMAIN t.applied /\ cmd.id \in IDs
  BY <1>1 DEF GoodState, IsCommand
<1>4. GoodStep(s, Committed(t, cmd))
  BY <1>1, <1>3, CommittedStep
<1> QED BY <1>2, <1>4, RefusedStep

\* activate_capabilities stores a normalised gate.
LEMMA ActivateStep ==
  ASSUME NEW s, GoodState(s), NEW cmd, IsCommand(cmd),
         cmd.type = "activate_capabilities", cmd.id \notin DOMAIN s.applied
  PROVE  GoodStep(s, ApplyActivateCapabilities(s, cmd))
<1> DEFINE g == NormalizeGate(cmd.payload)
           t == [s EXCEPT !.gate = g]
<1>1. IsGate(g)
  <2>1. IsGate(cmd.payload)
    BY DEF IsCommand
  <2> QED BY <2>1, NormalizeGateType DEF IsGate
<1>2. \/ ApplyActivateCapabilities(s, cmd) = Rejected(s)
      \/ ApplyActivateCapabilities(s, cmd) = Committed(t, cmd)
  BY DEF ApplyActivateCapabilities
<1> HIDE DEF g
<1>3. /\ IsState(t) /\ t.applied = s.applied /\ t.revision = s.revision
      /\ EpochStep(s, t)
  BY <1>1 DEF GoodState, IsState, EpochStep
<1> HIDE DEF t
<1>4. GoodState(t) /\ cmd.id \notin DOMAIN t.applied /\ cmd.id \in IDs
  BY <1>3 DEF GoodState, IsCommand
<1>5. GoodStep(s, Committed(t, cmd))
  BY <1>3, <1>4, CommittedStep
<1> QED BY <1>2, <1>5, RefusedStep

\* Apply on a healthy replica takes a good state to a good state.
LEMMA OutcomeStep ==
  ASSUME NEW s, GoodState(s), NEW index \in Nat, NEW raw, IsCommand(raw)
  PROVE  GoodStep(s, Outcome(s, index, raw))
<1> DEFINE cmd == Normalized(raw)
<1>1. IsCommand(cmd)
  BY NormalizedType
<1> HIDE DEF cmd
<1>2. CASE cmd.id \in DOMAIN s.applied
  <2>1. GoodStep(s, ApplyDuplicate(s, cmd))
    <3>1. s.applied[cmd.id].revision \in Nat
      BY <1>2 DEF GoodState, IsState
    <3> QED BY <3>1, UnchangedStep, RefusedStep DEF ApplyDuplicate
  <2>2. \/ Outcome(s, index, raw) = Faulted(s)
        \/ Outcome(s, index, raw) = ApplyDuplicate(s, cmd)
    BY <1>2 DEF Outcome, cmd
  <2> QED BY <2>1, <2>2, RefusedStep
<1>3. CASE cmd.id \notin DOMAIN s.applied
  <2>1. GoodStep(s, ApplyByType(s, index, cmd))
    BY <1>1, <1>3, AcquireStep, PutStep, CommitSnapshotStep, ActivateStep
    DEF ApplyByType, IsCommand
  <2>2. \/ Outcome(s, index, raw) = Faulted(s)
        \/ Outcome(s, index, raw) = Rejected(s)
        \/ Outcome(s, index, raw) = ApplyByType(s, index, cmd)
    BY <1>3 DEF Outcome, cmd
  <2> QED BY <2>1, <2>2, RefusedStep
<1> QED BY <1>2, <1>3

-----------------------------------------------------------------------------
(* The calls.                                                              *)

\* A call is an append of a well-typed command by the current Raft leader.
Appends == \E cmd : IsCommand(cmd) /\ raftLeader \in Nodes /\ Submit(cmd)

\* What two reads of the state return.
LEMMA ReadsType ==
  ASSUME TypeOK, NEW r \in Reads
  PROVE  /\ r[1] \in 1..Len(hist) /\ r[2] \in 1..Len(hist)
         /\ IsState(View(r[1])) /\ IsState(View(r[2]))
BY DEF TypeOK, Reads, Recent, View

\* The payloads of each type of command.
IsPayload(type, p) ==
  /\ type = "acquire_leadership" => p.node \in Nodes /\ p.term \in 1..MaxTerm
  /\ type \in {"put_metadata", "put_metadata_batch"} =>
       IsMap(p, Keys \cup {EmptyKey}, Vals)
  /\ type = "commit_snapshot" => p.sequence \in 0..MaxSequence
  /\ type = "activate_capabilities" => IsGate(p)

\* A command built from a state carries the versions of its gate.
LEMMA CommandType ==
  ASSUME NEW id \in IDs,
         NEW type \in {"acquire_leadership", "put_metadata",
                       "put_metadata_batch", "commit_snapshot",
                       "activate_capabilities"},
         NEW s, IsState(s), NEW expected, expected \subseteq Nat,
         NEW epoch \in Nat, NEW payload, IsPayload(type, payload)
  PROVE  IsCommand(Command(id, type, s, expected, epoch, payload))
<1> DEFINE c == Command(id, type, s, expected, epoch, payload)
<1>1. /\ DOMAIN c = {"id", "type", "protocol", "command", "expected",
                     "epoch", "payload"}
      /\ c.id = id /\ c.type = type /\ c.payload = payload
      /\ c.protocol \in Nat /\ c.command \in Nat /\ c.epoch \in Nat
      /\ c.expected \subseteq Nat
  BY DEF Command, IsState, IsGate
<1> HIDE DEF c
<1>2. IsCommand(c)
  BY <1>1 DEF IsPayload, IsCommand
<1> QED BY <1>2 DEF c

\* Only a node of the cluster gets a call through.
LEMMA LetThroughByNode ==
  ASSUME TypeOK, NEW c, NEW r \in ReadsLetThrough(c)
  PROVE  r \in Reads /\ raftLeader \in Nodes
<1>1. r \in Reads /\ LetThrough(c, r[1])
  BY DEF ReadsLetThrough
<1>2. r[1] \in 1..Len(hist)
  BY <1>1, ReadsType
<1>3. PICK v \in 1..r[1] : VerifiedAt(raftLeader, c, v)
  BY <1>1 DEF LetThrough
<1>4. PICK k \in 1..(v - 1) : log[k].by = raftLeader
  BY <1>3 DEF VerifiedAt
<1>5. k \in 1..Len(log)
  <2>1. Len(log) \in Nat /\ Len(hist) = Len(log) + 1
    BY AppendFacts DEF TypeOK
  <2> QED BY <1>2, <2>1
<1> QED BY <1>1, <1>4, <1>5 DEF TypeOK

\* acquireLeadership appends a well-typed command.
LEMMA AcquireAppends ==
  ASSUME TypeOK, NEW t \in 1..raftTerm, NEW c, AcquireLeadership(t, c)
  PROVE  Appends
<1>1. raftLeader \in Nodes /\ t \in 1..MaxTerm
  BY BoundsAssumption DEF TypeOK
<1> DEFINE id == <<"acquire", t, raftLeader>>
           p == [node |-> raftLeader, term |-> t]
<1>2. PICK r \in Reads :
        Submit(Command(id, "acquire_leadership", View(r[2]), {}, 0, p))
  BY DEF AcquireLeadership
<1>3. id \in IDs
  BY <1>1 DEF IDs
<1>4. IsPayload("acquire_leadership", p)
  BY <1>1 DEF IsPayload
<1> HIDE DEF id, p
<1>5. IsCommand(Command(id, "acquire_leadership", View(r[2]), {}, 0, p))
  <2>1. IsState(View(r[2]))
    BY ReadsType
  <2> QED BY <1>3, <1>4, <2>1, CommandType
<1> QED BY <1>1, <1>2, <1>5 DEF Appends

\* Recording the initial members appends a well-typed command.
LEMMA InitializeAppends ==
  ASSUME TypeOK, NEW t \in 1..raftTerm, InitializeMembers(t)
  PROVE  Appends
<1>1. raftLeader \in Nodes
  BY BoundsAssumption DEF TypeOK
<1> DEFINE id == <<"initialize">>
           w == Entry(MembersKey, MembersValue)
<1>2. PICK r \in Reads :
        Submit(Command(id, "put_metadata", View(r[1]), {View(r[2]).revision},
                       View(r[2]).epoch, w))
  BY DEF InitializeMembers
<1>3. id \in IDs
  BY DEF IDs
<1>4. IsPayload("put_metadata", w)
  BY KeysAssumption DEF IsPayload, IsMap, Entry
<1> HIDE DEF id, w
<1>5. IsCommand(Command(id, "put_metadata", View(r[1]), {View(r[2]).revision},
                        View(r[2]).epoch, w))
  <2>1. /\ IsState(View(r[1]))
        /\ View(r[2]).revision \in Nat /\ View(r[2]).epoch \in Nat
    BY ReadsType DEF IsState
  <2>2. {View(r[2]).revision} \subseteq Nat
    BY <2>1
  <2> QED BY <1>3, <1>4, <2>1, <2>2, CommandType
<1> QED BY <1>1, <1>2, <1>5 DEF Appends

\* PutMetadata and PutMetadataBatch append a well-typed command.
LEMMA PutAppends ==
  ASSUME TypeOK, NEW id \in CommandIDs, NEW w \in Writes, NEW n \in Revisions,
         NEW c, PutMetadata(id, w, n, c) \/ PutMetadataBatch(id, w, n, c)
  PROVE  Appends
<1>1. PICK type \in {"put_metadata", "put_metadata_batch"},
           r \in ReadsLetThrough(c) :
        Submit(Command(id, type, View(r[2]), {n}, View(r[1]).epoch, w))
  BY DEF PutMetadata, PutMetadataBatch
<1>2. r \in Reads /\ raftLeader \in Nodes
  BY LetThroughByNode
<1>3. id \in IDs /\ n \in Nat
  <2>1. Len(hist) \in 1..Len(hist)
    BY AppendFacts DEF TypeOK
  <2>2. View(Len(hist)).revision \in Nat
    BY <2>1 DEF TypeOK, View, IsState
  <2> QED BY <2>2 DEF IDs, Revisions
<1>4. IsPayload(type, w)
  BY WritesAssumption DEF IsPayload
<1>5. IsCommand(Command(id, type, View(r[2]), {n}, View(r[1]).epoch, w))
  <2>1. IsState(View(r[2])) /\ View(r[1]).epoch \in Nat
    BY <1>2, ReadsType DEF IsState
  <2>2. {n} \subseteq Nat
    BY <1>3
  <2> QED BY <1>3, <1>4, <2>1, <2>2, CommandType
<1> QED BY <1>1, <1>2, <1>5 DEF Appends

\* PublishSnapshot appends a well-typed command.
LEMMA PublishAppends ==
  ASSUME TypeOK, NEW id \in CommandIDs, NEW d \in Drafts, NEW e, NEW c,
         PublishSnapshot(id, d, e, c)
  PROVE  Appends
<1> DEFINE m == [cluster |-> d.cluster, epoch |-> e, sequence |-> d.sequence,
                 schema |-> d.schema, datasets |-> d.datasets]
<1>1. PICK r \in Reads, q \in Reads :
        /\ LetThrough(c, q[1])
        /\ Submit(Command(id, "commit_snapshot", View(r[2]),
                          {View(r[1]).revision}, View(r[1]).epoch, m))
  BY DEF PublishSnapshot
<1>2. m.sequence \in 0..MaxSequence
  BY DraftsAssumption
<1> HIDE DEF m
<1>3. /\ raftLeader \in Nodes
      /\ id \in IDs /\ IsPayload("commit_snapshot", m)
  BY <1>1, <1>2, LetThroughByNode DEF ReadsLetThrough, IDs, IsPayload
<1>4. IsCommand(Command(id, "commit_snapshot", View(r[2]),
                        {View(r[1]).revision}, View(r[1]).epoch, m))
  <2>1. /\ IsState(View(r[2]))
        /\ View(r[1]).revision \in Nat /\ View(r[1]).epoch \in Nat
    BY ReadsType DEF IsState
  <2>2. {View(r[1]).revision} \subseteq Nat
    BY <2>1
  <2> QED BY <1>3, <2>1, <2>2, CommandType
<1> QED BY <1>1, <1>3, <1>4 DEF Appends

\* ActivateCapabilities appends a well-typed command with a normalised gate.
LEMMA ActivateAppends ==
  ASSUME TypeOK, NEW id \in CommandIDs, NEW g \in Gates, NEW c, NEW voters,
         ActivateCapabilities(id, g, c, voters)
  PROVE  Appends
<1> DEFINE p == NormalizeGate(g)
<1>1. PICK r \in ReadsLetThrough(c) :
        Submit(Command(id, "activate_capabilities", View(r[2]),
                       {View(r[1]).revision}, View(r[1]).epoch, p))
  BY DEF ActivateCapabilities
<1>2. IsPayload("activate_capabilities", p)
  <2>1. /\ g.protocol \in Nat /\ g.command \in Nat /\ g.manifest \in Nat
        /\ g.minLeader \in Nat /\ g.minVoter \in Nat
    BY GatesAssumption
  <2> QED BY <2>1, NormalizeGateType DEF IsPayload
<1> HIDE DEF p
<1>3. r \in Reads /\ raftLeader \in Nodes /\ id \in IDs
  BY LetThroughByNode DEF IDs
<1>4. IsCommand(Command(id, "activate_capabilities", View(r[2]),
                        {View(r[1]).revision}, View(r[1]).epoch, p))
  <2>1. /\ IsState(View(r[2]))
        /\ View(r[1]).revision \in Nat /\ View(r[1]).epoch \in Nat
    BY <1>3, ReadsType DEF IsState
  <2>2. {View(r[1]).revision} \subseteq Nat
    BY <2>1
  <2> QED BY <1>2, <1>3, <2>1, <2>2, CommandType
<1> QED BY <1>1, <1>3, <1>4 DEF Appends

\* Every step is an election or an append of a well-typed command.
LEMMA NextAppends ==
  ASSUME TypeOK, Next
  PROVE  (\E n \in Nodes : Election(n)) \/ Appends
BY AcquireAppends, InitializeAppends, PutAppends, PublishAppends,
   ActivateAppends DEF Next

-----------------------------------------------------------------------------
(* The inductive invariant.                                                *)

\* A later state with the same revision is the same state.
RevisionNamesState ==
  \A i, j \in 1..Len(hist) : i <= j => RevisionStep(View(i), View(j))

IndInv ==
  TypeOK /\ RevisionCountsCommands /\ EpochHasOneOwner /\ RevisionNamesState

\* Every state of the history is good.
LEMMA HistoryIsGood ==
  ASSUME IndInv, NEW i \in 1..Len(hist)
  PROVE  GoodState(View(i))
<1>1. IsState(View(i))
  BY DEF IndInv, TypeOK, View
<1>2. Numbered(View(i).applied, View(i).revision)
  BY DEF IndInv, RevisionCountsCommands, Numbered
<1> QED BY <1>1, <1>2 DEF GoodState

\* The initial state is good and satisfies the invariant.
LEMMA InitInv == Init => IndInv
<1> SUFFICES ASSUME Init PROVE IndInv
  OBVIOUS
<1> DEFINE h == [state |-> InitialState, fault |-> 0]
<1>1. IsState(InitialState)
  <2>1. IsGate(LegacyCapabilityGate)
    BY DEF LegacyCapabilityGate, IsGate, GateFields, LegacyVersion
  <2> QED BY <2>1 DEF InitialState, IsState, IsMap
<1>2. Numbered(InitialState.applied, 0)
  BY DEF InitialState, Numbered
<1>3. InitialState.revision = 0
  BY DEF InitialState
<1>4. h.state = InitialState /\ h.fault = 0
  OBVIOUS
<1>5. hist = <<h>> /\ log = <<>> /\ raftTerm = 0 /\ raftLeader = NoNode
  BY DEF Init
<1> HIDE DEF h
<1>6. Len(hist) = 1 /\ hist[1] = h /\ Len(log) = 0
  BY <1>5
<1>7. IsSequence(hist) /\ IsSequence(log)
  <2>1. hist \in Seq({h}) /\ log \in Seq({h})
    BY <1>5
  <2> QED BY <2>1, SequenceOverItsElements
<1>8. TypeOK
  BY <1>1, <1>4, <1>5, <1>6, <1>7, NodesAssumption, BoundsAssumption DEF TypeOK
<1>9. RevisionCountsCommands
  <2>1. \A i \in 1..Len(hist) : View(i) = InitialState
    BY <1>4, <1>6 DEF View
  <2>2. \A i \in 1..Len(hist) : Numbered(View(i).applied, View(i).revision)
    BY <1>2, <1>3, <2>1
  <2> QED BY <2>2 DEF RevisionCountsCommands, Numbered
<1>10. EpochHasOneOwner
  BY <1>1, <1>4, <1>6 DEF EpochHasOneOwner, View, IsState
<1>11. RevisionNamesState
  BY <1>3, <1>4, <1>6 DEF RevisionNamesState, RevisionStep, View
<1> QED BY <1>8, <1>9, <1>10, <1>11 DEF IndInv

\* A submitted command takes the last state of the history to the new one.
LEMMA SubmitStep ==
  ASSUME IndInv, NEW cmd, IsCommand(cmd), raftLeader \in Nodes, Submit(cmd)
  PROVE  IndInv'
<1> DEFINE index == Len(log) + 1
           last == hist[index]
           r == ApplyTo(last, index, cmd)
           entry == [command |-> cmd, by |-> raftLeader, at |-> raftTerm,
                     reply |-> Reply(r)]
           h == [state |-> r.state,
                 fault |-> IF r.verdict = "fault" THEN index ELSE last.fault]
<1>1. /\ log' = Append(log, entry) /\ hist' = Append(hist, h)
      /\ raftTerm' = raftTerm /\ raftLeader' = raftLeader
  BY DEF Submit
<1>2. /\ Len(log) \in Nat /\ Len(hist) = index /\ index \in 1..Len(hist)
      /\ IsSequence(log) /\ IsSequence(hist)
  BY AppendFacts DEF IndInv, TypeOK
<1>3. GoodStep(View(index), r)
  <2>1. GoodState(View(index)) /\ index \in Nat
    BY <1>2, HistoryIsGood
  <2> QED BY <2>1, OutcomeStep, RefusedStep DEF ApplyTo, View
<1>4. last.fault \in 0..(index - 1)
  BY <1>2 DEF IndInv, TypeOK
<1>5. h.state = r.state /\ h.fault \in 0..index
  BY <1>2, <1>4
<1>6. /\ entry.command = cmd /\ entry.by = raftLeader /\ entry.at = raftTerm
      /\ entry.reply \in [ok : BOOLEAN, revision : Nat]
  BY <1>3 DEF GoodStep, Reply
<1> HIDE DEF entry, h, r, last
<1>7. /\ IsSequence(log') /\ Len(log') = index /\ log'[index] = entry
      /\ \A i \in 1..Len(log) : log'[i] = log[i]
  BY <1>1, <1>2, AppendFacts
<1>8. /\ IsSequence(hist') /\ Len(hist') = index + 1
      /\ hist'[index + 1] = h
      /\ \A i \in 1..index : hist'[i] = hist[i]
  BY <1>1, <1>2, AppendFacts
<1>9. TypeOK'
  <2>1. \A i \in 1..Len(log') :
          /\ IsCommand(log'[i].command)
          /\ log'[i].by \in Nodes
          /\ log'[i].at \in 1..MaxTerm
          /\ log'[i].reply \in [ok : BOOLEAN, revision : Nat]
    <3>1. raftTerm \in 1..MaxTerm
      BY NodesAssumption, BoundsAssumption DEF IndInv, TypeOK
    <3> SUFFICES ASSUME NEW i \in 1..Len(log')
                 PROVE  /\ IsCommand(log'[i].command)
                        /\ log'[i].by \in Nodes
                        /\ log'[i].at \in 1..MaxTerm
                        /\ log'[i].reply \in [ok : BOOLEAN, revision : Nat]
      OBVIOUS
    <3>2. CASE i = index
      BY <3>1, <3>2, <1>6, <1>7
    <3>3. CASE i \in 1..Len(log)
      BY <3>3, <1>7 DEF IndInv, TypeOK
    <3> QED BY <3>2, <3>3, <1>2, <1>7
  <2>2. \A i \in 1..Len(hist') :
          IsState(hist'[i].state) /\ hist'[i].fault \in 0..(i - 1)
    <3> SUFFICES ASSUME NEW i \in 1..Len(hist')
                 PROVE  IsState(hist'[i].state) /\ hist'[i].fault \in 0..(i - 1)
      OBVIOUS
    <3>1. CASE i = index + 1
      BY <3>1, <1>2, <1>3, <1>5, <1>8 DEF GoodStep, GoodState
    <3>2. CASE i \in 1..index
      BY <3>2, <1>2, <1>8 DEF IndInv, TypeOK
    <3> QED BY <3>1, <3>2, <1>2, <1>8
  <2> QED BY <1>1, <1>2, <1>7, <1>8, <2>1, <2>2 DEF IndInv, TypeOK
<1>10. \A i \in 1..index : hist'[i].state = View(i)
  BY <1>8 DEF View
<1>11. hist'[index + 1].state = r.state
  BY <1>5, <1>8 DEF View
<1>12. RevisionCountsCommands'
  <2>1. \A i \in 1..Len(hist') :
          Numbered(hist'[i].state.applied, hist'[i].state.revision)
    <3> SUFFICES ASSUME NEW i \in 1..Len(hist')
                 PROVE  Numbered(hist'[i].state.applied, hist'[i].state.revision)
      OBVIOUS
    <3>1. CASE i = index + 1
      BY <3>1, <1>3, <1>11 DEF GoodStep, GoodState
    <3>2. CASE i \in 1..index
      BY <3>2, <1>2, <1>10, HistoryIsGood DEF GoodState
    <3> QED BY <3>1, <3>2, <1>2, <1>8
  <2> QED BY <2>1 DEF RevisionCountsCommands, Numbered, View
<1>13. EpochHasOneOwner'
  <2> SUFFICES ASSUME NEW i \in 1..Len(hist'), NEW j \in 1..Len(hist'), i <= j
               PROVE  EpochStep(hist'[i].state, hist'[j].state)
    BY DEF EpochHasOneOwner, EpochStep, View
  <2>1. i \in 1..index \/ i = index + 1
    BY <1>2, <1>8
  <2>2. CASE j \in 1..index
    <3>1. i \in 1..index
      BY <2>2, <1>2, <1>8
    <3> QED BY <3>1, <2>2, <1>2, <1>10 DEF IndInv, EpochHasOneOwner, EpochStep
  <2>3. CASE j = index + 1 /\ i = index + 1
    BY <2>3, <1>3, <1>11 DEF GoodStep, GoodState, IsState, EpochStep
  <2>4. CASE j = index + 1 /\ i \in 1..index
    <3>1. EpochStep(View(i), View(index))
      BY <2>4, <1>2 DEF IndInv, EpochHasOneOwner, EpochStep
    <3>2. EpochStep(View(index), r.state)
      BY <1>3 DEF GoodStep
    <3>3. \A s \in {View(i), View(index), r.state} : s.epoch \in Nat /\ s.term \in Nat
      BY <2>4, <1>2, <1>3, HistoryIsGood DEF GoodStep, GoodState, IsState
    <3>4. EpochStep(View(i), r.state)
      BY <3>1, <3>2, <3>3 DEF EpochStep
    <3> QED BY <3>4, <2>4, <1>10, <1>11
  <2> QED BY <2>1, <2>2, <2>3, <2>4, <1>2, <1>8
<1>14. RevisionNamesState'
  <2> SUFFICES ASSUME NEW i \in 1..Len(hist'), NEW j \in 1..Len(hist'), i <= j
               PROVE  RevisionStep(hist'[i].state, hist'[j].state)
    BY DEF RevisionNamesState, View
  <2>1. i \in 1..index \/ i = index + 1
    BY <1>2, <1>8
  <2>2. CASE j \in 1..index
    <3>1. i \in 1..index
      BY <2>2, <1>2, <1>8
    <3> QED BY <3>1, <2>2, <1>2, <1>10 DEF IndInv, RevisionNamesState
  <2>3. CASE j = index + 1 /\ i = index + 1
    BY <2>3, <1>3, <1>11 DEF GoodStep, GoodState, IsState, RevisionStep
  <2>4. CASE j = index + 1 /\ i \in 1..index
    <3>1. RevisionStep(View(i), View(index))
      BY <2>4, <1>2 DEF IndInv, RevisionNamesState
    <3>2. RevisionStep(View(index), r.state)
      BY <1>3 DEF GoodStep
    <3>3. \A s \in {View(i), View(index), r.state} : s.revision \in Nat
      BY <2>4, <1>2, <1>3, HistoryIsGood DEF GoodStep, GoodState, IsState
    <3>4. RevisionStep(View(i), r.state)
      BY <3>1, <3>2, <3>3 DEF RevisionStep
    <3> QED BY <3>4, <2>4, <1>10, <1>11
  <2> QED BY <2>1, <2>2, <2>3, <2>4, <1>2, <1>8
<1> QED BY <1>9, <1>12, <1>13, <1>14 DEF IndInv

\* Every step keeps the invariant.
LEMMA NextInv == IndInv /\ [Next]_vars => IndInv'
<1> SUFFICES ASSUME IndInv, [Next]_vars PROVE IndInv'
  OBVIOUS
<1> USE DEF IndInv, RevisionCountsCommands, EpochHasOneOwner,
            RevisionNamesState, View
<1>1. CASE UNCHANGED vars
  <2>1. /\ raftTerm' = raftTerm /\ raftLeader' = raftLeader
        /\ log' = log /\ hist' = hist
    BY <1>1 DEF vars
  <2>2. TypeOK'
    BY <2>1 DEF TypeOK
  <2> QED BY <2>1, <2>2
<1>2. ASSUME NEW n \in Nodes, Election(n) PROVE IndInv'
  <2>1. /\ raftTerm' = raftTerm + 1 /\ raftTerm < MaxTerm
        /\ raftLeader' = n /\ log' = log /\ hist' = hist
    BY <1>2 DEF Election
  <2>2. raftTerm' \in 1..MaxTerm /\ raftLeader' \in Nodes
    BY <2>1, BoundsAssumption DEF TypeOK
  <2>3. TypeOK'
    BY <2>1, <2>2, NodesAssumption DEF TypeOK
  <2> QED BY <2>1, <2>3
<1>3. CASE Appends
  BY <1>3, SubmitStep DEF Appends
<1> QED BY <1>1, <1>2, <1>3, NextAppends

\* The inductive invariant holds in every reachable state.
THEOREM Inductive == Spec => []IndInv
BY InitInv, NextInv, PTL DEF Spec

\* Every state and every command has its type, whatever the nodes, ids, keys,
\* manifests, gates and bounds: in particular no operation of node.go ever
\* puts a gate with a zero version into the state machine.
THEOREM TypeCorrect == Spec => []TypeOK
<1>1. IndInv => TypeOK
  BY DEF IndInv
<1> QED BY <1>1, Inductive, PTL

\* The applied commands are numbered 1..revision, without gap or repetition
\* (consensus.go:174-180, 300-301).
THEOREM RevisionsAreCounted == Spec => []RevisionCountsCommands
<1>1. IndInv => RevisionCountsCommands
  BY DEF IndInv
<1> QED BY <1>1, Inductive, PTL

\* Leadership epochs are fencing tokens: they only grow, and one epoch has one
\* owner and one term for good (consensus.go:187-202).
THEOREM EpochsAreExclusive == Spec => []EpochHasOneOwner
<1>1. IndInv => EpochHasOneOwner
  BY DEF IndInv
<1> QED BY <1>1, Inductive, PTL

-----------------------------------------------------------------------------
(* What each entry of the log did.                                         *)

Puts == {"put_metadata", "put_metadata_batch"}

\* The command c, at this index of the log, takes effect on s and leaves t.
Effective(s, index, c, t) ==
  /\ c.id \notin DOMAIN s.applied
  /\ \A r \in c.expected : r = s.revision
  /\ t.revision = s.revision + 1
  /\ DOMAIN t.applied = DOMAIN s.applied \cup {c.id}
  /\ t.applied[c.id].revision = t.revision
  /\ t.applied[c.id].digest = {Digest(c)}
  /\ \A id \in DOMAIN s.applied : t.applied[id] = s.applied[id]
  /\ IF c.type \in Puts
     THEN t.values = Overwrite(s.values, c.payload)
     ELSE t.values = s.values
  /\ IF c.type = "commit_snapshot"
     THEN /\ t.active = {c.payload}
          /\ t.activeIndex = index
          /\ t.snapshots = s.snapshots \cup {c.payload}
          /\ MonotonicSequence(s.gate) =>
               IsNextSequence(s.active, c.payload.sequence)
     ELSE /\ t.active = s.active
          /\ t.activeIndex = s.activeIndex
          /\ t.snapshots = s.snapshots

\* The command changes nothing; if it is accepted it repeats an earlier one.
Ineffective(s, c, reply, t) ==
  /\ t = s
  /\ reply.ok =>
       /\ c.id \in DOMAIN s.applied
       /\ s.applied[c.id].digest \subseteq {Digest(c)}
       /\ s.applied[c.id].revision = reply.revision

\* What a command c that was given this reply made of s.
Meaning(s, index, c, reply, t) ==
  \/ Effective(s, index, c, t) /\ reply.ok /\ reply.revision = t.revision
  \/ Ineffective(s, c, reply, t)

\* The same, of the result r of Apply.
Means(s, index, c, r) == Meaning(s, index, c, Reply(r), r.state)

\* The tail of Apply, after an effect on values, snapshots, epoch or gate.
LEMMA CommittedMeaning ==
  ASSUME NEW s, NEW t, IsState(t), t.revision = s.revision,
         t.applied = s.applied, NEW cmd
  PROVE  LET r == Committed(t, cmd)
             u == r.state
         IN  /\ r.verdict = "ok" /\ r.revision = u.revision
             /\ u.revision = s.revision + 1
             /\ DOMAIN u.applied = DOMAIN s.applied \cup {cmd.id}
             /\ u.applied[cmd.id].revision = u.revision
             /\ u.applied[cmd.id].digest = {Digest(cmd)}
             /\ \A id \in DOMAIN s.applied :
                  id # cmd.id => u.applied[id] = s.applied[id]
             /\ u.values = t.values /\ u.snapshots = t.snapshots
             /\ u.active = t.active /\ u.activeIndex = t.activeIndex
<1> DEFINE e == [revision |-> t.revision + 1, digest |-> {Digest(cmd)}]
           a == Overwrite(t.applied, Entry(cmd.id, e))
           u == [t EXCEPT !.revision = @ + 1, !.applied = a]
<1>1. e.revision = t.revision + 1 /\ e.digest = {Digest(cmd)}
  OBVIOUS
<1>2. Committed(t, cmd) = Result(u, "ok", t.revision + 1)
  BY DEF Committed
<1> HIDE DEF e
<1>3. /\ DOMAIN a = DOMAIN t.applied \cup {cmd.id}
      /\ a[cmd.id] = e
      /\ \A id \in DOMAIN t.applied : id # cmd.id => a[id] = t.applied[id]
  BY DEF Overwrite, Entry
<1> HIDE DEF a
<1>4. /\ u.revision = t.revision + 1 /\ u.applied = a
      /\ u.values = t.values /\ u.snapshots = t.snapshots
      /\ u.active = t.active /\ u.activeIndex = t.activeIndex
  BY DEF IsState
<1> HIDE DEF u
<1>5. /\ Committed(t, cmd).state = u /\ Committed(t, cmd).verdict = "ok"
      /\ Committed(t, cmd).revision = t.revision + 1
  BY <1>2 DEF Result
<1> QED BY <1>1, <1>3, <1>4, <1>5

\* A command that is committed after its effect takes effect.
LEMMA CommittedIsEffective ==
  ASSUME NEW s, NEW t, IsState(t), t.revision = s.revision,
         t.applied = s.applied, NEW index, NEW cmd,
         cmd.id \notin DOMAIN s.applied, \A r \in cmd.expected : r = s.revision,
         IF cmd.type \in Puts
         THEN t.values = Overwrite(s.values, cmd.payload)
         ELSE t.values = s.values,
         IF cmd.type = "commit_snapshot"
         THEN /\ t.active = {cmd.payload}
              /\ t.activeIndex = index
              /\ t.snapshots = s.snapshots \cup {cmd.payload}
              /\ MonotonicSequence(s.gate) =>
                   IsNextSequence(s.active, cmd.payload.sequence)
         ELSE /\ t.active = s.active
              /\ t.activeIndex = s.activeIndex
              /\ t.snapshots = s.snapshots
  PROVE  Means(s, index, cmd, Committed(t, cmd))
<1> DEFINE r == Committed(t, cmd)
           u == r.state
<1>1. /\ r.verdict = "ok" /\ r.revision = u.revision
      /\ u.revision = s.revision + 1
      /\ DOMAIN u.applied = DOMAIN s.applied \cup {cmd.id}
      /\ u.applied[cmd.id].revision = u.revision
      /\ u.applied[cmd.id].digest = {Digest(cmd)}
      /\ \A id \in DOMAIN s.applied :
           id # cmd.id => u.applied[id] = s.applied[id]
      /\ u.values = t.values /\ u.snapshots = t.snapshots
      /\ u.active = t.active /\ u.activeIndex = t.activeIndex
  BY CommittedMeaning
<1> HIDE DEF r
<1>2. Effective(s, index, cmd, u)
  BY <1>1 DEF Effective
<1>3. Reply(r).ok /\ Reply(r).revision = u.revision
  BY <1>1 DEF Reply
<1> QED BY <1>2, <1>3 DEF Meaning, Means, r

\* A refusal or a fault changes nothing.
LEMMA RefusedMeaning ==
  ASSUME NEW s, NEW index, NEW cmd
  PROVE  Means(s, index, cmd, Rejected(s)) /\ Means(s, index, cmd, Faulted(s))
BY DEF Rejected, Faulted, Result, Reply, Means, Meaning, Ineffective

\* A command id that was applied before changes nothing.
LEMMA DuplicateMeaning ==
  ASSUME NEW s, NEW index, NEW cmd, cmd.id \in DOMAIN s.applied
  PROVE  Means(s, index, cmd, ApplyDuplicate(s, cmd))
<1>1. CASE s.applied[cmd.id].digest \subseteq {Digest(cmd)}
  BY <1>1 DEF ApplyDuplicate, Result, Reply, Means, Meaning, Ineffective
<1>2. CASE ~(s.applied[cmd.id].digest \subseteq {Digest(cmd)})
  BY <1>2, RefusedMeaning DEF ApplyDuplicate
<1> QED BY <1>1, <1>2

\* What a new command of each type makes of the state.
LEMMA ByTypeMeaning ==
  ASSUME NEW s, IsState(s), NEW index \in Nat, NEW cmd, IsCommand(cmd),
         cmd.id \notin DOMAIN s.applied, \A r \in cmd.expected : r = s.revision
  PROVE  Means(s, index, cmd, ApplyByType(s, index, cmd))
<1> DEFINE p == cmd.payload
           r == ApplyByType(s, index, cmd)
<1> SUFFICES Means(s, index, cmd, r)
  OBVIOUS
<1>1. CASE cmd.type = "acquire_leadership"
  <2> DEFINE t == [s EXCEPT !.epoch = @ + 1, !.term = p.term, !.owner = p.node]
  <2>1. \/ r = Rejected(s) \/ r = Committed(s, cmd) \/ r = Committed(t, cmd)
    BY <1>1 DEF ApplyByType, ApplyAcquireLeadership
  <2>2. /\ IsState(t) /\ t.applied = s.applied /\ t.revision = s.revision
        /\ t.values = s.values /\ t.active = s.active
        /\ t.activeIndex = s.activeIndex /\ t.snapshots = s.snapshots
    BY <1>1, BoundsAssumption DEF IsState, IsCommand
  <2> HIDE DEF t, r
  <2>3. cmd.type \notin Puts /\ cmd.type # "commit_snapshot"
    BY <1>1 DEF Puts
  <2> QED BY <2>1, <2>2, <2>3, RefusedMeaning, CommittedIsEffective
<1>2. CASE cmd.type \in Puts
  <2> DEFINE v == Overwrite(s.values, p)
             t == [s EXCEPT !.values = v]
  <2>1. r = ApplyPutMetadata(s, cmd)
    BY <1>2 DEF ApplyByType, Puts
  <2>2. CASE Fenced(s, cmd) \/ DOMAIN p = {} \/ EmptyKey \in DOMAIN p
    BY <2>1, <2>2, RefusedMeaning DEF ApplyPutMetadata
  <2>3. CASE ~(Fenced(s, cmd) \/ DOMAIN p = {} \/ EmptyKey \in DOMAIN p)
    <3>1. IsMap(p, Keys \cup {EmptyKey}, Vals) /\ IsMap(s.values, Keys, Vals)
      BY <1>2 DEF IsCommand, IsState, Puts
    <3>2. IsMap(v, Keys, Vals)
      BY <2>3, <3>1 DEF IsMap, Overwrite
    <3>3. r = Committed(t, cmd)
      BY <2>1, <2>3 DEF ApplyPutMetadata
    <3> HIDE DEF v
    <3>4. /\ IsState(t) /\ t.applied = s.applied /\ t.revision = s.revision
          /\ t.values = v /\ t.active = s.active
          /\ t.activeIndex = s.activeIndex /\ t.snapshots = s.snapshots
      BY <3>2 DEF IsState
    <3> HIDE DEF t, r
    <3>5. cmd.type # "commit_snapshot"
      BY <1>2 DEF Puts
    <3> QED BY <1>2, <3>3, <3>4, <3>5, CommittedIsEffective DEF v
  <2> QED BY <2>2, <2>3
<1>3. CASE cmd.type = "commit_snapshot"
  <2> DEFINE t == [s EXCEPT !.snapshots = @ \cup {p}, !.active = {p},
                            !.activeIndex = index]
             next == MonotonicSequence(s.gate) =>
                       IsNextSequence(s.active, p.sequence)
  <2>1. \/ r = Rejected(s)
        \/ r = Faulted(s)
        \/ next /\ r = Committed(t, cmd)
    BY <1>3 DEF ApplyByType, ApplyCommitSnapshot
  <2>2. /\ IsState(t) /\ t.applied = s.applied /\ t.revision = s.revision
        /\ t.values = s.values /\ t.active = {p}
        /\ t.activeIndex = index /\ t.snapshots = s.snapshots \cup {p}
    BY <1>3 DEF IsState, IsCommand
  <2> HIDE DEF t, r
  <2>3. cmd.type \notin Puts
    BY <1>3 DEF Puts
  <2> QED BY <1>3, <2>1, <2>2, <2>3, RefusedMeaning, CommittedIsEffective
<1>4. CASE cmd.type = "activate_capabilities"
  <2> DEFINE g == NormalizeGate(p)
             t == [s EXCEPT !.gate = g]
  <2>1. IsGate(g)
    <3>1. IsGate(p)
      BY <1>4 DEF IsCommand
    <3> QED BY <3>1, NormalizeGateType DEF IsGate
  <2>2. \/ r = Rejected(s) \/ r = Committed(t, cmd)
    BY <1>4 DEF ApplyByType, ApplyActivateCapabilities
  <2> HIDE DEF g
  <2>3. /\ IsState(t) /\ t.applied = s.applied /\ t.revision = s.revision
        /\ t.values = s.values /\ t.active = s.active
        /\ t.activeIndex = s.activeIndex /\ t.snapshots = s.snapshots
    BY <2>1 DEF IsState
  <2> HIDE DEF t, r
  <2>4. cmd.type \notin Puts /\ cmd.type # "commit_snapshot"
    BY <1>4 DEF Puts
  <2> QED BY <2>2, <2>3, <2>4, RefusedMeaning, CommittedIsEffective
<1> QED BY <1>1, <1>2, <1>3, <1>4 DEF IsCommand, Puts

\* What Apply makes of any command, on a healthy replica or a halted one.
LEMMA ApplyMeaning ==
  ASSUME NEW h, IsState(h.state), NEW index \in Nat, NEW raw, IsCommand(raw)
  PROVE  Means(h.state, index, Normalized(raw), ApplyTo(h, index, raw))
<1> DEFINE s == h.state
           cmd == Normalized(raw)
           r == ApplyTo(h, index, raw)
<1> SUFFICES Means(s, index, cmd, r)
  OBVIOUS
<1>1. IsCommand(cmd)
  BY NormalizedType
<1> HIDE DEF cmd
<1>2. CASE cmd.id \in DOMAIN s.applied
  <2>1. \/ r = Rejected(s) \/ r = Faulted(s) \/ r = ApplyDuplicate(s, cmd)
    BY <1>2 DEF ApplyTo, Outcome, cmd
  <2> HIDE DEF r
  <2> QED BY <1>2, <2>1, RefusedMeaning, DuplicateMeaning
<1>3. CASE cmd.id \notin DOMAIN s.applied
  <2>1. \/ r = Rejected(s)
        \/ r = Faulted(s)
        \/ (\A e \in cmd.expected : e = s.revision) /\ r = ApplyByType(s, index, cmd)
    BY <1>3 DEF ApplyTo, Outcome, cmd
  <2> HIDE DEF r
  <2> QED BY <1>1, <1>3, <2>1, RefusedMeaning, ByTypeMeaning
<1> QED BY <1>2, <1>3

\* Every entry of the log did what its reply says, to the state before it.
LogMeaning ==
  \A i \in 1..Len(log) :
    Meaning(View(i), i, Sent(i), log[i].reply, View(i + 1))

\* A recorded command is recorded for good, with the same answer.
AppliedStep(s, t) ==
  \A id \in DOMAIN s.applied :
    id \in DOMAIN t.applied /\ t.applied[id] = s.applied[id]

AppliedGrows ==
  \A i, j \in 1..Len(hist) : i <= j => AppliedStep(View(i), View(j))

\* TookEffect tells the two meanings apart.
LEMMA EntryMeaning ==
  ASSUME LogMeaning, NEW i \in 1..Len(log)
  PROVE  IF TookEffect(i)
         THEN /\ Effective(View(i), i, Sent(i), View(i + 1))
              /\ log[i].reply.revision = View(i + 1).revision
         ELSE Ineffective(View(i), Sent(i), log[i].reply, View(i + 1))
BY DEF LogMeaning, Meaning, TookEffect, Effective, Ineffective

\* No entry disturbs what was recorded before it.
LEMMA MeaningKeepsApplied ==
  ASSUME NEW s, NEW i, NEW c, NEW reply, NEW t, Meaning(s, i, c, reply, t)
  PROVE  AppliedStep(s, t)
BY DEF Meaning, Effective, Ineffective, AppliedStep

\* The old entries of the log and of the history stay, and the new entry is
\* given its meaning.
LEMMA SubmitLog ==
  ASSUME IndInv, NEW cmd, IsCommand(cmd), Submit(cmd), NEW n, n = Len(log)
  PROVE  /\ n \in Nat /\ Len(log') = n + 1
         /\ Len(hist) = n + 1 /\ Len(hist') = n + 2
         /\ \A i \in 1..n : log'[i] = log[i]
         /\ \A i \in 1..n : Sent(i)' = Sent(i)
         /\ \A i \in 1..(n + 1) : View(i)' = View(i)
         /\ \A i \in 1..n : TookEffect(i)' <=> TookEffect(i)
         /\ Meaning(View(n + 1), n + 1, Sent(n + 1)', (log[n + 1].reply)',
                    View(n + 2)')
         /\ IsCommand(Sent(n + 1)')
<1> DEFINE last == hist[n + 1]
           r == ApplyTo(last, n + 1, cmd)
           entry == [command |-> cmd, by |-> raftLeader, at |-> raftTerm,
                     reply |-> Reply(r)]
           h == [state |-> r.state,
                 fault |-> IF r.verdict = "fault" THEN n + 1 ELSE last.fault]
<1>1. log' = Append(log, entry) /\ hist' = Append(hist, h)
  BY DEF Submit
<1>2. /\ n \in Nat /\ Len(hist) = n + 1 /\ n + 1 \in 1..Len(hist)
      /\ IsSequence(log) /\ IsSequence(hist)
  BY AppendFacts DEF IndInv, TypeOK
<1>3. Means(last.state, n + 1, Normalized(cmd), r)
  <2>1. IsState(last.state) /\ n + 1 \in Nat
    BY <1>2 DEF IndInv, TypeOK
  <2> QED BY <2>1, ApplyMeaning
<1>4. entry.command = cmd /\ entry.reply = Reply(r) /\ h.state = r.state
  OBVIOUS
<1> HIDE DEF entry, h, r
<1>5. /\ Len(log') = n + 1 /\ log'[n + 1] = entry
      /\ \A i \in 1..n : log'[i] = log[i]
  BY <1>1, <1>2, AppendFacts
<1>6. /\ Len(hist') = n + 2 /\ hist'[n + 2] = h
      /\ \A i \in 1..(n + 1) : hist'[i] = hist[i]
  BY <1>1, <1>2, AppendFacts
<1>7. \A i \in 1..(n + 1) : View(i)' = View(i)
  BY <1>6 DEF View
<1>8. \A i \in 1..n : Sent(i)' = Sent(i)
  BY <1>5 DEF Sent
<1>9. \A i \in 1..n : TookEffect(i)' <=> TookEffect(i)
  <2> SUFFICES ASSUME NEW i \in 1..n PROVE TookEffect(i)' <=> TookEffect(i)
    OBVIOUS
  <2>1. View(i)' = View(i) /\ Sent(i)' = Sent(i) /\ log'[i] = log[i]
    BY <1>2, <1>5, <1>7, <1>8
  <2> QED BY <2>1 DEF TookEffect
<1>10. /\ Sent(n + 1)' = Normalized(cmd) /\ View(n + 2)' = r.state
       /\ (log[n + 1].reply)' = Reply(r)
  BY <1>2, <1>4, <1>5, <1>6 DEF Sent, View
<1>11. Meaning(View(n + 1), n + 1, Sent(n + 1)', (log[n + 1].reply)',
               View(n + 2)')
  BY <1>3, <1>10 DEF Means, View
<1>12. IsCommand(Sent(n + 1)')
  BY <1>10, NormalizedType
<1> QED BY <1>2, <1>5, <1>6, <1>7, <1>8, <1>9, <1>11, <1>12

\* The new entry has its meaning too.
LEMMA SubmitKeepsMeaning ==
  ASSUME IndInv, LogMeaning, NEW cmd, IsCommand(cmd), Submit(cmd)
  PROVE  LogMeaning'
<1> PICK n : n = Len(log)
  OBVIOUS
<1> SUFFICES ASSUME NEW i \in 1..Len(log')
             PROVE  Meaning(View(i)', i, Sent(i)', (log[i].reply)',
                            View(i + 1)')
  BY DEF LogMeaning
<1>1. /\ n \in Nat /\ Len(log') = n + 1
      /\ \A k \in 1..n : log'[k] = log[k]
      /\ \A k \in 1..n : Sent(k)' = Sent(k)
      /\ \A k \in 1..(n + 1) : View(k)' = View(k)
      /\ Meaning(View(n + 1), n + 1, Sent(n + 1)', (log[n + 1].reply)',
                 View(n + 2)')
  BY SubmitLog
<1>2. CASE i = n + 1
  <2>1. n + 1 + 1 = n + 2 /\ n + 1 \in 1..(n + 1)
    BY <1>1
  <2> QED BY <1>1, <1>2, <2>1
<1>3. CASE i \in 1..n
  <2>1. i \in 1..(n + 1) /\ i + 1 \in 1..(n + 1)
    BY <1>1, <1>3
  <2>2. /\ View(i)' = View(i) /\ View(i + 1)' = View(i + 1)
        /\ Sent(i)' = Sent(i) /\ log'[i] = log[i]
    BY <1>1, <1>3, <2>1
  <2> QED BY <1>3, <2>2 DEF LogMeaning
<1> QED BY <1>1, <1>2, <1>3

\* Every recorded command has its digest: none is of the legacy kind.
DigestsRecorded ==
  \A i \in 1..Len(hist) : \A id \in DOMAIN View(i).applied :
    View(i).applied[id].digest # {}

\* A new command is recorded with its digest.
LEMMA SubmitKeepsDigests ==
  ASSUME IndInv, DigestsRecorded, NEW cmd, IsCommand(cmd), Submit(cmd)
  PROVE  DigestsRecorded'
<1> PICK n : n = Len(log)
  OBVIOUS
<1> SUFFICES ASSUME NEW i \in 1..Len(hist'), NEW id \in DOMAIN View(i)'.applied
             PROVE  View(i)'.applied[id].digest # {}
  BY DEF DigestsRecorded
<1>1. /\ n \in Nat /\ Len(hist) = n + 1 /\ Len(hist') = n + 2
      /\ \A k \in 1..(n + 1) : View(k)' = View(k)
      /\ Meaning(View(n + 1), n + 1, Sent(n + 1)', (log[n + 1].reply)',
                 View(n + 2)')
  BY SubmitLog
<1>2. CASE i \in 1..(n + 1)
  BY <1>1, <1>2 DEF DigestsRecorded
<1>3. CASE i = n + 2
  <2>1. \A x \in DOMAIN View(n + 1).applied : View(n + 1).applied[x].digest # {}
    BY <1>1 DEF DigestsRecorded
  <2> QED BY <1>1, <1>3, <2>1 DEF Meaning, Effective, Ineffective
<1> QED BY <1>1, <1>2, <1>3

\* The recorded commands keep growing.
LEMMA SubmitKeepsApplied ==
  ASSUME IndInv, AppliedGrows, NEW cmd, IsCommand(cmd), Submit(cmd)
  PROVE  AppliedGrows'
<1> PICK n : n = Len(log)
  OBVIOUS
<1> SUFFICES ASSUME NEW i \in 1..Len(hist'), NEW j \in 1..Len(hist'), i <= j
             PROVE  AppliedStep(View(i)', View(j)')
  BY DEF AppliedGrows
<1>1. /\ n \in Nat /\ Len(hist) = n + 1 /\ Len(hist') = n + 2
      /\ \A k \in 1..(n + 1) : View(k)' = View(k)
      /\ AppliedStep(View(n + 1), View(n + 2)')
  BY SubmitLog, MeaningKeepsApplied
<1>2. CASE j \in 1..(n + 1)
  <2>1. i \in 1..(n + 1)
    BY <1>1, <1>2
  <2> QED BY <1>1, <1>2, <2>1 DEF AppliedGrows
<1>3. CASE j = n + 2 /\ i = n + 2
  BY <1>3 DEF AppliedStep
<1>4. CASE j = n + 2 /\ i \in 1..(n + 1)
  <2>1. AppliedStep(View(i), View(n + 1))
    BY <1>1, <1>4 DEF AppliedGrows
  <2>2. AppliedStep(View(i), View(n + 2)')
    BY <1>1, <2>1 DEF AppliedStep
  <2> QED BY <1>1, <1>4, <2>2
<1> QED BY <1>1, <1>2, <1>3, <1>4

-----------------------------------------------------------------------------
(* What the last state owes to the log.                                    *)

\* Entry i wrote key k.
Wrote(k, i) ==
  TookEffect(i) /\ Sent(i).type \in Puts /\ k \in DOMAIN Sent(i).payload

\* One key of ValuesFollowTheLog.
LastWriteOf(k) ==
  LET values == View(Len(hist)).values
  IN  \/ /\ \A i \in 1..Len(log) : ~Wrote(k, i)
         /\ k \notin DOMAIN values
      \/ \E i \in 1..Len(log) :
           /\ Wrote(k, i)
           /\ \A j \in 1..Len(log) : Wrote(k, j) => j <= i
           /\ k \in DOMAIN values
           /\ values[k] = Sent(i).payload[k]

LastWrites == \A k \in Keys : LastWriteOf(k)

\* ValuesFollowTheLog, key by key and without its sets.
LEMMA ValuesByKey == ValuesFollowTheLog <=> LastWrites
<1> DEFINE Writers(k) == {i \in 1..Len(log) : Wrote(k, i)}
           now == View(Len(hist)).values
<1>1. ValuesFollowTheLog <=>
        \A k \in Keys :
          IF Writers(k) = {} THEN k \notin DOMAIN now
          ELSE /\ k \in DOMAIN now
               /\ \E i \in Writers(k) :
                    /\ \A j \in Writers(k) : j <= i
                    /\ now[k] = Sent(i).payload[k]
  BY DEF ValuesFollowTheLog, Wrote, Puts
<1> QED BY <1>1 DEF LastWrites, LastWriteOf

\* The new entry overwrites exactly the keys of its payload.
LEMMA SubmitKeepsValues ==
  ASSUME IndInv, LastWrites, NEW cmd, IsCommand(cmd), Submit(cmd)
  PROVE  LastWrites'
<1> PICK n : n = Len(log)
  OBVIOUS
<1> DEFINE s == View(n + 1)
           t == View(n + 2)'
           c == Sent(n + 1)'
<1>1. /\ n \in Nat /\ Len(log') = n + 1
      /\ Len(hist) = n + 1 /\ Len(hist') = n + 2
      /\ \A i \in 1..n : Sent(i)' = Sent(i)
      /\ \A i \in 1..(n + 1) : View(i)' = View(i)
      /\ \A i \in 1..n : TookEffect(i)' <=> TookEffect(i)
      /\ Meaning(s, n + 1, c, (log[n + 1].reply)', t)
  BY SubmitLog
<1>2. View(n + 1)' = s
  BY <1>1
<1>3. IF TookEffect(n + 1)' THEN Effective(s, n + 1, c, t) ELSE t = s
  BY <1>1, <1>2 DEF Meaning, TookEffect, Effective, Ineffective
<1> SUFFICES ASSUME NEW k \in Keys
             PROVE  \/ /\ \A i \in 1..(n + 1) : ~Wrote(k, i)'
                       /\ k \notin DOMAIN t.values
                    \/ \E i \in 1..(n + 1) :
                         /\ Wrote(k, i)'
                         /\ \A j \in 1..(n + 1) : Wrote(k, j)' => j <= i
                         /\ k \in DOMAIN t.values
                         /\ t.values[k] = (Sent(i)').payload[k]
  BY <1>1 DEF LastWrites, LastWriteOf
<1>4. \/ /\ \A i \in 1..n : ~Wrote(k, i)
         /\ k \notin DOMAIN s.values
      \/ \E i \in 1..n :
           /\ Wrote(k, i)
           /\ \A j \in 1..n : Wrote(k, j) => j <= i
           /\ k \in DOMAIN s.values
           /\ s.values[k] = Sent(i).payload[k]
  BY <1>1 DEF LastWrites, LastWriteOf
<1>5. \A i \in 1..n : Wrote(k, i)' <=> Wrote(k, i)
  BY <1>1 DEF Wrote
<1>6. CASE Wrote(k, n + 1)'
  <2>1. t.values = Overwrite(s.values, c.payload) /\ k \in DOMAIN c.payload
    BY <1>3, <1>6 DEF Wrote, Effective
  <2>2. k \in DOMAIN t.values /\ t.values[k] = c.payload[k]
    BY <2>1 DEF Overwrite
  <2>3. n + 1 \in 1..(n + 1) /\ \A j \in 1..(n + 1) : j <= n + 1
    BY <1>1
  <2> QED BY <1>6, <2>2, <2>3
<1>7. CASE ~Wrote(k, n + 1)'
  <2>1. /\ k \in DOMAIN t.values <=> k \in DOMAIN s.values
        /\ k \in DOMAIN s.values => t.values[k] = s.values[k]
    BY <1>3, <1>7 DEF Wrote, Effective, Overwrite
  <2>2. \A i \in 1..(n + 1) : Wrote(k, i)' => i \in 1..n /\ Wrote(k, i)
    BY <1>1, <1>5, <1>7
  <2>3. \A i \in 1..n : i \in 1..(n + 1)
    BY <1>1
  <2> HIDE DEF s, t, c
  <2> QED BY <1>1, <1>4, <1>5, <2>1, <2>2, <2>3
<1> QED BY <1>6, <1>7

\* ActiveSnapshotIsLastCommitted without its set.
PublishedAt(i) == TookEffect(i) /\ Sent(i).type = "commit_snapshot"

LastCommit ==
  LET now == View(Len(hist))
  IN  \/ /\ \A i \in 1..Len(log) : ~PublishedAt(i)
         /\ now.active = {} /\ now.activeIndex = 0
      \/ \E i \in 1..Len(log) :
           /\ PublishedAt(i)
           /\ \A j \in 1..Len(log) : PublishedAt(j) => j <= i
           /\ now.activeIndex = i
           /\ now.active = {Sent(i).payload}
           /\ now.active \subseteq now.snapshots

\* The parts of LastCommit are those of the property.
LEMMA ActiveByIndex == LastCommit => ActiveSnapshotIsLastCommitted
<1> DEFINE Commits == {i \in 1..Len(log) : PublishedAt(i)}
           now == View(Len(hist))
<1>1. ActiveSnapshotIsLastCommitted <=>
        IF Commits = {} THEN now.active = {} /\ now.activeIndex = 0
        ELSE /\ now.activeIndex \in Commits
             /\ \A i \in Commits : i <= now.activeIndex
             /\ now.active = {Sent(now.activeIndex).payload}
             /\ now.active \subseteq now.snapshots
  BY DEF ActiveSnapshotIsLastCommitted, PublishedAt
<1> QED BY <1>1 DEF LastCommit

\* The new entry becomes the active snapshot if it commits one.
LEMMA SubmitKeepsActive ==
  ASSUME IndInv, LastCommit, NEW cmd, IsCommand(cmd), Submit(cmd)
  PROVE  LastCommit'
<1> PICK n : n = Len(log)
  OBVIOUS
<1> DEFINE s == View(n + 1)
           t == View(n + 2)'
           c == Sent(n + 1)'
<1>1. /\ n \in Nat /\ Len(log') = n + 1
      /\ Len(hist) = n + 1 /\ Len(hist') = n + 2
      /\ \A i \in 1..n : Sent(i)' = Sent(i)
      /\ \A i \in 1..(n + 1) : View(i)' = View(i)
      /\ \A i \in 1..n : TookEffect(i)' <=> TookEffect(i)
      /\ Meaning(s, n + 1, c, (log[n + 1].reply)', t)
  BY SubmitLog
<1>2. View(n + 1)' = s
  BY <1>1
<1>3. IF TookEffect(n + 1)' THEN Effective(s, n + 1, c, t) ELSE t = s
  BY <1>1, <1>2 DEF Meaning, TookEffect, Effective, Ineffective
<1> SUFFICES \/ /\ \A i \in 1..(n + 1) : ~PublishedAt(i)'
                /\ t.active = {} /\ t.activeIndex = 0
             \/ \E i \in 1..(n + 1) :
                  /\ PublishedAt(i)'
                  /\ \A j \in 1..(n + 1) : PublishedAt(j)' => j <= i
                  /\ t.activeIndex = i
                  /\ t.active = {(Sent(i)').payload}
                  /\ t.active \subseteq t.snapshots
  BY <1>1 DEF LastCommit
<1>4. \/ /\ \A i \in 1..n : ~PublishedAt(i)
         /\ s.active = {} /\ s.activeIndex = 0
      \/ \E i \in 1..n :
           /\ PublishedAt(i)
           /\ \A j \in 1..n : PublishedAt(j) => j <= i
           /\ s.activeIndex = i
           /\ s.active = {Sent(i).payload}
           /\ s.active \subseteq s.snapshots
  BY <1>1 DEF LastCommit
<1>5. \A i \in 1..n : PublishedAt(i)' <=> PublishedAt(i)
  BY <1>1 DEF PublishedAt
<1>6. CASE PublishedAt(n + 1)'
  <2>1. /\ t.active = {c.payload} /\ t.activeIndex = n + 1
        /\ t.active \subseteq t.snapshots
    BY <1>3, <1>6 DEF PublishedAt, Effective
  <2>2. n + 1 \in 1..(n + 1) /\ \A j \in 1..(n + 1) : j <= n + 1
    BY <1>1
  <2> QED BY <1>6, <2>1, <2>2
<1>7. CASE ~PublishedAt(n + 1)'
  <2>1. /\ t.active = s.active /\ t.activeIndex = s.activeIndex
        /\ t.snapshots = s.snapshots
    BY <1>3, <1>7 DEF PublishedAt, Effective
  <2>2. \A i \in 1..(n + 1) : PublishedAt(i)' => i \in 1..n /\ PublishedAt(i)
    BY <1>1, <1>5, <1>7
  <2>3. \A i \in 1..n : i \in 1..(n + 1)
    BY <1>1
  <2> HIDE DEF s, t, c
  <2> QED BY <1>1, <1>4, <1>5, <2>1, <2>2, <2>3
<1> QED BY <1>6, <1>7

\* SequenceGrowsByOne with names for its parts.
SequenceIn(active) ==
  IF active = {} THEN 0 ELSE (CHOOSE m \in active : TRUE).sequence

SequenceOf(s) == SequenceIn(s.active)

Publications(i, j) == {k \in i..(j - 1) : PublishedAt(k)}

SequencesCount ==
  \A i, j \in 1..Len(hist) :
    i <= j /\ (\A k \in i..j : MonotonicSequence(View(k).gate)) =>
      SequenceOf(View(j)) - SequenceOf(View(i)) = Cardinality(Publications(i, j))

\* The parts of SequencesCount are those of the property.
LEMMA SequencesByIndex == SequencesCount => SequenceGrowsByOne
BY DEF SequencesCount, SequenceGrowsByOne, SequenceOf,
       SequenceIn, Publications, PublishedAt

\* The sequence of a state is a number.
LEMMA SequenceType ==
  ASSUME NEW s, IsState(s)
  PROVE  SequenceOf(s) \in Nat
<1>1. MaxSequence \in Nat
  BY MaxSequenceAssumption
<1>2. CASE s.active = {}
  BY <1>2 DEF SequenceOf, SequenceIn
<1>3. CASE s.active # {}
  <2>1. (CHOOSE m \in s.active : TRUE) \in s.active
    BY <1>3
  <2> QED BY <1>1, <1>3, <2>1 DEF SequenceOf, SequenceIn, IsState
<1> QED BY <1>2, <1>3

\* One more publication is one more element.
LEMMA OneMorePublication ==
  ASSUME NEW i \in Nat, NEW n \in Nat, NEW S, S \subseteq i..n
  PROVE  /\ Cardinality(S) \in Nat
         /\ Cardinality(S \cup {n + 1}) = Cardinality(S) + 1
<1>1. IsFiniteSet(i..n)
  BY FS_Interval
<1>2. IsFiniteSet(S)
  BY <1>1, FS_Subset
<1>3. Cardinality(S) \in Nat
  BY <1>2, FS_CardinalityType
<1>4. n + 1 \notin S
  OBVIOUS
<1> QED BY <1>2, <1>3, <1>4, FS_AddElement

\* The new entry publishes the next sequence or none.
LEMMA SubmitKeepsSequences ==
  ASSUME IndInv, IndInv', SequencesCount, NEW cmd, IsCommand(cmd), Submit(cmd)
  PROVE  SequencesCount'
<1> PICK n : n = Len(log)
  OBVIOUS
<1> DEFINE s == View(n + 1)
           t == View(n + 2)'
           c == Sent(n + 1)'
<1>1. /\ n \in Nat /\ Len(log') = n + 1
      /\ Len(hist) = n + 1 /\ Len(hist') = n + 2
      /\ \A i \in 1..n : Sent(i)' = Sent(i)
      /\ \A i \in 1..(n + 1) : View(i)' = View(i)
      /\ \A i \in 1..n : TookEffect(i)' <=> TookEffect(i)
      /\ Meaning(s, n + 1, c, (log[n + 1].reply)', t)
  BY SubmitLog
<1>2. View(n + 1)' = s /\ IsState(s) /\ IsState(t)
  <2>1. IsState(s)
    BY <1>1, HistoryIsGood DEF GoodState
  <2>2. IsState(t)
    BY <1>1 DEF IndInv, TypeOK, View
  <2> QED BY <1>1, <2>1, <2>2
<1>3. IF TookEffect(n + 1)' THEN Effective(s, n + 1, c, t) ELSE t = s
  BY <1>1, <1>2 DEF Meaning, TookEffect, Effective, Ineffective
<1>4. \A i \in 1..n : PublishedAt(i)' <=> PublishedAt(i)
  BY <1>1 DEF PublishedAt
<1>5. /\ PublishedAt(n + 1)' /\ MonotonicSequence(s.gate) =>
           SequenceOf(t) = SequenceOf(s) + 1
      /\ ~PublishedAt(n + 1)' => SequenceOf(t) = SequenceOf(s)
  <2>1. CASE PublishedAt(n + 1)'
    <3>1. /\ t.active = {c.payload}
          /\ MonotonicSequence(s.gate) => IsNextSequence(s.active, c.payload.sequence)
      BY <1>3, <2>1 DEF PublishedAt, Effective
    <3>2. SequenceOf(t) = c.payload.sequence
      BY <3>1 DEF SequenceOf, SequenceIn
    <3>3. IsNextSequence(s.active, c.payload.sequence) =>
            c.payload.sequence = SequenceOf(s) + 1
      <4>1. CASE s.active = {}
        BY <4>1 DEF IsNextSequence, SequenceOf, SequenceIn
      <4>2. CASE s.active # {}
        <5>1. (CHOOSE m \in s.active : TRUE) \in s.active
          BY <4>2
        <5> QED BY <4>2, <5>1 DEF IsNextSequence, SequenceOf, SequenceIn
      <4> QED BY <4>1, <4>2
    <3> QED BY <2>1, <3>1, <3>2, <3>3
  <2>2. CASE ~PublishedAt(n + 1)'
    <3>1. t.active = s.active
      BY <1>3, <2>2 DEF PublishedAt, Effective
    <3> QED BY <2>2, <3>1 DEF SequenceOf
  <2> QED BY <2>1, <2>2
<1> HIDE DEF s, t, c
<1> SUFFICES ASSUME NEW i \in 1..(n + 2), NEW j \in 1..(n + 2), i <= j,
                    \A k \in i..j : MonotonicSequence((View(k)').gate)
             PROVE  SequenceOf(View(j)') - SequenceOf(View(i)') =
                      Cardinality(Publications(i, j)')
  BY <1>1 DEF SequencesCount, SequenceOf
<1>6. CASE j \in 1..(n + 1)
  <2>1. i \in 1..(n + 1) /\ \A k \in i..j : k \in 1..(n + 1)
    BY <1>1, <1>6
  <2>2. Publications(i, j)' = Publications(i, j)
    <3>1. \A k \in i..(j - 1) : k \in 1..n
      BY <1>1, <1>6
    <3> QED BY <1>4, <3>1 DEF Publications
  <2>3. SequenceOf(View(j)) - SequenceOf(View(i)) = Cardinality(Publications(i, j))
    BY <1>1, <1>6, <2>1 DEF SequencesCount
  <2> QED BY <1>1, <1>6, <2>1, <2>2, <2>3
<1>7. CASE j = n + 2 /\ i = n + 2
  <2>1. Publications(i, j)' = {}
    BY <1>1, <1>7 DEF Publications
  <2>2. Cardinality({}) = 0
    BY FS_EmptySet
  <2>3. SequenceOf(t) \in Nat
    BY <1>2, SequenceType
  <2>4. View(j)' = t /\ View(i)' = t
    BY <1>7 DEF t
  <2> QED BY <2>1, <2>2, <2>3, <2>4
<1>8. CASE j = n + 2 /\ i \in 1..(n + 1)
  <2>1. /\ n + 1 \in i..j /\ \A k \in i..(n + 1) : k \in i..j /\ k \in 1..(n + 1)
    BY <1>1, <1>8
  <2>2. /\ MonotonicSequence(s.gate)
        /\ \A k \in i..(n + 1) : MonotonicSequence(View(k).gate)
    BY <1>1, <1>2, <2>1
  <2>3. SequenceOf(s) - SequenceOf(View(i)) = Cardinality(Publications(i, n + 1))
    BY <1>1, <1>8, <2>2 DEF SequencesCount, s
  <2> DEFINE S == Publications(i, n + 1)
             T == Publications(i, j)'
  <2>4. S \subseteq i..n
    BY <1>1 DEF Publications
  <2>5. /\ PublishedAt(n + 1)' => T = S \cup {n + 1}
        /\ ~PublishedAt(n + 1)' => T = S
    <3>1. j - 1 = n + 1 /\ n + 1 - 1 = n
      BY <1>1, <1>8
    <3>2. \A k \in i..(n + 1) : k = n + 1 \/ (k \in i..n /\ k \in 1..n)
      BY <1>1, <1>8
    <3>3. n + 1 \in i..(n + 1) /\ n + 1 \notin i..n /\ \A k \in i..n : k \in i..(n + 1)
      BY <1>1, <1>8
    <3> QED BY <1>4, <3>1, <3>2, <3>3 DEF Publications
  <2> HIDE DEF S, T
  <2>6. /\ Cardinality(S) \in Nat
        /\ Cardinality(S \cup {n + 1}) = Cardinality(S) + 1
    <3>1. i \in Nat
      BY <1>8
    <3> QED BY <1>1, <2>4, <3>1, OneMorePublication
  <2>7. SequenceOf(s) \in Nat /\ SequenceOf(View(i)) \in Nat
    BY <1>1, <1>2, <1>8, SequenceType, HistoryIsGood DEF GoodState
  <2>8. SequenceOf(t) - SequenceOf(View(i)) = Cardinality(T)
    <3>1. SequenceOf(s) - SequenceOf(View(i)) = Cardinality(S)
      BY <2>3 DEF S
    <3>2. CASE PublishedAt(n + 1)'
      <4>1. SequenceOf(t) = SequenceOf(s) + 1 /\ Cardinality(T) = Cardinality(S) + 1
        BY <1>5, <2>2, <2>5, <2>6, <3>2
      <4> QED BY <2>6, <2>7, <3>1, <4>1
    <3>3. CASE ~PublishedAt(n + 1)'
      BY <1>5, <2>5, <3>1, <3>3
    <3> QED BY <3>2, <3>3
  <2> QED BY <1>1, <1>8, <2>8 DEF T, t
<1> QED BY <1>1, <1>6, <1>7, <1>8

-----------------------------------------------------------------------------
(* The invariant of the log, and what it says to callers and readers.      *)

LogInv ==
  /\ IndInv
  /\ LogMeaning
  /\ AppliedGrows
  /\ DigestsRecorded
  /\ LastWrites
  /\ LastCommit
  /\ SequencesCount

\* The empty log satisfies the invariant.
LEMMA InitLogInv == Init => LogInv
<1> SUFFICES ASSUME Init PROVE LogInv
  OBVIOUS
<1>1. IndInv
  BY InitInv
<1>2. /\ Len(log) = 0 /\ Len(hist) = 1 /\ View(1) = InitialState
      /\ InitialState.values = [k \in {} |-> MembersValue]
      /\ InitialState.active = {} /\ InitialState.activeIndex = 0
  BY DEF Init, View, InitialState
<1>3. LogMeaning /\ LastWrites /\ LastCommit
  BY <1>2 DEF LogMeaning, LastWrites, LastWriteOf, LastCommit
<1>4. AppliedGrows /\ DigestsRecorded
  BY <1>2 DEF AppliedGrows, AppliedStep, DigestsRecorded, InitialState
<1>5. SequencesCount
  <2> SUFFICES ASSUME NEW i \in 1..Len(hist), NEW j \in 1..Len(hist)
               PROVE  SequenceOf(View(j)) - SequenceOf(View(i)) =
                        Cardinality(Publications(i, j))
    BY DEF SequencesCount
  <2>1. i = 1 /\ j = 1
    BY <1>2
  <2>2. Publications(1, 1) = {} /\ Cardinality({}) = 0
    BY FS_EmptySet DEF Publications
  <2>3. SequenceOf(View(1)) = 0
    BY <1>2 DEF SequenceOf, SequenceIn
  <2> QED BY <2>1, <2>2, <2>3
<1> QED BY <1>1, <1>3, <1>4, <1>5 DEF LogInv

\* A step that leaves the log alone, or appends a command to it, keeps it.
LEMMA LogInvStep ==
  ASSUME LogInv, IndInv', (log' = log /\ hist' = hist) \/ Appends
  PROVE  LogInv'
<1>1. CASE log' = log /\ hist' = hist
  <2>1. DigestsRecorded'
    BY <1>1 DEF LogInv, DigestsRecorded, View
  <2>2. LogMeaning' /\ AppliedGrows'
    BY <1>1 DEF LogInv, LogMeaning, AppliedGrows, Sent, View
  <2>3. LastWrites'
    BY <1>1 DEF LogInv, LastWrites, LastWriteOf, Wrote, TookEffect, Sent, View
  <2>4. SequencesCount'
    BY <1>1 DEF LogInv, SequencesCount, Publications, PublishedAt, TookEffect,
       Sent, View
  <2>5. LastCommit'
    BY <1>1 DEF LogInv, LastCommit, PublishedAt, TookEffect, Sent, View
  <2> QED BY <2>1, <2>2, <2>3, <2>4, <2>5 DEF LogInv
<1>2. CASE Appends
  <2>1. PICK cmd : IsCommand(cmd) /\ Submit(cmd)
    BY <1>2 DEF Appends
  <2> QED BY <2>1, SubmitKeepsMeaning, SubmitKeepsApplied, SubmitKeepsDigests,
             SubmitKeepsValues, SubmitKeepsActive, SubmitKeepsSequences
          DEF LogInv
<1> QED BY <1>1, <1>2

\* Every step keeps it: an election leaves the log alone, a call appends.
LEMMA NextLogInv == LogInv /\ [Next]_vars => LogInv'
<1> SUFFICES ASSUME LogInv, [Next]_vars PROVE LogInv'
  OBVIOUS
<1>1. IndInv'
  BY NextInv DEF LogInv
<1>2. (log' = log /\ hist' = hist) \/ Appends
  BY NextAppends DEF LogInv, IndInv, vars, Election
<1> QED BY <1>1, <1>2, LogInvStep

\* The invariant of the log holds in every reachable state.
THEOREM LogInductive == Spec => []LogInv
BY InitLogInv, NextLogInv, PTL DEF Spec

\* Whatever id an accepted entry carries, the state after it records that id
\* with the entry's digest and answer.
LEMMA AcceptedIsRecorded ==
  ASSUME LogInv, NEW i \in 1..Len(log), log[i].reply.ok
  PROVE  LET a == View(i + 1).applied
             id == Sent(i).id
         IN  /\ id \in DOMAIN a
             /\ a[id].digest = {Digest(Sent(i))}
             /\ a[id].revision = log[i].reply.revision
<1> DEFINE a == View(i + 1).applied
           id == Sent(i).id
<1>1. \/ Effective(View(i), i, Sent(i), View(i + 1)) /\ log[i].reply.revision = View(i + 1).revision
      \/ Ineffective(View(i), Sent(i), log[i].reply, View(i + 1))
  BY EntryMeaning DEF LogInv
<1>2. /\ id \in DOMAIN a /\ a[id].digest \subseteq {Digest(Sent(i))}
      /\ a[id].revision = log[i].reply.revision
  BY <1>1 DEF Effective, Ineffective
<1>3. i + 1 \in 1..Len(hist)
  BY AppendFacts DEF LogInv, IndInv, TypeOK
<1>4. a[id].digest # {}
  BY <1>2, <1>3 DEF LogInv, DigestsRecorded
<1> QED BY <1>2, <1>4

\* No accepted id takes effect again: its record answers every repetition.
LEMMA OnceByRecord ==
  ASSUME LogInv
  PROVE  ExactlyOnce
<1> SUFFICES ASSUME NEW i \in 1..Len(log), NEW j \in 1..Len(log), i < j,
                    log[i].command.id = log[j].command.id, log[i].reply.ok
             PROVE  /\ ~TookEffect(j)
                    /\ hist[j + 1].state = hist[j].state
                    /\ log[j].reply.ok =>
                         /\ Digest(Sent(i)) = Digest(Sent(j))
                         /\ log[i].reply.revision = log[j].reply.revision
  BY DEF ExactlyOnce
<1> DEFINE a == View(i + 1).applied
           b == View(j).applied
           id == Sent(i).id
<1>1. Sent(j).id = id
  <2>1. IsCommand(log[i].command) /\ IsCommand(log[j].command)
    BY DEF LogInv, IndInv, TypeOK
  <2> QED BY <2>1 DEF Sent, Normalized, IsCommand
<1>2. /\ id \in DOMAIN a /\ a[id].digest = {Digest(Sent(i))}
      /\ a[id].revision = log[i].reply.revision
  BY AcceptedIsRecorded
<1>3. id \in DOMAIN b /\ b[id] = a[id]
  <2>1. Len(log) \in Nat /\ Len(hist) = Len(log) + 1
    BY AppendFacts DEF LogInv, IndInv, TypeOK
  <2>2. i + 1 \in 1..Len(hist) /\ j \in 1..Len(hist) /\ i + 1 <= j
    BY <2>1
  <2> QED BY <1>2, <2>2 DEF LogInv, AppliedGrows, AppliedStep
<1>4. ~TookEffect(j)
  BY <1>1, <1>3 DEF TookEffect
<1>5. Ineffective(View(j), Sent(j), log[j].reply, View(j + 1))
  BY <1>4, EntryMeaning DEF LogInv
<1>6. log[j].reply.ok => /\ {Digest(Sent(i))} \subseteq {Digest(Sent(j))}
                         /\ log[i].reply.revision = log[j].reply.revision
  BY <1>1, <1>2, <1>3, <1>5 DEF Ineffective
<1> QED BY <1>4, <1>5, <1>6 DEF Ineffective, View

\* An effective write raises the revision it was expected to find.
LEMMA OneWriterPerRevision ==
  ASSUME LogInv
  PROVE  NoLostUpdate
<1> SUFFICES ASSUME NEW i \in 1..Len(log), NEW j \in 1..Len(log), i < j,
                    TookEffect(i), TookEffect(j),
                    NEW r \in Sent(i).expected, r \in Sent(j).expected
             PROVE  FALSE
  BY DEF NoLostUpdate
<1>1. /\ r = View(i).revision /\ r = View(j).revision
      /\ View(i + 1).revision = View(i).revision + 1
  BY EntryMeaning DEF LogInv, Effective
<1>2. Len(log) \in Nat /\ Len(hist) = Len(log) + 1
  BY AppendFacts DEF LogInv, IndInv, TypeOK
<1>3. /\ i \in 1..Len(hist) /\ i + 1 \in 1..Len(hist) /\ j \in 1..Len(hist)
      /\ i + 1 <= j
  BY <1>2
<1>4. View(i + 1).revision <= View(j).revision
  BY <1>3 DEF LogInv, IndInv, RevisionNamesState, RevisionStep
<1>5. View(i).revision \in Nat
  BY <1>3, HistoryIsGood DEF LogInv, GoodState, IsState
<1> QED BY <1>1, <1>4, <1>5

\* A command id takes effect at most once, however its retries interleave
\* with other commands and changes of leader, and whoever repeats it is told
\* the revision of the one time it did (consensus.go:174-180).
THEOREM CommandsTakeEffectOnce == Spec => []ExactlyOnce
<1>1. LogInv => ExactlyOnce
  BY OnceByRecord
<1> QED BY <1>1, LogInductive, PTL

\* Two writes that name the same expected revision never both take effect
\* (consensus.go:181): the first raises the revision for good.
THEOREM NoUpdateIsLost == Spec => []NoLostUpdate
<1>1. LogInv => NoLostUpdate
  BY OneWriterPerRevision
<1> QED BY <1>1, LogInductive, PTL

\* The values are what the last effective write of each key left, and nothing
\* else (consensus.go:203-235): a refused batch leaves no part behind.
THEOREM ValuesAlwaysFollowTheLog == Spec => []ValuesFollowTheLog
<1>1. LogInv => ValuesFollowTheLog
  BY ValuesByKey DEF LogInv
<1> QED BY <1>1, LogInductive, PTL

\* The active snapshot is the last one committed, at its index, and is among
\* the retained manifests (consensus.go:236-279): the fault for a missing
\* active manifest is unreachable.
THEOREM ActiveIsAlwaysLastCommitted == Spec => []ActiveSnapshotIsLastCommitted
<1>1. LogInv => ActiveSnapshotIsLastCommitted
  BY ActiveByIndex DEF LogInv
<1> QED BY <1>1, LogInductive, PTL

\* While a gate with monotonic sequences is in force, the active sequence
\* counts the publications (consensus.go:250-263, snapshot.go:48-60).
THEOREM SequencesAlwaysGrowByOne == Spec => []SequenceGrowsByOne
<1>1. LogInv => SequenceGrowsByOne
  BY SequencesByIndex DEF LogInv
<1> QED BY <1>1, LogInductive, PTL

-----------------------------------------------------------------------------
(* Part two: the replicas.                                                 *)

(* The strengthening.                                                      *)

\* Each state of the history is what Apply makes of the one before.
HistFollowsLog ==
  \A i \in 1..Len(log) :
    LET r == ApplyTo(hist[i], i, log[i].command)
    IN  hist[i + 1] = [state |-> r.state,
                       fault |-> IF r.verdict = "fault" THEN i
                                 ELSE hist[i].fault]

\* n holds the healthy meaning of prefix i.
Holds(i, s) == hist[i + 1] = [state |-> s, fault |-> 0]

\* A fault on disk is a fault in memory, and no snapshot carries one.
FaultsAreLocal ==
  \A n \in Nodes :
    /\ marker[n] # 0 => fault[n] # 0
    /\ raftSnap[n].fault = 0

ReplicaInv ==
  /\ IndInv
  /\ HistFollowsLog
  /\ ReplicaTypeOK
  /\ ReplicasAgree
  /\ SnapshotsAreHealthy
  /\ FaultsAreLocal

-----------------------------------------------------------------------------
(* What an append and an election keep.                                    *)

\* The log and the history only grow, and the history follows the log.
Grows ==
  /\ Len(log) \in Nat /\ Len(log') \in Nat
  /\ Len(log) <= Len(log')
  /\ Len(hist) = Len(log) + 1
  /\ \A i \in 1..Len(hist) : hist'[i] = hist[i]

\* A submitted command keeps HistFollowsLog.
LEMMA SubmitGrows ==
  ASSUME TypeOK, HistFollowsLog, NEW cmd, Submit(cmd)
  PROVE  Grows /\ HistFollowsLog'
<1> DEFINE index == Len(log) + 1
           last == hist[index]
           r == ApplyTo(last, index, cmd)
           entry == [command |-> cmd, by |-> raftLeader, at |-> raftTerm,
                     reply |-> Reply(r)]
           h == [state |-> r.state,
                 fault |-> IF r.verdict = "fault" THEN index ELSE last.fault]
<1>1. log' = Append(log, entry) /\ hist' = Append(hist, h)
  BY DEF Submit
<1>2. /\ Len(log) \in Nat /\ Len(hist) = index
      /\ IsSequence(log) /\ IsSequence(hist)
  BY AppendFacts DEF TypeOK
<1>3. entry.command = cmd
  OBVIOUS
<1> HIDE DEF entry, h
<1>4. /\ Len(log') = index /\ log'[index] = entry
      /\ \A i \in 1..Len(log) : log'[i] = log[i]
  BY <1>1, <1>2, AppendFacts
<1>5. /\ hist'[index + 1] = h
      /\ \A i \in 1..index : hist'[i] = hist[i]
  BY <1>1, <1>2, AppendFacts
<1>6. Grows
  BY <1>2, <1>4, <1>5 DEF Grows
<1>7. ASSUME NEW i \in 1..Len(log')
      PROVE  LET q == ApplyTo(hist'[i], i, log'[i].command)
             IN  hist'[i + 1] = [state |-> q.state,
                                 fault |-> IF q.verdict = "fault" THEN i
                                           ELSE hist'[i].fault]
  <2>1. CASE i = index
    BY <2>1, <1>2, <1>3, <1>4, <1>5 DEF h
  <2>2. CASE i \in 1..Len(log)
    <3>1. i \in 1..index /\ i + 1 \in 1..index
      BY <2>2, <1>2
    <3>2. hist'[i] = hist[i] /\ hist'[i + 1] = hist[i + 1] /\ log'[i] = log[i]
      BY <2>2, <3>1, <1>4, <1>5
    <3> QED BY <2>2, <3>2 DEF HistFollowsLog
  <2> QED BY <2>1, <2>2, <1>2, <1>4
<1> QED BY <1>6, <1>7 DEF HistFollowsLog

\* Steps that only let the log grow keep what the replicas agree on.
LEMMA GrowsKeepsReplicas ==
  ASSUME ReplicaInv, Grows, TypeOK', UNCHANGED replicaVars
  PROVE  ReplicaTypeOK' /\ ReplicasAgree' /\ SnapshotsAreHealthy' /\ FaultsAreLocal'
<1> USE DEF ReplicaInv
<1>1. /\ caps' = caps /\ applyIndex' = applyIndex /\ fsm' = fsm
      /\ fault' = fault /\ marker' = marker /\ raftSnap' = raftSnap
      /\ restarts' = restarts
  BY DEF replicaVars
<1>2. \A i \in 0..Len(log) : hist'[i + 1] = hist[i + 1]
  BY DEF Grows
<1>3. /\ \A n \in Nodes : applyIndex[n] \in 0..Len(log)
      /\ \A n \in Nodes : raftSnap[n].index \in 0..Len(log)
  BY DEF ReplicaTypeOK, IsSnapshot
<1>4. ReplicaTypeOK'
  <2>1. \A i \in 0..Len(log) : i \in 0..Len(log')
    BY DEF Grows
  <2>2. \A n \in Nodes : IsSnapshot(raftSnap[n])'
    BY <1>1, <2>1 DEF ReplicaTypeOK, IsSnapshot
  <2>3. /\ applyIndex' \in [Nodes -> 0..Len(log')]
        /\ fault' \in [Nodes -> 0..Len(log')]
        /\ marker' \in [Nodes -> 0..Len(log')]
    BY <1>1, <2>1 DEF ReplicaTypeOK
  <2> QED BY <1>1, <2>2, <2>3 DEF ReplicaTypeOK
<1>5. ReplicasAgree'
  <2> SUFFICES ASSUME NEW n \in Nodes
               PROVE  IF fault[n] = 0
                      THEN hist'[applyIndex[n] + 1] = [state |-> fsm[n], fault |-> 0]
                      ELSE \E i \in 0..applyIndex[n] :
                             hist'[i + 1] = [state |-> fsm[n], fault |-> 0]
    BY <1>1 DEF ReplicasAgree
  <2>1. CASE fault[n] = 0
    BY <2>1, <1>2, <1>3 DEF ReplicasAgree
  <2>2. CASE fault[n] # 0
    <3>1. PICK i \in 0..applyIndex[n] :
            hist[i + 1] = [state |-> fsm[n], fault |-> 0]
      BY <2>2 DEF ReplicasAgree
    <3>2. i \in 0..Len(log)
      BY <1>3, <3>1 DEF Grows
    <3> QED BY <2>2, <3>1, <3>2, <1>2
  <2> QED BY <2>1, <2>2
<1>6. SnapshotsAreHealthy'
  BY <1>1, <1>2, <1>3 DEF SnapshotsAreHealthy
<1>7. FaultsAreLocal'
  BY <1>1 DEF FaultsAreLocal
<1> QED BY <1>4, <1>5, <1>6, <1>7

\* A step that appends a command or elects a leader, and touches no replica.
LEMMA LogStep ==
  ASSUME ReplicaInv, UNCHANGED replicaVars,
         (\E n \in Nodes : Election(n)) \/ Appends
  PROVE  ReplicaInv'
<1> USE DEF ReplicaInv
<1>1. CASE \E n \in Nodes : Election(n)
  <2>1. log' = log /\ hist' = hist
    BY <1>1 DEF Election
  <2>2. IndInv'
    BY <1>1, NextInv DEF Next
  <2>3. Grows
    BY <2>1, AppendFacts DEF Grows, ReplicaTypeOK, TypeOK
  <2>4. HistFollowsLog'
    BY <2>1 DEF HistFollowsLog
  <2> QED BY <2>2, <2>3, <2>4, GrowsKeepsReplicas DEF IndInv
<1>2. CASE Appends
  <2>1. PICK cmd : IsCommand(cmd) /\ raftLeader \in Nodes /\ Submit(cmd)
    BY <1>2 DEF Appends
  <2>2. IndInv'
    BY <2>1, SubmitStep
  <2>3. Grows /\ HistFollowsLog'
    BY <2>1, SubmitGrows DEF ReplicaTypeOK
  <2> QED BY <2>2, <2>3, GrowsKeepsReplicas DEF IndInv
<1> QED BY <1>1, <1>2

-----------------------------------------------------------------------------
(* Steps of one replica.                                                   *)

\* What a step of one replica may make of it, the log being the same.
AllowedReplica(n, a, s, f, k, snap) ==
  /\ a \in 0..Len(log) /\ f \in 0..Len(log) /\ k \in 0..Len(log)
  /\ IF f = 0 THEN Holds(a, s) ELSE \E i \in 0..a : Holds(i, s)
  /\ k # 0 => f # 0
  /\ IsSnapshot(snap) /\ snap.fault = 0 /\ Holds(snap.index, snap.state)

\* The replicas are allowed exactly when the invariant holds.
LEMMA ReplicaAllowed ==
  ASSUME ReplicaInv, NEW n \in Nodes
  PROVE  AllowedReplica(n, applyIndex[n], fsm[n], fault[n], marker[n], raftSnap[n])
BY DEF ReplicaInv, ReplicaTypeOK, ReplicasAgree, SnapshotsAreHealthy,
       FaultsAreLocal, AllowedReplica, Holds

\* A step of one replica to an allowed state keeps the invariant.
LEMMA OneReplicaStep ==
  ASSUME ReplicaInv, UNCHANGED vars, NEW n \in Nodes,
         caps' \in [Nodes -> Binaries \cup {SupportedNodeCapabilities}],
         restarts' \in 0..MaxRestarts,
         applyIndex' \in [Nodes -> 0..Len(log)],
         fault' \in [Nodes -> 0..Len(log)],
         marker' \in [Nodes -> 0..Len(log)],
         DOMAIN fsm' = Nodes, DOMAIN raftSnap' = Nodes,
         \A m \in Nodes \ {n} :
           /\ applyIndex'[m] = applyIndex[m] /\ fsm'[m] = fsm[m]
           /\ fault'[m] = fault[m] /\ marker'[m] = marker[m]
           /\ raftSnap'[m] = raftSnap[m],
         AllowedReplica(n, applyIndex'[n], fsm'[n], fault'[n], marker'[n],
                        raftSnap'[n])
  PROVE  ReplicaInv'
<1>1. /\ raftTerm' = raftTerm /\ raftLeader' = raftLeader
      /\ log' = log /\ hist' = hist
  BY DEF vars
<1>2. IndInv' /\ HistFollowsLog'
  <2>1. IndInv'
    BY NextInv DEF ReplicaInv
  <2> QED BY <1>1, <2>1 DEF ReplicaInv, HistFollowsLog
<1>3. \A m \in Nodes :
        AllowedReplica(m, applyIndex'[m], fsm'[m], fault'[m], marker'[m],
                       raftSnap'[m])
  <2> SUFFICES ASSUME NEW m \in Nodes
               PROVE  AllowedReplica(m, applyIndex'[m], fsm'[m], fault'[m],
                                     marker'[m], raftSnap'[m])
    OBVIOUS
  <2>1. CASE m = n
    BY <2>1
  <2>2. CASE m # n
    BY <2>2, ReplicaAllowed
  <2> QED BY <2>1, <2>2
<1>4. ReplicaTypeOK'
  <2>1. \A m \in Nodes : IsSnapshot(raftSnap[m])'
    BY <1>1, <1>3 DEF AllowedReplica, IsSnapshot
  <2>2. TypeOK'
    BY <1>2 DEF IndInv
  <2> QED BY <1>1, <2>1, <2>2 DEF ReplicaTypeOK
<1>5. ReplicasAgree'
  BY <1>1, <1>3 DEF AllowedReplica, Holds, ReplicasAgree
<1>6. SnapshotsAreHealthy' /\ FaultsAreLocal'
  BY <1>1, <1>3 DEF AllowedReplica, Holds, SnapshotsAreHealthy, FaultsAreLocal
<1> QED BY <1>2, <1>4, <1>5, <1>6 DEF ReplicaInv

\* Applying one more entry leads from the meaning of a prefix to the meaning
\* of the next one.
LEMMA NextPrefix ==
  ASSUME ReplicaInv, NEW n \in Nodes, fault[n] = 0, applyIndex[n] < Len(log)
  PROVE  LET index == applyIndex[n] + 1
             r     == Outcome(fsm[n], index, NextEntry(n))
         IN  /\ Holds(applyIndex[n], fsm[n])
             /\ r.verdict # "fault" => Holds(index, r.state)
<1> DEFINE index == applyIndex[n] + 1
           r == Outcome(fsm[n], index, NextEntry(n))
<1>1. applyIndex[n] \in Nat /\ Len(log) \in Nat
  BY AppendFacts DEF ReplicaInv, ReplicaTypeOK, TypeOK
<1>2. index \in 1..Len(log)
  BY <1>1
<1>3. hist[index] = [state |-> fsm[n], fault |-> 0]
  BY DEF ReplicaInv, ReplicasAgree
<1>4. hist[index].state = fsm[n] /\ hist[index].fault = 0
  BY <1>3
<1>5. ApplyTo(hist[index], index, log[index].command) = r
  BY <1>4 DEF ApplyTo, NextEntry
<1> HIDE DEF r
<1>6. r.verdict # "fault" => hist[index + 1] = [state |-> r.state, fault |-> 0]
  BY <1>2, <1>4, <1>5 DEF ReplicaInv, HistFollowsLog
<1> QED BY <1>3, <1>6 DEF Holds, r

\* What is known of the types of one replica.
LEMMA ReplicaTypes ==
  ASSUME ReplicaInv
  PROVE  /\ Len(log) \in Nat
         /\ caps \in [Nodes -> Binaries \cup {SupportedNodeCapabilities}]
         /\ applyIndex \in [Nodes -> 0..Len(log)]
         /\ fault \in [Nodes -> 0..Len(log)]
         /\ marker \in [Nodes -> 0..Len(log)]
         /\ DOMAIN fsm = Nodes /\ DOMAIN raftSnap = Nodes
         /\ restarts \in 0..MaxRestarts
BY AppendFacts DEF ReplicaInv, ReplicaTypeOK, TypeOK

\* Apply of a command that does not fault.
LEMMA ApplyEntryStep ==
  ASSUME ReplicaInv, NEW n \in Nodes, ApplyEntry(n)
  PROVE  ReplicaInv'
<1> DEFINE index == applyIndex[n] + 1
           r == Outcome(fsm[n], index, NextEntry(n))
<1>1. /\ applyIndex[n] < Len(log) /\ fault[n] = 0 /\ r.verdict # "fault"
      /\ applyIndex' = [applyIndex EXCEPT ![n] = @ + 1]
      /\ fsm' = [fsm EXCEPT ![n] = r.state]
      /\ UNCHANGED <<vars, caps, raftSnap, restarts, fault, marker>>
  BY DEF ApplyEntry, Advance
<1>2. Holds(index, r.state)
  BY <1>1, NextPrefix
<1> HIDE DEF r
<1>3. /\ applyIndex' \in [Nodes -> 0..Len(log)] /\ applyIndex'[n] = index
      /\ DOMAIN fsm' = Nodes /\ fsm'[n] = r.state /\ index \in 0..Len(log)
      /\ \A m \in Nodes \ {n} : applyIndex'[m] = applyIndex[m] /\ fsm'[m] = fsm[m]
  BY <1>1, ReplicaTypes
<1>4. AllowedReplica(n, index, r.state, fault[n], marker[n], raftSnap[n])
  BY <1>1, <1>2, <1>3, ReplicaAllowed DEF AllowedReplica
<1> QED BY <1>1, <1>3, <1>4, ReplicaTypes, OneReplicaStep

\* Apply of a command that faults, or on a halted replica: the FSM stays.
LEMMA ApplyNothingStep ==
  ASSUME ReplicaInv, NEW n \in Nodes, ApplyFaulting(n) \/ ApplyHalted(n)
  PROVE  ReplicaInv'
<1> DEFINE index == applyIndex[n] + 1
<1>1. /\ applyIndex[n] < Len(log)
      /\ applyIndex' = [applyIndex EXCEPT ![n] = @ + 1]
      /\ UNCHANGED <<vars, caps, raftSnap, restarts, fsm>>
  BY DEF ApplyFaulting, ApplyHalted, Advance
<1>2. /\ index \in 1..Len(log)
      /\ applyIndex' \in [Nodes -> 0..Len(log)] /\ applyIndex'[n] = index
      /\ \A m \in Nodes \ {n} : applyIndex'[m] = applyIndex[m]
  BY <1>1, ReplicaTypes
<1>3. /\ fault' \in [Nodes -> 0..Len(log)] /\ marker' \in [Nodes -> 0..Len(log)]
      /\ fault'[n] # 0
      /\ \A m \in Nodes \ {n} : fault'[m] = fault[m] /\ marker'[m] = marker[m]
  <2>1. CASE ApplyHalted(n)
    BY <2>1, ReplicaTypes DEF ApplyHalted
  <2>2. CASE ApplyFaulting(n)
    <3>1. PICK file \in {marker[n], index} : marker' = [marker EXCEPT ![n] = file]
      BY <2>2 DEF ApplyFaulting, RecordApplyFault, PersistFault
    <3>2. fault' = [fault EXCEPT ![n] = index]
      BY <2>2 DEF ApplyFaulting, RecordApplyFault
    <3>3. marker[n] \in 0..Len(log) /\ index \in 0..Len(log) /\ index # 0
      BY <1>2, ReplicaTypes
    <3> QED BY <3>1, <3>2, <3>3, ReplicaTypes
  <2> QED BY <2>1, <2>2
<1>4. \E i \in 0..index : Holds(i, fsm[n])
  <2>1. \E i \in 0..applyIndex[n] : Holds(i, fsm[n])
    BY ReplicaAllowed, ReplicaTypes DEF AllowedReplica
  <2>2. \A i \in 0..applyIndex[n] : i \in 0..index
    BY ReplicaTypes
  <2> QED BY <2>1, <2>2
<1>5. AllowedReplica(n, index, fsm[n], fault'[n], marker'[n], raftSnap[n])
  BY <1>2, <1>3, <1>4, ReplicaAllowed DEF AllowedReplica
<1> QED BY <1>1, <1>2, <1>3, <1>5, ReplicaTypes, OneReplicaStep

\* A Raft snapshot is taken of a healthy replica.
LEMMA TakeSnapshotStep ==
  ASSUME ReplicaInv, NEW n \in Nodes, TakeSnapshot(n)
  PROVE  ReplicaInv'
<1> DEFINE snap == [index |-> applyIndex[n], state |-> fsm[n], fault |-> fault[n]]
<1>1. /\ fault[n] = 0
      /\ raftSnap' = [raftSnap EXCEPT ![n] = snap]
      /\ UNCHANGED <<vars, caps, applyIndex, fsm, fault, marker, restarts>>
  BY DEF TakeSnapshot
<1>2. /\ IsSnapshot(snap) /\ snap.fault = 0
      /\ snap.index = applyIndex[n] /\ snap.state = fsm[n]
  BY <1>1, ReplicaTypes DEF IsSnapshot
<1> HIDE DEF snap
<1>3. AllowedReplica(n, applyIndex[n], fsm[n], fault[n], marker[n], snap)
  BY <1>1, <1>2, ReplicaAllowed DEF AllowedReplica
<1>4. /\ raftSnap'[n] = snap /\ DOMAIN raftSnap' = Nodes
      /\ \A m \in Nodes \ {n} : raftSnap'[m] = raftSnap[m]
  BY <1>1, ReplicaTypes
<1> QED BY <1>1, <1>3, <1>4, ReplicaTypes, OneReplicaStep

\* Restoring a snapshot of some node puts its prefix in place.
LEMMA RestoreStep ==
  ASSUME ReplicaInv, NEW n \in Nodes, NEW m \in Nodes,
         NEW own \in 0..Len(log), NEW old \in 0..Len(log), old # 0 => own # 0,
         Restore(n, own, old, raftSnap[m])
  PROVE  /\ applyIndex' \in [Nodes -> 0..Len(log)]
         /\ fault' \in [Nodes -> 0..Len(log)]
         /\ marker' = [marker EXCEPT ![n] = old]
         /\ DOMAIN fsm' = Nodes
         /\ \A k \in Nodes \ {n} :
              /\ applyIndex'[k] = applyIndex[k] /\ fsm'[k] = fsm[k]
              /\ fault'[k] = fault[k]
         /\ fault'[n] = own
         /\ \A snap \in {raftSnap[n], raftSnap[m]} :
              AllowedReplica(n, applyIndex'[n], fsm'[n], fault'[n], marker'[n],
                             snap)
<1> DEFINE s == raftSnap[m]
<1>1. /\ IsSnapshot(s) /\ s.fault = 0 /\ Holds(s.index, s.state)
      /\ IsSnapshot(raftSnap[n]) /\ raftSnap[n].fault = 0
      /\ Holds(raftSnap[n].index, raftSnap[n].state)
  BY ReplicaAllowed DEF AllowedReplica
<1>2. /\ applyIndex' = [applyIndex EXCEPT ![n] = s.index]
      /\ fsm' = [fsm EXCEPT ![n] = s.state]
      /\ fault' = [fault EXCEPT ![n] = own]
      /\ marker' = [marker EXCEPT ![n] = old]
  BY <1>1 DEF Restore, RestoredFault, PersistFault
<1>3. s.index \in 0..Len(log)
  BY <1>1 DEF IsSnapshot
<1> HIDE DEF s
<1>4. marker' = [marker EXCEPT ![n] = old] /\ marker'[n] = old
  BY <1>2, ReplicaTypes
<1>5. /\ applyIndex' \in [Nodes -> 0..Len(log)] /\ applyIndex'[n] = s.index
      /\ fault' \in [Nodes -> 0..Len(log)] /\ fault'[n] = own
      /\ DOMAIN fsm' = Nodes /\ fsm'[n] = s.state
      /\ \A k \in Nodes \ {n} :
           /\ applyIndex'[k] = applyIndex[k] /\ fsm'[k] = fsm[k]
           /\ fault'[k] = fault[k]
  BY <1>2, <1>3, ReplicaTypes
<1>6. \E i \in 0..s.index : Holds(i, s.state)
  BY <1>1, <1>3, ReplicaTypes DEF s
<1>7. \A snap \in {raftSnap[n], s} :
        AllowedReplica(n, s.index, s.state, own, old, snap)
  BY <1>1, <1>3, <1>6 DEF AllowedReplica, s
<1> QED BY <1>4, <1>5, <1>7 DEF s

\* InstallSnapshot restores another node's snapshot.
LEMMA InstallSnapshotStep ==
  ASSUME ReplicaInv, NEW n \in Nodes, NEW m \in Nodes, InstallSnapshot(n, m)
  PROVE  ReplicaInv' /\ marker' = marker /\ fault' = fault
<1>1. /\ Restore(n, fault[n], marker[n], raftSnap[m])
      /\ raftSnap' = [raftSnap EXCEPT ![n] = raftSnap[m]]
      /\ UNCHANGED <<vars, caps, restarts>>
  BY DEF InstallSnapshot
<1>2. /\ fault[n] \in 0..Len(log) /\ (marker[n] # 0 => fault[n] # 0)
      /\ marker[n] \in 0..Len(log) /\ marker = [marker EXCEPT ![n] = marker[n]]
  BY ReplicaTypes DEF ReplicaInv, FaultsAreLocal
<1>3. /\ raftSnap'[n] = raftSnap[m] /\ DOMAIN raftSnap' = Nodes
      /\ \A k \in Nodes \ {n} : raftSnap'[k] = raftSnap[k]
  BY <1>1, ReplicaTypes
<1>4. /\ applyIndex' \in [Nodes -> 0..Len(log)]
      /\ fault' \in [Nodes -> 0..Len(log)] /\ fault'[n] = fault[n]
      /\ marker' = marker /\ DOMAIN fsm' = Nodes
      /\ \A k \in Nodes \ {n} :
           /\ applyIndex'[k] = applyIndex[k] /\ fsm'[k] = fsm[k]
           /\ fault'[k] = fault[k]
      /\ AllowedReplica(n, applyIndex'[n], fsm'[n], fault'[n], marker'[n],
                        raftSnap[m])
  BY <1>1, <1>2, RestoreStep
<1>5. ReplicaInv'
  BY <1>1, <1>3, <1>4, ReplicaTypes, OneReplicaStep
<1>6. fault' = fault
  BY <1>4, ReplicaTypes
<1> QED BY <1>4, <1>5, <1>6

\* A start restores the node's own snapshot, with the fault of the marker that
\* is left.
LEMMA StartStep ==
  ASSUME ReplicaInv, NEW n \in Nodes, NEW c \in Binaries,
         NEW old \in 0..Len(log), Start(n, c, old, old)
  PROVE  /\ ReplicaInv' /\ log' = log /\ hist' = hist
         /\ marker' = [marker EXCEPT ![n] = old]
         /\ fault' = [fault EXCEPT ![n] = old]
<1>1. /\ Restore(n, old, old, raftSnap[n])
      /\ caps' = [caps EXCEPT ![n] = c]
      /\ restarts < MaxRestarts /\ restarts' = restarts + 1
      /\ UNCHANGED <<vars, raftSnap>>
  BY DEF Start
<1>2. /\ caps' \in [Nodes -> Binaries \cup {SupportedNodeCapabilities}]
      /\ restarts' \in 0..MaxRestarts
  BY <1>1, ReplicaTypes, RestartsAssumption
<1>3. /\ applyIndex' \in [Nodes -> 0..Len(log)]
      /\ fault' \in [Nodes -> 0..Len(log)] /\ fault'[n] = old
      /\ marker' = [marker EXCEPT ![n] = old] /\ DOMAIN fsm' = Nodes
      /\ \A k \in Nodes \ {n} :
           /\ applyIndex'[k] = applyIndex[k] /\ fsm'[k] = fsm[k]
           /\ fault'[k] = fault[k]
      /\ AllowedReplica(n, applyIndex'[n], fsm'[n], fault'[n], marker'[n],
                        raftSnap[n])
  BY <1>1, RestoreStep
<1>4. /\ marker' \in [Nodes -> 0..Len(log)]
      /\ \A k \in Nodes \ {n} : marker'[k] = marker[k]
  BY <1>3, ReplicaTypes
<1>5. ReplicaInv'
  BY <1>1, <1>2, <1>3, <1>4, ReplicaTypes, OneReplicaStep
<1>6. fault' = [fault EXCEPT ![n] = old]
  BY <1>3, ReplicaTypes
<1> QED BY <1>1, <1>3, <1>5, <1>6 DEF vars

\* A node whose process ended, or that lost power, starts again.
LEMMA RestartStep ==
  ASSUME ReplicaInv, NEW n \in Nodes, NEW c \in Binaries,
         Restart(n, c) \/ PowerLoss(n, c)
  PROVE  /\ ReplicaInv' /\ log' = log /\ hist' = hist
         /\ \A m \in Nodes \ {n} : marker'[m] = marker[m] /\ fault'[m] = fault[m]
         /\ PowerLoss(n, c) \/ (marker'[n] = marker[n] /\ fault'[n] = marker[n])
<1>1. marker[n] \in 0..Len(log) /\ 0 \in 0..Len(log)
  BY ReplicaTypes
<1>2. CASE Restart(n, c)
  BY <1>1, <1>2, StartStep, ReplicaTypes DEF Restart
<1>3. CASE PowerLoss(n, c)
  <2>1. Start(n, c, 0, 0)
    BY <1>3 DEF PowerLoss
  <2> QED BY <1>1, <1>3, <2>1, StartStep, ReplicaTypes
<1> QED BY <1>2, <1>3

-----------------------------------------------------------------------------
(* The theorems.                                                           *)

\* The steps of ReplicaNext that call an operation of MetadataFSM.
Calls ==
  /\ UNCHANGED replicaVars
  /\ \/ \E n \in Nodes : Election(n)
     \/ \E t \in 1..raftTerm, c \in {caps[raftLeader]} : AcquireLeadership(t, c)
     \/ \E t \in 1..raftTerm : InitializeMembers(t)
     \/ \E id \in CommandIDs, w \in Writes, r \in Revisions :
          \/ PutMetadata(id, w, r, caps[raftLeader])
          \/ PutMetadataBatch(id, w, r, caps[raftLeader])
     \/ \E id \in CommandIDs, d \in Drafts, e \in Epochs :
          PublishSnapshot(id, d, e, caps[raftLeader])
     \/ \E id \in CommandIDs, g \in Gates :
          ActivateCapabilities(id, g, caps[raftLeader], caps)

\* A call appends a well-typed command, or is an election.
LEMMA CallsAppend ==
  ASSUME TypeOK, Calls
  PROVE  (\E n \in Nodes : Election(n)) \/ Appends
BY AcquireAppends, InitializeAppends, PutAppends, PublishAppends,
   ActivateAppends DEF Calls

\* The cases of a step.
LEMMA ReplicaNextCases ==
  ASSUME ReplicaNext
  PROVE  \/ Calls
         \/ \E n \in Nodes : \/ ApplyEntry(n) \/ ApplyFaulting(n)
                             \/ ApplyHalted(n) \/ TakeSnapshot(n)
         \/ \E n, m \in Nodes : InstallSnapshot(n, m)
         \/ \E n \in Nodes, c \in Binaries : Restart(n, c) \/ PowerLoss(n, c)
BY DEF ReplicaNext, Calls

\* The initial state satisfies the invariant.
LEMMA ReplicaInitInv == ReplicaInit => ReplicaInv
<1> SUFFICES ASSUME ReplicaInit PROVE ReplicaInv
  OBVIOUS
<1> DEFINE snap == [index |-> 0, state |-> InitialState, fault |-> 0]
<1>1. /\ log = <<>> /\ hist = <<[state |-> InitialState, fault |-> 0]>>
      /\ caps = [n \in Nodes |-> SupportedNodeCapabilities]
      /\ applyIndex = [n \in Nodes |-> 0]
      /\ fsm = [n \in Nodes |-> InitialState]
      /\ fault = [n \in Nodes |-> 0]
      /\ marker = [n \in Nodes |-> 0]
      /\ raftSnap = [n \in Nodes |-> snap]
      /\ restarts = 0
  BY DEF ReplicaInit, Init
<1>2. Len(log) = 0 /\ hist[1] = [state |-> InitialState, fault |-> 0]
  BY <1>1
<1>3. IndInv
  BY InitInv DEF ReplicaInit
<1>4. HistFollowsLog
  BY <1>2 DEF HistFollowsLog
<1>5. IsSnapshot(snap) /\ snap.index = 0 /\ snap.state = InitialState /\ snap.fault = 0
  BY <1>2 DEF IsSnapshot
<1> HIDE DEF snap
<1>6. ReplicaTypeOK
  BY <1>1, <1>2, <1>3, <1>5, RestartsAssumption DEF ReplicaTypeOK, IndInv
<1>7. ReplicasAgree /\ SnapshotsAreHealthy /\ FaultsAreLocal
  BY <1>1, <1>2, <1>5 DEF ReplicasAgree, SnapshotsAreHealthy, FaultsAreLocal
<1> QED BY <1>3, <1>4, <1>6, <1>7 DEF ReplicaInv

\* Every step keeps the invariant.
LEMMA ReplicaNextInv == ReplicaInv /\ [ReplicaNext]_allVars => ReplicaInv'
<1> SUFFICES ASSUME ReplicaInv, [ReplicaNext]_allVars PROVE ReplicaInv'
  OBVIOUS
<1>1. CASE UNCHANGED allVars
  <2>1. /\ UNCHANGED vars /\ UNCHANGED replicaVars
        /\ log' = log /\ hist' = hist
    BY <1>1 DEF allVars, vars
  <2>2. IndInv'
    BY <2>1, NextInv DEF ReplicaInv
  <2>3. Grows
    BY <2>1, AppendFacts DEF Grows, ReplicaInv, ReplicaTypeOK, TypeOK
  <2>4. HistFollowsLog'
    BY <2>1 DEF ReplicaInv, HistFollowsLog
  <2> QED BY <2>1, <2>2, <2>3, <2>4, GrowsKeepsReplicas DEF ReplicaInv, IndInv
<1>2. CASE Calls
  <2>1. UNCHANGED replicaVars /\ TypeOK
    BY <1>2 DEF Calls, ReplicaInv, ReplicaTypeOK
  <2> QED BY <1>2, <2>1, CallsAppend, LogStep
<1>3. CASE \E n \in Nodes : \/ ApplyEntry(n) \/ ApplyFaulting(n)
                            \/ ApplyHalted(n) \/ TakeSnapshot(n)
  BY <1>3, ApplyEntryStep, ApplyNothingStep, TakeSnapshotStep
<1>4. CASE \E n, m \in Nodes : InstallSnapshot(n, m)
  BY <1>4, InstallSnapshotStep
<1>5. CASE \E n \in Nodes, c \in Binaries : Restart(n, c) \/ PowerLoss(n, c)
  BY <1>5, RestartStep
<1> QED BY <1>1, <1>2, <1>3, <1>4, <1>5, ReplicaNextCases

\* The inductive invariant of the replicas.
THEOREM ReplicaInductive == ReplicaSpec => []ReplicaInv
BY ReplicaInitInv, ReplicaNextInv, PTL DEF ReplicaSpec

\* What MetadataFSM promises to callers and readers of the log holds when the
\* calls come from nodes that run different binaries, crash and restart, too
\* (consensus.go:138-303).
THEOREM MixedBinariesKeepTheLog ==
  ReplicaSpec => [](/\ ExactlyOnce /\ NoLostUpdate /\ ValuesFollowTheLog
                    /\ ActiveSnapshotIsLastCommitted /\ SequenceGrowsByOne)
<1> DEFINE Promises == /\ ExactlyOnce /\ NoLostUpdate /\ ValuesFollowTheLog
                       /\ ActiveSnapshotIsLastCommitted /\ SequenceGrowsByOne
<1>1. ReplicaInit => LogInv
  BY InitLogInv DEF ReplicaInit
<1>2. ASSUME ReplicaInv, ReplicaInv', LogInv, [ReplicaNext]_allVars
      PROVE  LogInv'
  <2>1. IndInv'
    BY <1>2 DEF ReplicaInv
  <2>2. (log' = log /\ hist' = hist) \/ Appends
    <3>1. CASE UNCHANGED allVars
      BY <3>1 DEF allVars, vars
    <3>2. CASE Calls
      BY <1>2, <3>2, CallsAppend DEF ReplicaInv, ReplicaTypeOK, Election
    <3>3. ASSUME NEW n \in Nodes,
                 \/ ApplyEntry(n) \/ ApplyFaulting(n)
                 \/ ApplyHalted(n) \/ TakeSnapshot(n)
                 \/ \E m \in Nodes : InstallSnapshot(n, m)
                 \/ \E c \in Binaries : Restart(n, c) \/ PowerLoss(n, c)
          PROVE  log' = log /\ hist' = hist
      BY <3>3 DEF ApplyEntry, ApplyFaulting, ApplyHalted, TakeSnapshot, Advance,
                  InstallSnapshot, Restart, PowerLoss, Start, vars
    <3> QED BY <1>2, <3>1, <3>2, <3>3, ReplicaNextCases
  <2> QED BY <1>2, <2>1, <2>2, LogInvStep
<1>3. LogInv => Promises
  BY OnceByRecord, OneWriterPerRevision, ValuesByKey, ActiveByIndex,
     SequencesByIndex DEF LogInv
<1> QED BY <1>1, <1>2, <1>3, ReplicaInductive, PTL DEF ReplicaSpec

\* No index, fault or snapshot of a replica ever points past the log, for any
\* nodes, binaries and crashes (consensus.go:327-358, 425-469).
THEOREM ReplicaTypesHold == ReplicaSpec => []ReplicaTypeOK
<1>1. ReplicaInv => ReplicaTypeOK
  BY DEF ReplicaInv
<1> QED BY <1>1, ReplicaInductive, PTL

\* Every healthy replica holds exactly the meaning of the log it was given,
\* and a halted one that of a prefix, for any nodes, binaries, crashes,
\* snapshots and commands (consensus.go:138-469).
THEOREM ReplicasAlwaysAgree == ReplicaSpec => []ReplicasAgree
<1>1. ReplicaInv => ReplicasAgree
  BY DEF ReplicaInv
<1> QED BY <1>1, ReplicaInductive, PTL

\* A halted replica's state never spreads through a Raft snapshot
\* (consensus.go:425-431).
THEOREM SnapshotsAreAlwaysHealthy == ReplicaSpec => []SnapshotsAreHealthy
<1>1. ReplicaInv => SnapshotsAreHealthy
  BY DEF ReplicaInv
<1> QED BY <1>1, ReplicaInductive, PTL

\* The revision a replica reports identifies its whole state, so comparing
\* revisions (node.go:1550-1574) does compare states.
THEOREM RevisionsIdentifyStates == ReplicaSpec => []RevisionIdentifiesState
<1>1. ASSUME ReplicaInv PROVE RevisionIdentifiesState
  <2>1. ASSUME NEW n \in Nodes
        PROVE  \E i \in 1..Len(hist) : View(i) = fsm[n]
    <3>1. PICK i \in 0..applyIndex[n] : Holds(i, fsm[n])
      BY <1>1, ReplicaAllowed, ReplicaTypes DEF AllowedReplica
    <3>2. i + 1 \in 1..Len(hist)
      BY <1>1, ReplicaTypes DEF ReplicaInv, IndInv, TypeOK
    <3>3. View(i + 1) = fsm[n]
      BY <3>1 DEF Holds, View
    <3> QED BY <3>2, <3>3
  <2> SUFFICES ASSUME NEW n \in Nodes, NEW m \in Nodes,
                      fsm[n].revision = fsm[m].revision
               PROVE  fsm[n] = fsm[m]
    BY DEF RevisionIdentifiesState
  <2>2. PICK i \in 1..Len(hist) : View(i) = fsm[n]
    BY <2>1
  <2>3. PICK j \in 1..Len(hist) : View(j) = fsm[m]
    BY <2>1
  <2>4. i <= j \/ j <= i
    OBVIOUS
  <2> QED BY <1>1, <2>2, <2>3, <2>4
          DEF ReplicaInv, IndInv, RevisionNamesState, RevisionStep
<1> QED BY <1>1, ReplicaInductive, PTL

\* A fault whose marker was written halts its replica for good, unless a loss
\* of power takes the marker (consensus.go:334-358, 462).
THEOREM HaltsSurvive == ReplicaSpec => HaltSurvives
<1> DEFINE Kept(n) == \/ fault'[n] # 0 /\ marker'[n] = marker[n]
                      \/ \E c \in Binaries : PowerLoss(n, c)
           AllKept == \A n \in Nodes : marker[n] # 0 => Kept(n)
<1>1. ASSUME ReplicaInv, [ReplicaNext]_allVars PROVE [AllKept]_allVars
  <2>1. \A n \in Nodes : marker[n] # 0 => fault[n] # 0
    BY <1>1 DEF ReplicaInv, FaultsAreLocal
  <2>2. CASE Calls
    BY <2>1, <2>2 DEF Calls, replicaVars
  <2>3. ASSUME NEW n \in Nodes,
               ApplyEntry(n) \/ ApplyHalted(n) \/ TakeSnapshot(n)
        PROVE  AllKept
    BY <2>1, <2>3 DEF ApplyEntry, ApplyHalted, TakeSnapshot
  <2>4. ASSUME NEW n \in Nodes, ApplyFaulting(n) PROVE AllKept
    BY <1>1, <2>1, <2>4, ReplicaTypes DEF ApplyFaulting, RecordApplyFault, PersistFault
  <2>5. ASSUME NEW n \in Nodes, NEW m \in Nodes, InstallSnapshot(n, m)
        PROVE  AllKept
    BY <1>1, <2>1, <2>5, InstallSnapshotStep
  <2>6. ASSUME NEW n \in Nodes, NEW c \in Binaries,
               Restart(n, c) \/ PowerLoss(n, c)
        PROVE  AllKept
    <3>1. \A m \in Nodes \ {n} : marker[m] # 0 => Kept(m)
      BY <1>1, <2>1, <2>6, RestartStep
    <3>2. marker[n] # 0 => Kept(n)
      BY <1>1, <2>6, RestartStep
    <3> QED BY <3>1, <3>2
  <2> QED BY <1>1, <2>2, <2>3, <2>4, <2>5, <2>6, ReplicaNextCases
<1> QED BY <1>1, ReplicaInductive, PTL DEF ReplicaSpec, HaltSurvives
=============================================================================
