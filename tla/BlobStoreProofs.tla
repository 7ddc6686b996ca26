-------------------------- MODULE BlobStoreProofs --------------------------
(***************************************************************************)
(* The safety of the blob store for any number of calls, damages, crashes, *)
(* losses of power and failing syncs.                                      *)
(*                                                                         *)
(* StoreTypeOK says who holds the lock.  What the properties need beyond   *)
(* it is what the holder knows of the file (Locked), that only verified    *)
(* bytes are staged (Staged), what an acknowledgement rests on (Durable),  *)
(* and that a reader that has verified a file can meet a damaged one only  *)
(* when it was damaged since (Readable).                                   *)
(***************************************************************************)
EXTENDS BlobStore, TLAPS

Pcs == {"idle", "staged", "repair", "moved", "install", "installed"}

Shapes ==
  /\ put \in [Writers -> [pc : Pcs, data : Contents]]
  /\ read \in [Readers -> {"idle", "verified", "damaged", "opened", "deceived"}]
  /\ lock \in Writers \cup {Free}
  /\ faults \in [rots : Nat, crashes : Nat, losses : Nat, syncs : Nat]

Locked ==
  \A w \in Writers : /\ put[w].pc = "repair" => file = "invalid"
                     /\ put[w].pc \in {"moved", "install"} => file = "absent"

Staged == \A w \in Writers : put[w].pc # "idle" => put[w].data = "valid"

Durable ==
  /\ acked = "installed" => lock = Free /\ file = "valid" /\ disk = {"valid"}
  /\ ~unsynced => /\ lock = Free /\ file = "valid" => disk = {"valid"}
                  /\ acked = "found" => lock = Free /\ file = "valid"

Readable ==
  \A r \in Readers : read[r] # "deceived" /\ (read[r] = "verified" => file # "invalid")

IInv == StoreTypeOK /\ Shapes /\ Locked /\ Staged /\ Durable /\ Readable

-----------------------------------------------------------------------------
(* The empty store satisfies the invariant. *)
LEMMA InitInvariant == Init => IInv
<1> SUFFICES ASSUME Init PROVE IInv
  OBVIOUS
<1> USE StoreAssumption DEF Init, Contents, Pcs, Free
<1>1. \A w \in Writers : put[w].pc = "idle" /\ put[w] \in [pc : Pcs, data : Contents]
  BY DEF NoCall
<1>2. StoreTypeOK
  BY <1>1 DEF StoreTypeOK
<1>3. Shapes
  BY <1>1 DEF Shapes
<1> QED
  BY <1>1, <1>2, <1>3 DEF IInv, Locked, Staged, Durable, Readable

(* What a call of Put does keeps the invariant. *)
LEMMA PutPreserves ==
  ASSUME IInv, NEW w \in Writers,
         \/ \E content \in Contents : Receive(w, content)
         \/ LockHash(w) \/ Quarantine(w) \/ Install(w) \/ Sync(w) \/ SyncFails(w)
  PROVE  IInv'
<1> USE StoreAssumption DEF Contents, Pcs, NoCall, Free
<1>1. CASE \E content \in Contents : Receive(w, content)
  BY <1>1 DEF Receive, IInv, StoreTypeOK, Shapes, Locked, Staged, Durable, Readable
<1>2. CASE LockHash(w)
  <2>1. CASE file = "valid"
    BY <1>2, <2>1 DEF LockHash, Return, Found, IInv, StoreTypeOK, Shapes, Locked,
       Staged, Durable, Readable
  <2>2. CASE file # "valid"
    <3>1. /\ put' = [put EXCEPT ![w].pc = IF file = "absent" THEN "install" ELSE "repair"]
          /\ lock = Free /\ lock' = w /\ put[w].pc = "staged"
          /\ UNCHANGED <<file, disk, quarantined, read, faults, acked, unsynced>>
      BY <1>2, <2>2 DEF LockHash, Goto
    <3>2. StoreTypeOK' /\ Shapes'
      BY <3>1 DEF IInv, StoreTypeOK, Shapes
    <3>3. Locked' /\ Staged'
      BY <3>1, <2>2 DEF IInv, StoreTypeOK, Shapes, Locked, Staged
    <3>4. Durable' /\ Readable'
      BY <3>1, <2>2 DEF IInv, Durable, Readable
    <3> QED
      BY <3>2, <3>3, <3>4 DEF IInv
  <2> QED
    BY <2>1, <2>2
<1>3. CASE Quarantine(w)
  BY <1>3 DEF Quarantine, Replace, Goto, IInv, StoreTypeOK, Shapes, Locked, Staged,
     Durable, Readable
<1>4. CASE Install(w)
  BY <1>4 DEF Install, Replace, Goto, IInv, StoreTypeOK, Shapes, Locked, Staged,
     Durable, Readable
<1>5. CASE Sync(w)
  <2>1. CASE put[w].pc = "moved"
    BY <1>5, <2>1 DEF Sync, Goto, IInv, StoreTypeOK, Shapes, Locked, Staged,
       Durable, Readable
  <2>2. CASE put[w].pc = "installed"
    BY <1>5, <2>2 DEF Sync, Return, Installed, IInv, StoreTypeOK, Shapes,
       Locked, Staged, Durable, Readable
  <2> QED
    BY <1>5, <2>1, <2>2 DEF Sync
<1>6. CASE SyncFails(w)
  <2>1. lock = w /\ lock # Free
    BY <1>6 DEF SyncFails, IInv, StoreTypeOK
  <2>2. acked # "installed"
    BY <2>1 DEF IInv, Durable
  <2>3. put[w].pc = "moved" => file = "absent"
    BY DEF IInv, Locked
  <2>4. ~unsynced' => ~unsynced /\ put[w].pc # "installed"
    BY <1>6 DEF SyncFails
  <2>5. ~unsynced' => file = "absent"
    BY <1>6, <2>3, <2>4 DEF SyncFails
  <2>6. StoreTypeOK'
    BY <1>6, <2>1 DEF SyncFails, Return, IInv, StoreTypeOK, Shapes
  <2>7. Shapes' /\ Locked' /\ Staged' /\ Readable'
    BY <1>6 DEF SyncFails, Return, IInv, Shapes, Locked, Staged, Readable
  <2>8. Durable'
    BY <1>6, <2>1, <2>2, <2>4, <2>5 DEF SyncFails, IInv, Durable
  <2> QED
    BY <2>6, <2>7, <2>8 DEF IInv
<1> QED
  BY <1>1, <1>2, <1>3, <1>4, <1>5, <1>6

(* So do readers, GC, damage and crashes. *)
LEMMA OthersPreserve ==
  ASSUME IInv,
         \/ \E r \in Readers : Verify(r) \/ Open(r) \/ Close(r)
         \/ GC \/ Rot \/ Crash \/ PowerLoss
  PROVE  IInv'
<1> USE StoreAssumption DEF Contents, Pcs, NoCall, Free
<1>1. CASE \E r \in Readers : Verify(r) \/ Open(r) \/ Close(r)
  <2> PICK r \in Readers : Verify(r) \/ Open(r) \/ Close(r)
    BY <1>1
  <2>1. CASE Verify(r)
    BY <2>1 DEF Verify, IInv, StoreTypeOK, Shapes, Locked, Staged, Durable, Readable
  <2>2. CASE Open(r)
    BY <2>2 DEF Open, IInv, StoreTypeOK, Shapes, Locked, Staged, Durable, Readable
  <2>3. CASE Close(r)
    BY <2>3 DEF Close, IInv, StoreTypeOK, Shapes, Locked, Staged, Durable, Readable
  <2> QED
    BY <2>1, <2>2, <2>3
<1>2. CASE GC
  BY <1>2 DEF GC, Replace, IInv, StoreTypeOK, Shapes, Locked, Staged, Durable, Readable
<1>3. CASE Rot
  <2>1. StoreTypeOK'
    BY <1>3 DEF Rot, IInv, StoreTypeOK
  <2>2. Shapes'
    BY <1>3 DEF Rot, IInv, Shapes
  <2>3. Locked' /\ Staged'
    BY <1>3 DEF Rot, IInv, Locked, Staged
  <2>4. Durable' /\ Readable'
    BY <1>3 DEF Rot, IInv, Shapes, Durable, Readable
  <2> QED
    BY <2>1, <2>2, <2>3, <2>4 DEF IInv
<1>4. CASE Crash \/ PowerLoss
  <2>1. \A w \in Writers : put'[w].pc = "idle" /\ put'[w] \in [pc : Pcs, data : Contents]
    BY <1>4 DEF Crash, PowerLoss, CallsEnd
  <2>2. StoreTypeOK'
    BY <1>4, <2>1 DEF Crash, PowerLoss, CallsEnd, IInv, StoreTypeOK
  <2>3. Shapes'
    BY <1>4, <2>1 DEF Crash, PowerLoss, CallsEnd, IInv, Shapes
  <2>4. Locked' /\ Staged'
    BY <2>1 DEF Locked, Staged
  <2>5. Readable'
    BY <1>4 DEF Crash, PowerLoss, CallsEnd, Readable
  <2>6. ASSUME Crash
        PROVE  Durable'
    <3>1. ASSUME ~unsynced', file = "valid"
          PROVE  lock = Free
      BY <3>1, <2>6 DEF Crash, IInv, StoreTypeOK, Shapes, Locked
    <3> QED
      BY <2>6, <3>1 DEF Crash, CallsEnd, IInv, Durable
  <2>7. ASSUME PowerLoss
        PROVE  Durable'
    BY <2>7 DEF PowerLoss, CallsEnd, IInv, Durable
  <2> QED
    BY <1>4, <2>2, <2>3, <2>4, <2>5, <2>6, <2>7 DEF IInv
<1> QED
  BY <1>1, <1>2, <1>3, <1>4

(* Every step keeps the invariant. *)
LEMMA Inductive == IInv /\ [Next]_vars => IInv'
<1> SUFFICES ASSUME IInv, [Next]_vars PROVE IInv'
  OBVIOUS
<1>1. CASE Next
  BY <1>1, PutPreserves, OthersPreserve DEF Next
<1>2. CASE UNCHANGED vars
  BY <1>2 DEF vars, IInv, StoreTypeOK, Shapes, Locked, Staged, Durable, Readable
<1> QED
  BY <1>1, <1>2

(* The invariant holds in every reachable state. *)
LEMMA AlwaysIInv == Spec => []IInv
BY InitInvariant, Inductive, PTL DEF Spec

-----------------------------------------------------------------------------
(* The lock of the hash is always held by the one call that is changing    *)
(* the file (snapshot.go:381-401).                                         *)
THEOREM LockIsExclusive == Spec => []StoreTypeOK
<1>1. IInv => StoreTypeOK
  BY DEF IInv
<1> QED
  BY <1>1, AlwaysIInv, PTL

(* A blob that a call has installed and acknowledged survives every crash, *)
(* loss of power and failed sync of the calls around it; one that a call   *)
(* has found survives them unless a call was cut off before its sync       *)
(* (snapshot.go:387-401, README.md:386).                                   *)
THEOREM AcknowledgedAlwaysDurable == Spec => []AcknowledgedIsDurable
<1>1. IInv => AcknowledgedIsDurable
  BY DEF IInv, Durable, AcknowledgedIsDurable
<1> QED
  BY <1>1, AlwaysIInv, PTL

(* No reader ever gets bytes that it did not check for (snapshot.go:327).  *)
THEOREM ReadsAlwaysVerified == Spec => []ReadsAreVerified
<1>1. IInv => ReadsAreVerified
  BY DEF IInv, Readable, ReadsAreVerified
<1> QED
  BY <1>1, AlwaysIInv, PTL

(* A damaged file leaves its path under the lock only for quarantine/ or   *)
(* by a loss of power (snapshot.go:389-401).                               *)
THEOREM DamagedAlwaysQuarantined == Spec => DamagedIsQuarantined
<1> DEFINE Moved == lock # Free /\ file = "invalid" /\ file' # "invalid" =>
              quarantined' > quarantined \/ faults'.losses > faults.losses
<1>1. IInv /\ [Next]_vars => [Moved]_vars
  <2> SUFFICES ASSUME IInv, Next, lock # Free, file = "invalid", file' # "invalid"
               PROVE  quarantined' > quarantined \/ faults'.losses > faults.losses
    BY DEF vars
  <2> USE DEF Contents, Free
  <2>1. ASSUME NEW w \in Writers, Quarantine(w)
        PROVE  quarantined' > quarantined
    BY <2>1 DEF Quarantine, IInv, StoreTypeOK
  <2>2. ASSUME NEW w \in Writers, Install(w)
        PROVE  FALSE
    BY <2>2 DEF Install, IInv, Locked
  <2>3. ASSUME PowerLoss
        PROVE  faults'.losses > faults.losses
    BY <2>3 DEF PowerLoss, IInv, Shapes
  <2>4. ASSUME NEW w \in Writers, \/ \E content \in Contents : Receive(w, content)
                                  \/ LockHash(w) \/ Sync(w) \/ SyncFails(w)
        PROVE  FALSE
    BY <2>4 DEF Receive, LockHash, Sync, SyncFails
  <2>5. ASSUME NEW r \in Readers, Verify(r) \/ Open(r) \/ Close(r)
        PROVE  FALSE
    BY <2>5 DEF Verify, Open, Close
  <2>6. ASSUME GC \/ Rot \/ Crash
        PROVE  FALSE
    BY <2>6 DEF GC, Rot, Crash
  <2> QED
    BY <2>1, <2>2, <2>3, <2>4, <2>5, <2>6 DEF Next
<1> QED
  BY <1>1, AlwaysIInv, PTL DEF Spec, DamagedIsQuarantined
=============================================================================
