----------------------------- MODULE BlobStore ------------------------------
(***************************************************************************)
(* The content-addressed store at the level of its files: Put and PutHash, *)
(* readers that verify a file and then open it again, and GC, on one hash. *)
(* Hashes share neither a file nor a lock, so one stands for all of them.  *)
(*                                                                         *)
(* A file is "valid" when its content has the hash, else "invalid".  A     *)
(* change to a directory is seen at once and outlives the process that     *)
(* made it, but it survives a loss of power for certain only once the      *)
(* directory has been synced: `disk` holds what such a loss may leave at   *)
(* the blob's path.  A directory is taken to be as durable as its first    *)
(* synced entry.                                                           *)
(***************************************************************************)
EXTENDS Naturals, FiniteSets

CONSTANTS
  Writers,          \* calls of Put and PutHash
  Readers,          \* calls of Open and Read
  MaxRots,          \* bound: how often a stored file is damaged
  MaxCrashes,       \* bound: how often the process dies
  MaxLosses,        \* bound: how often the machine loses its power
  MaxSyncFailures   \* bound: failing syncDir calls

ASSUME StoreAssumption ==
  /\ {MaxRots, MaxCrashes, MaxLosses, MaxSyncFailures} \subseteq Nat
  /\ "free" \notin Writers

VARIABLES
  file,         \* what is at the blob's path
  disk,         \* what a loss of power may leave there
  quarantined,  \* how many files are in quarantine/
  lock,         \* who holds the lock of the hash
  put,          \* put[w]: where the call is and what it received
  read,         \* read[r]: where the call is
  acked,        \* ghost: a Put has returned, and neither GC nor damage
                \* has undone it since: it "installed" or "found" the file
  unsynced,     \* ghost: a Put has ended with its file in place, unsynced
  faults        \* how many damages, crashes, losses, failed syncs happened

vars == <<file, disk, quarantined, lock, put, read, acked, unsynced, faults>>

Contents == {"absent", "valid", "invalid"}

Free == "free"

NoCall == [pc |-> "idle", data |-> "absent"]

Init ==
  /\ file = "absent" /\ disk = {"absent"}
  /\ quarantined = 0 /\ lock = Free
  /\ put = [w \in Writers |-> NoCall]
  /\ read = [r \in Readers |-> "idle"]
  /\ acked = "none" /\ unsynced = FALSE
  /\ faults = [rots |-> 0, crashes |-> 0, losses |-> 0, syncs |-> 0]

Goto(w, pc) == put' = [put EXCEPT ![w].pc = pc]

Return(w) == put' = [put EXCEPT ![w] = NoCall]

(* What an acknowledgement without and with an installation leaves behind; *)
(* the latter counts unless the file was damaged meanwhile.                *)
Found == IF acked = "installed" THEN acked ELSE "found"

Installed == IF file = "valid" THEN "installed" ELSE "none"

(* A rename or a removal takes effect at once and is durable later. *)
Replace(content) ==
  /\ file' = content
  /\ disk' = disk \cup {content}

-----------------------------------------------------------------------------
\* Mutant of Receive: the checksum of what was sent is not compared.
ReceiveAnything(w, content) ==
  /\ put[w] = NoCall /\ content # "absent"
  /\ put' = [put EXCEPT ![w] = [pc |-> "staged", data |-> content]]
  /\ UNCHANGED <<file, disk, quarantined, lock, read, acked, unsynced, faults>>

(* The bytes go to a file of their own in staging/ and are synced there.   *)
(* What does not have the hash is refused (PutHash) or is another blob     *)
(* (Put).                                                                  *)
Receive(w, content) ==
  /\ put[w] = NoCall /\ content = "valid"
  /\ put' = [put EXCEPT ![w] = [pc |-> "staged", data |-> content]]
  /\ UNCHANGED <<file, disk, quarantined, lock, read, acked, unsynced, faults>>

\* Mutant of LockHash: the lock is not waited for.
LockHashAtOnce(w) ==
  /\ put[w].pc = "staged"
  /\ IF file = "valid"
     THEN /\ Return(w) /\ acked' = Found
          /\ UNCHANGED lock
     ELSE /\ Goto(w, IF file = "absent" THEN "install" ELSE "repair")
          /\ lock' = w
          /\ UNCHANGED acked
  /\ UNCHANGED <<file, disk, quarantined, read, unsynced, faults>>

(* lockHash, and Verify of the file that is there: when it is valid, the   *)
(* call returns without a sync.                                            *)
LockHash(w) ==
  /\ put[w].pc = "staged" /\ lock = Free
  /\ IF file = "valid"
     THEN /\ Return(w) /\ acked' = Found
          /\ UNCHANGED lock
     ELSE /\ Goto(w, IF file = "absent" THEN "install" ELSE "repair")
          /\ lock' = w
          /\ UNCHANGED acked
  /\ UNCHANGED <<file, disk, quarantined, read, unsynced, faults>>

\* Mutant of Quarantine: the damaged file is overwritten instead.
QuarantineNothing(w) ==
  /\ put[w].pc = "repair"
  /\ Goto(w, "moved")
  /\ Replace("absent")
  /\ UNCHANGED <<quarantined, lock, read, acked, unsynced, faults>>

(* quarantine moves the damaged file away ... *)
Quarantine(w) ==
  /\ put[w].pc = "repair"
  /\ Goto(w, "moved")
  /\ quarantined' = quarantined + 1
  /\ Replace("absent")
  /\ UNCHANGED <<lock, read, acked, unsynced, faults>>

(* ... and what was received takes its place. *)
Install(w) ==
  /\ put[w].pc = "install"
  /\ Goto(w, "installed")
  /\ Replace(put[w].data)
  /\ UNCHANGED <<quarantined, lock, read, acked, unsynced, faults>>

\* Mutant of Sync: the directory is not synced.
SyncNothing(w) ==
  /\ put[w].pc \in {"moved", "installed"}
  /\ IF put[w].pc = "moved"
     THEN Goto(w, "install") /\ UNCHANGED <<lock, acked>>
     ELSE Return(w) /\ lock' = Free /\ acked' = Installed
  /\ UNCHANGED <<file, disk, quarantined, read, unsynced, faults>>

(* syncDir after either of them; the second one ends the call. *)
Sync(w) ==
  /\ put[w].pc \in {"moved", "installed"}
  /\ disk' = {file}
  /\ IF put[w].pc = "moved"
     THEN Goto(w, "install") /\ UNCHANGED <<lock, acked>>
     ELSE Return(w) /\ lock' = Free /\ acked' = Installed
  /\ UNCHANGED <<file, quarantined, read, unsynced, faults>>

(* A failing syncDir ends the call with an error; the rename stays.  The   *)
(* directory that fails may be staging/, which is synced last.             *)
SyncFails(w) ==
  /\ put[w].pc \in {"moved", "installed"} /\ faults.syncs < MaxSyncFailures
  /\ faults' = [faults EXCEPT !.syncs = @ + 1]
  /\ disk' \in {disk, {file}}
  /\ unsynced' = (unsynced \/ put[w].pc = "installed")
  /\ Return(w) /\ lock' = Free
  /\ UNCHANGED <<file, quarantined, read, acked>>

-----------------------------------------------------------------------------
(* GC, with a set of retained hashes that lacks this one, removes the file *)
(* under the lock, valid or not, and syncs nothing.                        *)
GC ==
  /\ lock = Free /\ file # "absent"
  /\ Replace("absent")
  /\ acked' = "none"
  /\ UNCHANGED <<quarantined, lock, put, read, unsynced, faults>>

(* Open and Read take no lock: they verify the file ... *)
Verify(r) ==
  /\ read[r] = "idle"
  /\ file = "valid"
  /\ read' = [read EXCEPT ![r] = "verified"]
  /\ UNCHANGED <<file, disk, quarantined, lock, put, acked, unsynced, faults>>

(* ... and open the path again; without a file the call fails. *)
Open(r) ==
  /\ read[r] \in {"verified", "damaged"}
  /\ read' = [read EXCEPT ![r] =
                CASE file = "absent" -> "idle"
                  [] file = "valid" -> "opened"
                  [] file = "invalid" /\ @ = "damaged" -> "idle"
                  [] OTHER -> "deceived"]
  /\ UNCHANGED <<file, disk, quarantined, lock, put, acked, unsynced, faults>>

Close(r) ==
  /\ read[r] \in {"opened", "deceived"}
  /\ read' = [read EXCEPT ![r] = "idle"]
  /\ UNCHANGED <<file, disk, quarantined, lock, put, acked, unsynced, faults>>

-----------------------------------------------------------------------------
(* External: the stored file is damaged, also under a reader's hands. *)
Rot ==
  /\ file = "valid" /\ faults.rots < MaxRots
  /\ faults' = [faults EXCEPT !.rots = @ + 1]
  /\ file' = "invalid"
  /\ disk' = (disk \ {"valid"}) \cup {"invalid"}
  /\ acked' = "none"
  /\ read' = [r \in Readers |-> IF read[r] = "verified" THEN "damaged"
                                ELSE read[r]]
  /\ UNCHANGED <<quarantined, lock, put, unsynced>>

CallsEnd ==
  /\ lock' = Free
  /\ put' = [w \in Writers |-> NoCall]
  /\ read' = [r \in Readers |-> "idle"]

(* External: the process dies, and its calls with it; the files stay as    *)
(* every other process sees them.                                          *)
Crash ==
  /\ faults.crashes < MaxCrashes
  /\ faults' = [faults EXCEPT !.crashes = @ + 1]
  /\ unsynced' = (unsynced \/ \E w \in Writers : put[w].pc = "installed")
  /\ CallsEnd
  /\ UNCHANGED <<file, disk, quarantined, acked>>

(* External: the machine loses its power, and perhaps what was not synced. *)
PowerLoss ==
  /\ faults.losses < MaxLosses
  /\ faults' = [faults EXCEPT !.losses = @ + 1]
  /\ file' \in disk /\ disk' = {file'}
  /\ CallsEnd
  /\ UNCHANGED <<quarantined, acked, unsynced>>

Next ==
  \/ \E w \in Writers :
       \/ \E content \in Contents : Receive(w, content)
       \/ LockHash(w) \/ Quarantine(w) \/ Install(w) \/ Sync(w) \/ SyncFails(w)
  \/ \E r \in Readers : Verify(r) \/ Open(r) \/ Close(r)
  \/ GC \/ Rot \/ Crash \/ PowerLoss

Spec == Init /\ [][Next]_vars

-----------------------------------------------------------------------------
(* Every variable has its type, and the lock is held by the one call that  *)
(* is changing the file.                                                   *)
StoreTypeOK ==
  /\ file \in Contents /\ disk \subseteq Contents /\ file \in disk
  /\ quarantined \in Nat
  /\ acked \in {"none", "found", "installed"} /\ unsynced \in BOOLEAN
  /\ \A w \in Writers : put[w].pc \in {"repair", "moved", "install", "installed"}
                        <=> lock = w

(* What a Put has acknowledged is there until GC removes it or the disk    *)
(* damages it: for certain when the call installed and synced the file     *)
(* itself, whatever other calls, failed syncs, crashes and losses of power *)
(* do; and when it only found the file, as long as no call before has left *)
(* one unsynced (snapshot.go:387-401, README.md:386).                      *)
AcknowledgedIsDurable ==
  acked = "installed" \/ (acked = "found" /\ ~unsynced) => file = "valid"

(* What README.md:386 lets a caller believe: an acknowledged blob is there *)
(* after every crash.  A call that finds the file syncs nothing, and the   *)
(* one that renamed it may have died before its sync (snapshot.go:387).    *)
AcknowledgementIsPersistent == acked # "none" => file = "valid"

(* A reader whose check succeeded never gets other bytes than the ones it  *)
(* checked for, although it opens the path a second time without a lock    *)
(* while files are moved, installed and removed (snapshot.go:327); only    *)
(* damage in between, which it cannot see, excuses it.                     *)
ReadsAreVerified == \A r \in Readers : read[r] # "deceived"

(* But for a loss of power, a Put moves a damaged file nowhere but to      *)
(* quarantine/, whatever other Puts, readers, GC, failing syncs and        *)
(* crashes do in between (snapshot.go:389-401, README.md:384).             *)
DamagedIsQuarantined ==
  [][lock # Free /\ file = "invalid" /\ file' # "invalid" =>
       quarantined' > quarantined \/ faults'.losses > faults.losses]_vars
=============================================================================
