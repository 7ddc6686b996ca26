----------------------------- MODULE Capability -----------------------------
(***************************************************************************)
(* The capability gate of capability.go and the two checks of snapshot.go  *)
(* that depend on it.  A node's capabilities are version ranges and a      *)
(* level; the gate is the set of versions the cluster has switched to.     *)
(* Version 0 is Go's "field absent" and stands for the legacy version 1.   *)
(***************************************************************************)
EXTENDS Naturals

CONSTANT
  MaxSequence   \* the largest uint64, ^uint64(0): no sequence follows it

ASSUME MaxSequenceAssumption == MaxSequence \in Nat \ {0}

LegacyVersion == 1
MonotonicSnapshotSequence == 3    \* CapabilityLevelMonotonicSnapshotSequence
Wildcard == "*"
EmptyName == ""

VersionRange(min, max) == [min |-> min, max |-> max]

Supports(range, version) ==
  range.min # 0 /\ version >= range.min /\ version <= range.max

SupportedNodeCapabilities ==
  [level    |-> MonotonicSnapshotSequence,
   protocol |-> VersionRange(1, 1),
   command  |-> VersionRange(1, 1),
   manifest |-> VersionRange(1, 2),
   dataset  |-> VersionRange(1, 2)]

LegacyCapabilityGate ==
  [protocol  |-> LegacyVersion,
   command   |-> LegacyVersion,
   manifest  |-> LegacyVersion,
   datasets  |-> [name \in {Wildcard} |-> LegacyVersion],
   minLeader |-> 1,
   minVoter  |-> 1]

OrLegacy(version) == IF version = 0 THEN LegacyVersion ELSE version

NormalizeGate(g) ==
  [protocol  |-> OrLegacy(g.protocol),
   command   |-> OrLegacy(g.command),
   manifest  |-> OrLegacy(g.manifest),
   datasets  |-> IF DOMAIN g.datasets = {}
                 THEN LegacyCapabilityGate.datasets
                 ELSE [name \in DOMAIN g.datasets |-> OrLegacy(g.datasets[name])],
   minLeader |-> OrLegacy(g.minLeader),
   minVoter  |-> OrLegacy(g.minVoter)]

\* validateCapabilityGate: normalisation leaves an empty dataset name as the
\* only thing that can still be wrong.
ValidGate(g) == EmptyName \notin DOMAIN NormalizeGate(g).datasets

DatasetSchemaVersion(gate, name) ==
  LET versions == NormalizeGate(gate).datasets
  IN  IF name \in DOMAIN versions THEN versions[name]
      ELSE IF Wildcard \in DOMAIN versions THEN versions[Wildcard]
      ELSE LegacyVersion

SupportsGate(caps, gate, leader) ==
  LET g == NormalizeGate(gate)
  IN  /\ caps.level >= IF leader THEN g.minLeader ELSE g.minVoter
      /\ Supports(caps.protocol, g.protocol)
      /\ Supports(caps.command, g.command)
      /\ Supports(caps.manifest, g.manifest)
      /\ \A name \in DOMAIN g.datasets : Supports(caps.dataset, g.datasets[name])

\* validateCapabilityActivationVoters: every voter can follow under the gate
\* and at least one can lead.
ValidActivationVoters(voters, gate) ==
  /\ \A n \in DOMAIN voters : SupportsGate(voters[n], gate, FALSE)
  /\ \E n \in DOMAIN voters : SupportsGate(voters[n], gate, TRUE)

\* validateManifestCapability
ManifestMatchesGate(manifest, gate) ==
  /\ OrLegacy(manifest.schema) = NormalizeGate(gate).manifest
  /\ \A name \in DOMAIN manifest.datasets :
       OrLegacy(manifest.datasets[name]) = DatasetSchemaVersion(gate, name)

\* Mutant of IsNextSequence: the active sequence may be published again.
IsSameOrNextSequence(previous, sequence) ==
  IF previous = {} THEN sequence = 1
  ELSE \A p \in previous : sequence \in {p.sequence, p.sequence + 1}

\* validateNextSnapshotSequence; previous is {} or the active manifest.
IsNextSequence(previous, sequence) ==
  IF previous = {} THEN sequence = 1
  ELSE \A p \in previous :
         p.sequence # MaxSequence /\ sequence = p.sequence + 1
=============================================================================
