----------------------- MODULE LocalWorkspace5_proofs -----------------------
(***************************************************************************)
(* Proofs about the local v0.5 workspace: the ledger and what its commands *)
(* may never do to it.                                                     *)
(***************************************************************************)
EXTENDS LocalWorkspace5, FiniteSetTheorems, TLAPS

-----------------------------------------------------------------------------
(* The ledger.                                                             *)

IsEntry(e) ==
    e = [digest |-> e.digest, kind |-> e.kind, sources |-> e.sources, policy |-> e.policy,
         lifecycle |-> e.lifecycle, since |-> e.since]

IsManifest(g) ==
    g = [number |-> g.number, event |-> g.event, policy |-> g.policy, receipt |-> g.receipt,
         epoch |-> g.epoch, quarantine |-> g.quarantine, objects |-> g.objects]

IsSession(s) ==
    s = [id |-> s.id, plan |-> s.plan, state |-> s.state, participants |-> s.participants,
         commitments |-> s.commitments, reveals |-> s.reveals, capacity |-> s.capacity,
         reason |-> s.reason]

\* A session, in every version of it: until the commit phase is closed nothing is revealed,
\* it is closed with a commitment of everybody, and verified with a reveal of everybody.
SessionSound(s) ==
    /\ IsSession(s)
    /\ s.state \in {"CREATED", "COMMIT_OPEN"} => s.reveals = {}
    /\ s.state \in {"COMMIT_CLOSED", "REVEAL_OPEN", "VERIFY", "INTEGRATE"} =>
           Participants(s.commitments) = s.participants
    /\ s.reveals # {} => Participants(s.commitments) = s.participants
    /\ \A r \in s.reveals : \E c \in s.commitments :
           c.participant = r.participant /\ c.opening = r.opening
    /\ s.state \in {"VERIFY", "INTEGRATE"} => Participants(s.reveals) = s.participants
    /\ s.state = "INTEGRATE" => s.capacity = TRUE
    /\ s.reason = "all_verified" =>
           s.capacity = TRUE /\ Participants(s.reveals) = s.participants

\* What an entry is recorded as says what its digest is the digest of.
Proper(e) ==
    LET tag == e.digest[1]
        object == e.digest[2]
    IN /\ e.kind = "trust-policy" => tag = "policy"
       /\ e.kind = "trust-quorum-decision" => tag = "trust-quorum-decision"
       /\ e.kind = "principal-attestation" => tag = "principal-attestation"
       /\ e.kind = "scientific-witness" => tag = "typed-flow-profile"
       /\ e.kind = "projection-approval" =>
              /\ tag = "projection-approval" /\ object.projection[1] = "pending"
              /\ object.key # object.projection[2].capability[2].key
       /\ e.kind = "pending-projection" =>
              /\ tag = "pending"
              /\ object.raw[1] = "raw" /\ object.capability[1] = "principal-attestation"
       /\ e.kind = "coordination-session" => tag = "session" /\ SessionSound(object)
       /\ e.kind = "measurement-protocol" =>
              /\ e.digest = Digest(object)
              /\ object.key \notin {object.registration_key, object.evaluator_key}

\* Entries date from a generation of this history and have all their sources.
IsLedger(g) ==
    /\ IsManifest(g) /\ g.number \in Nat
    /\ \A e \in g.objects :
           /\ IsEntry(e) /\ Proper(e)
           /\ e.since \in Nat /\ e.since > 0 /\ e.since <= g.number
           /\ e.sources \subseteq Digests(g.objects)

LedgerInvariant == current = Absent \/ (Founded /\ IsLedger(current))

\* What a commit makes of an entry it found and of one it was given.
Kept(e, withdrawn) == IF e.digest \in withdrawn THEN [e EXCEPT !.lifecycle = "withdrawn"] ELSE e
Dated(e) == [e EXCEPT !.since = current.number + 1]

NextObjects(withdrawn, new) ==
    {Kept(e, withdrawn) : e \in current.objects} \cup {Dated(e) : e \in new}

SameTrust == current'.policy = current.policy /\ current'.receipt = current.receipt

\* The next generation withdraws some digests and adds some entries.
Grown(withdrawn, new) ==
    /\ Founded
    /\ IsManifest(current') /\ current'.number = current.number + 1
    /\ current'.objects = NextObjects(withdrawn, new)
    /\ current.quarantine \subseteq current'.quarantine
    /\ \A e \in new :
           /\ IsEntry(e) /\ Proper(e)
           /\ e.sources \subseteq Digests(current.objects) \cup Digests(new)

\* An entry carried to the next generation changes its lifecycle at most.
LEMMA KeptFields ==
    ASSUME NEW e, IsEntry(e), NEW withdrawn
    PROVE  LET x == Kept(e, withdrawn)
           IN /\ IsEntry(x)
              /\ x.digest = e.digest /\ x.kind = e.kind /\ x.sources = e.sources
              /\ x.policy = e.policy /\ x.since = e.since
              /\ x.lifecycle = IF e.digest \in withdrawn THEN "withdrawn" ELSE e.lifecycle
BY DEF Kept, IsEntry

\* A new entry is dated with the next generation and otherwise recorded as given.
LEMMA DatedFields ==
    ASSUME NEW e, IsEntry(e)
    PROVE  LET x == Dated(e)
           IN /\ IsEntry(x)
              /\ x.digest = e.digest /\ x.kind = e.kind /\ x.sources = e.sources
              /\ x.policy = e.policy /\ x.lifecycle = e.lifecycle
              /\ x.since = current.number + 1
BY DEF Dated, IsEntry

\* The entries of the next generation, and what they keep.
LEMMA NextEntries ==
    ASSUME LedgerInvariant, NEW withdrawn, NEW new, Grown(withdrawn, new),
           NEW z \in current'.objects
    PROVE  \/ \E e \in current.objects :
                  /\ z = Kept(e, withdrawn) /\ z.digest = e.digest /\ z.kind = e.kind
                  /\ z.sources = e.sources /\ z.since = e.since /\ e.since <= current.number
                  /\ z.lifecycle = IF e.digest \in withdrawn THEN "withdrawn" ELSE e.lifecycle
           \/ \E e \in new :
                  /\ z = Dated(e) /\ z.digest = e.digest /\ z.kind = e.kind
                  /\ z.sources = e.sources /\ z.since = current.number + 1
<1>1. z \in NextObjects(withdrawn, new)
  BY DEF Grown
<1>2. IsLedger(current)
  BY DEF LedgerInvariant, Absent, Founded, Grown
<1>3. ASSUME NEW e \in current.objects, z = Kept(e, withdrawn)
      PROVE  /\ z.digest = e.digest /\ z.kind = e.kind
             /\ z.sources = e.sources /\ z.since = e.since /\ e.since <= current.number
             /\ z.lifecycle = IF e.digest \in withdrawn THEN "withdrawn" ELSE e.lifecycle
  BY <1>2, <1>3, KeptFields DEF IsLedger
<1>4. ASSUME NEW e \in new, z = Dated(e)
      PROVE  /\ z.digest = e.digest /\ z.kind = e.kind
             /\ z.sources = e.sources /\ z.since = current.number + 1
  BY <1>4, DatedFields DEF Grown
<1> QED
  BY <1>1, <1>3, <1>4 DEF NextObjects

\* The entries of the next generation, one by one.
LEMMA GrownEntries ==
    ASSUME Founded, IsLedger(current), NEW withdrawn, NEW new, Grown(withdrawn, new)
    PROVE  /\ \A x \in current'.objects :
                  \/ \E e \in current.objects :
                         /\ x.digest = e.digest /\ x.kind = e.kind /\ x.sources = e.sources
                         /\ x.policy = e.policy /\ x.since = e.since
                         /\ x.lifecycle =
                                IF e.digest \in withdrawn THEN "withdrawn" ELSE e.lifecycle
                  \/ \E e \in new :
                         /\ x.digest = e.digest /\ x.kind = e.kind /\ x.sources = e.sources
                         /\ x.policy = e.policy /\ x.lifecycle = e.lifecycle
                         /\ x.since = current.number + 1
           /\ \A e \in current.objects : \E x \in current'.objects :
                  /\ x.digest = e.digest /\ x.kind = e.kind /\ x.sources = e.sources
                  /\ x.policy = e.policy /\ x.since = e.since
                  /\ x.lifecycle = IF e.digest \in withdrawn THEN "withdrawn" ELSE e.lifecycle
           /\ \A e \in new : \E x \in current'.objects :
                  /\ x.digest = e.digest /\ x.kind = e.kind /\ x.sources = e.sources
                  /\ x.policy = e.policy /\ x.lifecycle = e.lifecycle
                  /\ x.since = current.number + 1
           /\ Digests(current'.objects) = Digests(current.objects) \cup Digests(new)
<1>1. \A e \in current.objects : IsEntry(e)
  BY DEF IsLedger
<1>2. \A e \in new : IsEntry(e)
  BY DEF Grown
<1>3. current'.objects = {Kept(e, withdrawn) : e \in current.objects} \cup {Dated(e) : e \in new}
  BY DEF Grown, NextObjects
<1>4. \A x \in current'.objects :
          \/ \E e \in current.objects :
                 /\ x.digest = e.digest /\ x.kind = e.kind /\ x.sources = e.sources
                 /\ x.policy = e.policy /\ x.since = e.since
                 /\ x.lifecycle = IF e.digest \in withdrawn THEN "withdrawn" ELSE e.lifecycle
          \/ \E e \in new :
                 /\ x.digest = e.digest /\ x.kind = e.kind /\ x.sources = e.sources
                 /\ x.policy = e.policy /\ x.lifecycle = e.lifecycle
                 /\ x.since = current.number + 1
  BY <1>1, <1>2, <1>3, KeptFields, DatedFields
<1>5. \A e \in current.objects : \E x \in current'.objects :
          /\ x.digest = e.digest /\ x.kind = e.kind /\ x.sources = e.sources
          /\ x.policy = e.policy /\ x.since = e.since
          /\ x.lifecycle = IF e.digest \in withdrawn THEN "withdrawn" ELSE e.lifecycle
  BY <1>1, <1>3, KeptFields
<1>6. \A e \in new : \E x \in current'.objects :
          /\ x.digest = e.digest /\ x.kind = e.kind /\ x.sources = e.sources
          /\ x.policy = e.policy /\ x.lifecycle = e.lifecycle
          /\ x.since = current.number + 1
  BY <1>2, <1>3, DatedFields
<1>7. Digests(current'.objects) = Digests(current.objects) \cup Digests(new)
  <2>1. ASSUME NEW d \in Digests(current'.objects)
        PROVE  d \in Digests(current.objects) \cup Digests(new)
    <3>1. PICK x \in current'.objects : x.digest = d
      BY <2>1 DEF Digests
    <3> QED
      BY <1>4, <3>1 DEF Digests
  <2>2. ASSUME NEW d \in Digests(current.objects) \cup Digests(new)
        PROVE  d \in Digests(current'.objects)
    BY <1>5, <1>6, <2>2 DEF Digests
  <2> QED
    BY <2>1, <2>2
<1> QED
  BY <1>4, <1>5, <1>6, <1>7, Zenon

\* A commit of well-formed entries leaves a well-formed ledger.
LEMMA GrownLedger ==
    ASSUME Founded, IsLedger(current), NEW withdrawn, NEW new, Grown(withdrawn, new)
    PROVE  Founded' /\ IsLedger(current)'
<1>1. IsManifest(current') /\ current'.number = current.number + 1 /\ current.number \in Nat
  BY DEF Grown, IsLedger
<1>2. ASSUME NEW x \in current'.objects
      PROVE  /\ IsEntry(x) /\ Proper(x)
             /\ x.since \in Nat /\ x.since > 0 /\ x.since <= current'.number
             /\ x.sources \subseteq Digests(current'.objects)
  <2>1. CASE \E e \in current.objects : x = Kept(e, withdrawn)
    <3>1. PICK e \in current.objects : x = Kept(e, withdrawn)
      BY <2>1
    <3>2. /\ IsEntry(e) /\ Proper(e)
          /\ e.since \in Nat /\ e.since > 0 /\ e.since <= current.number
          /\ e.sources \subseteq Digests(current.objects)
      BY DEF IsLedger
    <3>3. /\ IsEntry(x)
          /\ x.digest = e.digest /\ x.kind = e.kind /\ x.sources = e.sources
          /\ x.since = e.since
      BY <3>1, <3>2, KeptFields
    <3>4. Proper(x)
      BY <3>2, <3>3, Zenon DEF Proper
    <3>5. x.sources \subseteq Digests(current'.objects)
      BY <3>2, <3>3, GrownEntries, Zenon
    <3> QED
      BY <1>1, <3>2, <3>3, <3>4, <3>5
  <2>2. CASE \E e \in new : x = Dated(e)
    <3>1. PICK e \in new : x = Dated(e)
      BY <2>2
    <3>2. /\ IsEntry(e) /\ Proper(e)
          /\ e.sources \subseteq Digests(current.objects) \cup Digests(new)
      BY DEF Grown
    <3>3. /\ IsEntry(x)
          /\ x.digest = e.digest /\ x.kind = e.kind /\ x.sources = e.sources
          /\ x.since = current.number + 1
      BY <3>1, <3>2, DatedFields
    <3>4. Proper(x)
      BY <3>2, <3>3, Zenon DEF Proper
    <3>5. x.sources \subseteq Digests(current'.objects)
      <4>1. Digests(current'.objects) = Digests(current.objects) \cup Digests(new)
        BY GrownEntries, Zenon
      <4> QED
        BY <3>2, <3>3, <4>1
    <3> QED
      BY <1>1, <3>3, <3>4, <3>5
  <2> QED
    BY <2>1, <2>2 DEF Grown, NextObjects
<1> QED
  BY <1>1, <1>2 DEF Founded, IsLedger

\* Successor, field by field.
LEMMA SuccessorIs ==
    ASSUME IsManifest(current), NEW event, NEW withdrawn, NEW new
    PROVE  Successor(current, event, withdrawn, new) =
               [number |-> current.number + 1, event |-> event, policy |-> current.policy,
                receipt |-> current.receipt, epoch |-> current.epoch,
                quarantine |-> current.quarantine, objects |-> NextObjects(withdrawn, new)]
<1>1. Successor(current, event, withdrawn, new) =
          [current EXCEPT !.number = current.number + 1, !.event = event,
                          !.objects = Withdraw(current.objects, withdrawn)
                              \cup {[e EXCEPT !.since = current.number + 1] : e \in new}]
  BY DEF Successor, IsManifest
<1>2. NextObjects(withdrawn, new) =
          Withdraw(current.objects, withdrawn)
              \cup {[e EXCEPT !.since = current.number + 1] : e \in new}
  BY Zenon DEF NextObjects, Withdraw, Kept, Dated
<1>3. Successor(current, event, withdrawn, new) =
          [current EXCEPT !.number = current.number + 1, !.event = event,
                          !.objects = NextObjects(withdrawn, new)]
  BY <1>1, <1>2
<1> QED
  BY <1>3 DEF IsManifest

\* What GenerationStoreV5.commit makes of the ledger.
LEMMA CommitGrows ==
    ASSUME LedgerInvariant, NEW event, NEW withdrawn, NEW new,
           Commit(event, withdrawn, new), \A e \in new : IsEntry(e) /\ Proper(e)
    PROVE  /\ Grown(withdrawn, new) /\ SameTrust
           /\ current'.quarantine = current.quarantine
           /\ Digests(new) \cap Digests(current.objects) = {}
<1>1. Founded /\ IsManifest(current)
  <2>1. Founded
    BY DEF Commit, Room
  <2> QED
    BY <2>1 DEF LedgerInvariant, Founded, Absent, IsLedger
<1>2. current' = Successor(current, event, withdrawn, new) /\ Accepts(current, new)
  BY DEF Commit
<1>3. /\ IsManifest(current') /\ current'.number = current.number + 1
      /\ current'.policy = current.policy /\ current'.receipt = current.receipt
      /\ current'.quarantine = current.quarantine
      /\ current'.objects = NextObjects(withdrawn, new)
  BY <1>1, <1>2, SuccessorIs DEF IsManifest
<1> QED
  BY <1>1, <1>2, <1>3 DEF Grown, SameTrust, Accepts

-----------------------------------------------------------------------------
(* The commands, by what they add to the ledger.                           *)

\* The kinds the properties are about; every other kind may be added by anyone.
SpecialKinds ==
    {"trust-policy", "trust-quorum-decision", "principal-attestation", "scientific-witness",
     "coordination-session", "measurement-protocol", "action-receipt", "pending-projection",
     "projection-approval", "promoted-projection"}

Special(E) == {e \in E : e.kind \in SpecialKinds}

Fresh(new) == Digests(new) \cap Digests(current.objects) = {}

\* Raw artifacts, legacy files, signed objects, time, amendments and results.
Ordinary(withdrawn, new) ==
    /\ withdrawn = {} /\ Special(new) = {}
    /\ current'.policy = current.policy
    /\ \/ current'.receipt = current.receipt
       \/ TimeKnown /\ current'.receipt.schema = "trusted-time-receipt"

\* Attestations and flow profiles.
Attesting(withdrawn, new) ==
    /\ withdrawn = {} /\ TimeKnown /\ SameTrust
    /\ \A e \in Special(new) :
           \/ e.kind = "scientific-witness"
           \/ e.kind = "principal-attestation" /\ \E d : e.sources = {d}

\* A session moves on.
Transition(withdrawn, new) ==
    /\ SameTrust
    /\ \A d \in withdrawn : d[1] = "session"
    /\ \A e \in Special(new) : e.kind = "coordination-session"

\* A protocol is registered.
Registering(withdrawn, new) ==
    /\ withdrawn = {} /\ SameTrust
    /\ \A e \in Special(new) : e.kind = "measurement-protocol"
    /\ \A e, f \in Special(new) : e = f

\* An import of raw bytes touches no policy, session, protocol or run.
LEMMA RawIsOrdinary ==
    ASSUME LedgerInvariant, NEW r, import_raw_v5(r)
    PROVE  \E withdrawn, new : Grown(withdrawn, new) /\ Ordinary(withdrawn, new)
<1> DEFINE new == {ledger_entry(<<"raw", r>>, "raw-artifact", {}, NoPolicy)}
<1>1. Commit("object_imported", {}, new)
  BY DEF import_raw_v5
<1>2. \A e \in new : IsEntry(e) /\ e.kind = "raw-artifact"
  BY DEF ledger_entry, IsEntry
<1> HIDE DEF new
<1>3. \A e \in new : Proper(e)
  BY <1>2 DEF Proper
<1>4. Special(new) = {}
  BY <1>2 DEF Special, SpecialKinds
<1> QED
  BY <1>1, <1>2, <1>3, <1>4, CommitGrows DEF Ordinary, SameTrust

\* Nor does the migration of a legacy directory.
LEMMA LegacyIsOrdinary ==
    ASSUME LedgerInvariant, NEW files, MigrateLegacy(files)
    PROVE  \E withdrawn, new : Grown(withdrawn, new) /\ Ordinary(withdrawn, new)
<1> DEFINE E(f) == [ledger_entry(<<"legacy", f>>, "legacy-manifest", {}, NoPolicy)
                        EXCEPT !.lifecycle = "quarantined"]
           new == {E(f) : f \in files}
<1>1. /\ current.number = 1
      /\ current' = [Successor(current, "legacy_migrated", {}, new)
                        EXCEPT !.quarantine = @ \cup Digests(new)]
  BY DEF MigrateLegacy
<1>2. \A f \in files : IsEntry(E(f)) /\ E(f).kind = "legacy-manifest" /\ E(f).sources = {}
  BY DEF ledger_entry, IsEntry
<1>3. \A e \in new : IsEntry(e) /\ e.kind = "legacy-manifest" /\ e.sources = {}
  <2> HIDE DEF E
  <2> QED
    BY <1>2
<1> HIDE DEF new
<1>4. Founded /\ IsLedger(current)
  BY <1>1 DEF LedgerInvariant, Absent, Founded
<1>5. /\ IsManifest(current') /\ current'.number = current.number + 1
      /\ current'.policy = current.policy /\ current'.receipt = current.receipt
      /\ current'.quarantine = current.quarantine \cup Digests(new)
      /\ current'.objects = NextObjects({}, new)
  <2>1. IsManifest(current)
    BY <1>4 DEF IsLedger
  <2> QED
    BY <1>1, <2>1, SuccessorIs DEF IsManifest
<1>6. \A e \in new : Proper(e)
  BY <1>3 DEF Proper
<1>7. Special(new) = {}
  BY <1>3 DEF Special, SpecialKinds
<1>8. Grown({}, new)
  BY <1>3, <1>4, <1>5, <1>6 DEF Grown
<1> QED
  BY <1>5, <1>7, <1>8 DEF Ordinary

\* An import of an attestation adds that attestation.
LEMMA AttestationIsAttesting ==
    ASSUME LedgerInvariant, NEW s, import_attestation_v5(s)
    PROVE  \E withdrawn, new : Grown(withdrawn, new) /\ Attesting(withdrawn, new)
<1> DEFINE new == {SignedEntry(current, s, "principal-attestation", {s.source})}
<1>1. Commit("object_imported", {}, new) /\ TimeKnown /\ s.schema = "principal-attestation"
  BY DEF import_attestation_v5, _validate_attestation
<1>2. \A e \in new : /\ IsEntry(e) /\ e.kind = "principal-attestation"
                     /\ e.sources = {s.source} /\ e.digest[1] = s.schema
  BY DEF SignedEntry, Digest, ledger_entry, IsEntry
<1> HIDE DEF new
<1>3. \A e \in new : Proper(e)
  BY <1>1, <1>2 DEF Proper
<1> QED
  BY <1>1, <1>2, <1>3, CommitGrows, ZenonT(30) DEF Attesting, Special

\* So does the import of a signed object that wraps one.
LEMMA SignedObjectStep ==
    ASSUME LedgerInvariant, NEW s, import_signed_object_v5(s)
    PROVE  \E withdrawn, new : Grown(withdrawn, new) /\ Attesting(withdrawn, new)
<1> DEFINE sources == s.names \cap Digests(current.objects)
           kind == SIGNED_IMPORT_KINDS[s.schema]
           e1 == SignedEntry(current, s, kind, sources)
           e2 == ledger_entry(<<"profile", s.payload>>, "typed-flow-profile",
                              {Digest(s)}, current.policy)
           new == {e1} \cup IF s.schema = "typed-flow-profile" THEN {e2} ELSE {}
<1>1. /\ Commit("object_imported", {}, new) /\ TimeKnown
      /\ s.schema \in DOMAIN SIGNED_IMPORT_KINDS
  BY DEF import_signed_object_v5
<1>2. IF s.schema = "typed-flow-profile" THEN kind = "scientific-witness"
      ELSE kind \in {"dataset-record", "analysis-executable-record", "acceleration-evidence",
                     "adapter-capability", "execution-policy"}
  BY <1>1 DEF SIGNED_IMPORT_KINDS
<1> HIDE DEF kind
<1>3. IsEntry(e1) /\ e1.kind = kind /\ e1.digest[1] = s.schema
  BY DEF SignedEntry, Digest, ledger_entry, IsEntry
<1>4. IsEntry(e2) /\ e2.kind = "typed-flow-profile"
  BY DEF ledger_entry, IsEntry
<1> HIDE DEF e1, e2
<1>5. Proper(e1) /\ (e1.kind \in SpecialKinds => e1.kind = "scientific-witness")
  BY <1>2, <1>3 DEF Proper, SpecialKinds
<1>6. Proper(e2) /\ e2.kind \notin SpecialKinds
  BY <1>4 DEF Proper, SpecialKinds
<1>7. \A e \in new : IsEntry(e) /\ Proper(e)
  BY <1>3, <1>4, <1>5, <1>6
<1>8. \A e \in Special(new) : e.kind = "scientific-witness"
  BY <1>5, <1>6 DEF Special
<1> HIDE DEF new
<1> QED
  BY <1>1, <1>7, <1>8, CommitGrows DEF Attesting

\* An advance of trusted time adds a receipt only.
LEMMA TimeIsOrdinary ==
    ASSUME LedgerInvariant, NEW receipt, advance_time_v5(receipt)
    PROVE  \E withdrawn, new : Grown(withdrawn, new) /\ Ordinary(withdrawn, new)
<1> DEFINE new == {SignedEntry(current, receipt, "trusted-time-receipt", {})}
<1>1. /\ TimeKnown /\ verify_time_receipt(receipt, policy)
      /\ current' = [Successor(current, "time_advanced", {}, new)
                        EXCEPT !.receipt = receipt, !.epoch = receipt.event_time]
  BY DEF advance_time_v5
<1>2. \A e \in new : IsEntry(e) /\ e.kind = "trusted-time-receipt" /\ e.sources = {}
  BY DEF SignedEntry, ledger_entry, IsEntry
<1> HIDE DEF new
<1>3. Founded /\ IsLedger(current)
  BY <1>1 DEF LedgerInvariant, Absent, Founded, TimeKnown
<1>4. /\ IsManifest(current') /\ current'.number = current.number + 1
      /\ current'.policy = current.policy /\ current'.receipt = receipt
      /\ current'.quarantine = current.quarantine
      /\ current'.objects = NextObjects({}, new)
  <2>1. IsManifest(current)
    BY <1>3 DEF IsLedger
  <2>2. Successor(current, "time_advanced", {}, new) =
            [number |-> current.number + 1, event |-> "time_advanced", policy |-> current.policy,
             receipt |-> current.receipt, epoch |-> current.epoch,
             quarantine |-> current.quarantine, objects |-> NextObjects({}, new)]
    BY <2>1, SuccessorIs
  <2>3. current' = [number |-> current.number + 1, event |-> "time_advanced",
                    policy |-> current.policy, receipt |-> receipt,
                    epoch |-> receipt.event_time, quarantine |-> current.quarantine,
                    objects |-> NextObjects({}, new)]
    <3> DEFINE m == [Successor(current, "time_advanced", {}, new) EXCEPT !.receipt = receipt]
    <3>1. m = [number |-> current.number + 1, event |-> "time_advanced",
               policy |-> current.policy, receipt |-> receipt,
               epoch |-> current.epoch, quarantine |-> current.quarantine,
               objects |-> NextObjects({}, new)]
      BY <2>2
    <3>2. current' = [m EXCEPT !.epoch = receipt.event_time]
      BY <1>1
    <3> HIDE DEF m
    <3> QED
      BY <3>1, <3>2
  <2> QED
    BY <2>3 DEF IsManifest
<1>5. \A e \in new : Proper(e)
  BY <1>2 DEF Proper
<1>6. Special(new) = {}
  BY <1>2 DEF Special, SpecialKinds
<1>7. receipt.schema = "trusted-time-receipt"
  BY <1>1 DEF verify_time_receipt, Expect
<1>8. Grown({}, new)
  BY <1>2, <1>3, <1>4, <1>5 DEF Grown
<1> QED
  BY <1>1, <1>4, <1>6, <1>7, <1>8 DEF Ordinary

\* An amendment adds itself only.
LEMMA AmendmentIsOrdinary ==
    ASSUME LedgerInvariant, NEW amendment, NEW receipt, import_amendment_v5(amendment, receipt)
    PROVE  \E withdrawn, new : Grown(withdrawn, new) /\ Ordinary(withdrawn, new)
<1> DEFINE e1 == SignedEntry(current, receipt, "trusted-time-receipt", {Digest(amendment)})
           e2 == SignedEntry(current, amendment, "protocol-amendment",
                             {amendment.protocol, Digest(receipt)}
                             \cup ({amendment.previous} \ {NoDigest}))
           new == {e1, e2}
<1>1. Commit("amendment_imported", {}, new)
  BY DEF import_amendment_v5
<1>2. IsEntry(e1) /\ e1.kind = "trusted-time-receipt"
  BY DEF SignedEntry, ledger_entry, IsEntry
<1>3. IsEntry(e2) /\ e2.kind = "protocol-amendment"
  BY DEF SignedEntry, ledger_entry, IsEntry
<1> HIDE DEF e1, e2
<1>4. \A e \in new : IsEntry(e) /\ Proper(e) /\ e.kind \notin SpecialKinds
  BY <1>2, <1>3 DEF Proper, SpecialKinds
<1> HIDE DEF new
<1>5. Special(new) = {}
  BY <1>4 DEF Special
<1> QED
  BY <1>1, <1>4, <1>5, CommitGrows DEF Ordinary, SameTrust

\* A trial result adds itself only.
LEMMA ResultIsOrdinary ==
    ASSUME LedgerInvariant, NEW r, import_result_v5(r)
    PROVE  \E withdrawn, new : Grown(withdrawn, new) /\ Ordinary(withdrawn, new)
<1> DEFINE new == {SignedEntry(current, r, "trial-result-certificate",
                               {r.protocol, r.dataset, r.executable})}
<1>1. Commit("trial_result_imported", {}, new)
  BY DEF import_result_v5
<1>2. \A e \in new : IsEntry(e) /\ e.kind = "trial-result-certificate"
  BY DEF SignedEntry, ledger_entry, IsEntry
<1> HIDE DEF new
<1>3. \A e \in new : Proper(e)
  BY <1>2 DEF Proper
<1>4. Special(new) = {}
  BY <1>2 DEF Special, SpecialKinds
<1> QED
  BY <1>1, <1>2, <1>3, <1>4, CommitGrows DEF Ordinary, SameTrust

\* A protocol is registered with the digest and the key it was signed with.
LEMMA ProtocolIsRegistering ==
    ASSUME LedgerInvariant, NEW protocol, NEW key, NEW receipt,
           import_protocol_v5(protocol, key, receipt)
    PROVE  \E withdrawn, new : Grown(withdrawn, new) /\ Registering(withdrawn, new)
<1> DEFINE registration == Registration(key, protocol, receipt)
           d == Digest(protocol)
           e1 == SignedEntry(current, receipt, "trusted-time-receipt", {d})
           e2 == SignedEntry(current, registration, "registration-receipt", {d, Digest(receipt)})
           e3 == SignedEntry(current, protocol, "measurement-protocol",
                             {Digest(registration), Digest(receipt)})
           all == {e1, e2, e3}
           new == {e \in all : e.digest \notin Digests(current.objects)}
<1>1. /\ Commit("protocol_imported", {}, new)
      /\ _verify_protocol_bundle(protocol, registration, receipt)
  BY DEF import_protocol_v5
<1>2. protocol.key \notin {protocol.registration_key, protocol.evaluator_key}
  <2>1. protocol.schema = "measurement-protocol" /\ registration.schema = "registration-receipt"
    BY <1>1 DEF _verify_protocol_bundle, Expect
  <2>2. protocol # registration
    BY <2>1
  <2>3. protocol.key # registration.key
    BY <1>1, <2>2 DEF _verify_protocol_bundle, Disjoint
  <2> QED
    BY <1>1, <2>3 DEF _verify_protocol_bundle
<1>3. IsEntry(e1) /\ e1.kind = "trusted-time-receipt"
  BY DEF SignedEntry, ledger_entry, IsEntry
<1>4. IsEntry(e2) /\ e2.kind = "registration-receipt"
  BY DEF SignedEntry, ledger_entry, IsEntry
<1>5. IsEntry(e3) /\ e3.kind = "measurement-protocol" /\ e3.digest = Digest(protocol)
  BY DEF SignedEntry, ledger_entry, IsEntry
<1> HIDE DEF e1, e2, e3
<1>6. Proper(e1) /\ e1.kind \notin SpecialKinds /\ Proper(e2) /\ e2.kind \notin SpecialKinds
  BY <1>3, <1>4 DEF Proper, SpecialKinds
<1>7. Proper(e3)
  <2>1. e3.digest[2] = protocol
    BY <1>5 DEF Digest
  <2> QED
    BY <1>2, <1>5, <2>1 DEF Proper
<1>8. \A e \in new : IsEntry(e) /\ Proper(e)
  BY <1>3, <1>4, <1>5, <1>6, <1>7
<1>9. \A e \in Special(new) : e = e3
  BY <1>6 DEF Special
<1> HIDE DEF new
<1> QED
  BY <1>1, <1>5, <1>8, <1>9, CommitGrows DEF Registering

-----------------------------------------------------------------------------
(* Sessions.                                                               *)

\* _replace_session withdraws one session and adds its successor, if that is sound.
LEMMA ReplaceIsTransition ==
    ASSUME LedgerInvariant, NEW old \in Objects("coordination-session"), NEW session,
           SessionSound(session), NEW events, _replace_session(old, session, events)
    PROVE  \E withdrawn, new : Grown(withdrawn, new) /\ Transition(withdrawn, new)
<1> DEFINE E(s) == SignedEntry(current, s, "coordination-event", {old.digest})
           e1 == SessionEntry(session, {old.digest} \cup {Digest(s) : s \in events})
           new == {E(s) : s \in events} \cup {e1}
<1>1. Commit("coordination_transition", {old.digest}, new)
  BY DEF _replace_session
<1>2. Founded /\ IsLedger(current) /\ old \in current.objects /\ old.kind = "coordination-session"
  BY <1>1 DEF Commit, Room, LedgerInvariant, Absent, Founded, Objects
<1>3. old.digest[1] = "session"
  BY <1>2 DEF IsLedger, Proper
<1>4. \A s \in events : IsEntry(E(s)) /\ E(s).kind = "coordination-event"
  BY DEF SignedEntry, ledger_entry, IsEntry
<1>5. /\ IsEntry(e1) /\ e1.kind = "coordination-session"
      /\ e1.digest = <<"session", session>>
  BY DEF SessionEntry, ledger_entry, IsEntry
<1> HIDE DEF E, e1
<1>6. \A s \in events : Proper(E(s)) /\ E(s).kind \notin SpecialKinds
  BY <1>4 DEF Proper, SpecialKinds
<1>7. Proper(e1)
  BY <1>5 DEF Proper
<1>8. \A e \in new : IsEntry(e) /\ Proper(e)
  BY <1>4, <1>5, <1>6, <1>7
<1>9. \A e \in Special(new) : e.kind = "coordination-session"
  BY <1>5, <1>6 DEF Special
<1> HIDE DEF new
<1> QED
  BY <1>1, <1>3, <1>8, <1>9, CommitGrows DEF Transition

\* A new session is sound: nothing is committed or revealed in it.
LEMMA InitIsTransition ==
    ASSUME LedgerInvariant, NEW plan, coordination_init_v5(plan)
    PROVE  \E withdrawn, new : Grown(withdrawn, new) /\ Transition(withdrawn, new)
<1> DEFINE p == <<"plan", plan>>
           session == [id |-> plan.id, plan |-> plan.plan, state |-> "CREATED",
                       participants |-> plan.participants, commitments |-> {}, reveals |-> {},
                       capacity |-> FALSE, reason |-> ""]
           e1 == ledger_entry(p, "coordination-plan", {}, NoPolicy)
           e2 == SessionEntry(session, {p})
           new == {e1, e2}
<1>1. Commit("coordination_transition", {}, new)
  BY DEF coordination_init_v5
<1>2. IsEntry(e1) /\ e1.kind = "coordination-plan"
  BY DEF ledger_entry, IsEntry
<1>3. SessionSound(session)
  BY DEF SessionSound, IsSession
<1> HIDE DEF session
<1>4. /\ IsEntry(e2) /\ e2.kind = "coordination-session"
      /\ e2.digest = <<"session", session>>
  BY DEF SessionEntry, ledger_entry, IsEntry
<1> HIDE DEF e1, e2
<1>5. Proper(e1) /\ e1.kind \notin SpecialKinds
  BY <1>2 DEF Proper, SpecialKinds
<1>6. Proper(e2)
  BY <1>3, <1>4 DEF Proper
<1>7. \A e \in new : IsEntry(e) /\ Proper(e)
  BY <1>2, <1>4, <1>5, <1>6
<1>8. \A e \in Special(new) : e.kind = "coordination-session"
  BY <1>4, <1>5 DEF Special
<1> HIDE DEF new
<1> QED
  BY <1>1, <1>7, <1>8, CommitGrows DEF Transition

\* The session with an identifier, as the commands read it.
LEMMA ReadSession ==
    ASSUME LedgerInvariant, Founded, NEW id, NEW old \in _session(current, id)
    PROVE  old \in Objects("coordination-session") /\ SessionSound(old.digest[2])
<1>1. IsLedger(current)
  BY DEF LedgerInvariant, Absent, Founded
<1>2. old \in current.objects /\ old.kind = "coordination-session"
  BY DEF _session, _active_sessions, Active
<1>3. Proper(old)
  BY <1>1, <1>2 DEF IsLedger
<1> QED
  BY <1>2, <1>3 DEF Proper, Objects

\* Its versions, one transition at a time.
LEMMA CommittedIsSound ==
    ASSUME NEW session, SessionSound(session), session.state \in {"CREATED", "COMMIT_OPEN"}, NEW s
    PROVE  SessionSound([session EXCEPT !.state = "COMMIT_OPEN", !.commitments = @ \cup {s}])
<1> DEFINE m == [session EXCEPT !.state = "COMMIT_OPEN"]
           new == [m EXCEPT !.commitments = session.commitments \cup {s}]
<1>0. IsSession(session)
  BY DEF SessionSound
<1>1. /\ IsSession(m) /\ m.state = "COMMIT_OPEN" /\ m.reveals = session.reveals
      /\ m.participants = session.participants /\ m.capacity = session.capacity
      /\ m.reason = session.reason /\ m.commitments = session.commitments
  BY <1>0 DEF IsSession
<1> HIDE DEF m
<1>2. /\ IsSession(new) /\ new.state = "COMMIT_OPEN" /\ new.reveals = session.reveals
      /\ new.participants = session.participants /\ new.capacity = session.capacity
      /\ new.reason = session.reason
  BY <1>1 DEF IsSession
<1>3. session.reveals = {}
  BY DEF SessionSound
<1> HIDE DEF new
<1>4. SessionSound(new)
  BY <1>2, <1>3 DEF SessionSound
<1> QED
  BY <1>4 DEF m, new

\* A reveal that opens a commitment leaves a sound session.
LEMMA RevealedIsSound ==
    ASSUME NEW session, SessionSound(session), session.state = "REVEAL_OPEN",
           NEW c \in session.commitments, NEW s,
           c.participant = s.participant, c.opening = s.opening
    PROVE  SessionSound([session EXCEPT !.reveals = @ \cup {s}])
<1> DEFINE new == [session EXCEPT !.reveals = session.reveals \cup {s}]
<1>0. IsSession(session)
  BY DEF SessionSound
<1>1. /\ IsSession(new) /\ new.state = "REVEAL_OPEN" /\ new.reveals = session.reveals \cup {s}
      /\ new.participants = session.participants /\ new.capacity = session.capacity
      /\ new.reason = session.reason /\ new.commitments = session.commitments
  BY <1>0 DEF IsSession
<1> HIDE DEF new
<1>2. Participants(session.commitments) = session.participants
  BY DEF SessionSound
<1>3. s.participant \in session.participants
  BY <1>2 DEF Participants
<1>4. Participants(session.reveals) = session.participants =>
          Participants(new.reveals) = session.participants
  BY <1>1, <1>3 DEF Participants
<1>5. \A r \in new.reveals : \E b \in new.commitments :
          b.participant = r.participant /\ b.opening = r.opening
  BY <1>1 DEF SessionSound
<1>6. SessionSound(new)
  BY <1>1, <1>2, <1>4, <1>5 DEF SessionSound
<1> QED
  BY <1>6 DEF new

\* A session that _route sends on is one in which all required reveals are in.
LEMMA RoutedIsSound ==
    ASSUME NEW session, SessionSound(session), NEW capacity,
           NEW next, next = RouteTo(session, capacity), next # "refused"
    PROVE  SessionSound([session EXCEPT !.state = next, !.capacity = @ \/ next = "INTEGRATE"])
<1> DEFINE d == session.capacity \/ next = "INTEGRATE"
           m == [session EXCEPT !.state = next]
           new == [m EXCEPT !.capacity = d]
<1>0. IsSession(session)
  BY DEF SessionSound
<1>1. /\ next = "INTEGRATE" => d = TRUE
      /\ session.capacity = TRUE => d = TRUE
  BY Zenon
<1>2. /\ IsSession(m) /\ m.state = next /\ m.reveals = session.reveals
      /\ m.participants = session.participants /\ m.capacity = session.capacity
      /\ m.reason = session.reason /\ m.commitments = session.commitments
  BY <1>0 DEF IsSession
<1> HIDE DEF d, m
<1>3. /\ IsSession(new) /\ new.state = next /\ new.reveals = session.reveals
      /\ new.participants = session.participants /\ new.capacity = d
      /\ new.reason = session.reason /\ new.commitments = session.commitments
  BY <1>2 DEF IsSession
<1> HIDE DEF new
<1>4. \/ /\ next = "COMMIT_CLOSED" /\ session.state = "COMMIT_OPEN"
         /\ Participants(session.commitments) = session.participants
      \/ next = "REVEAL_OPEN" /\ session.state = "COMMIT_CLOSED"
      \/ /\ next = "VERIFY" /\ session.state = "REVEAL_OPEN"
         /\ Participants(session.reveals) = session.participants
      \/ next = "INTEGRATE" /\ session.state = "VERIFY"
  BY DEF RouteTo
<1>5. SessionSound(new)
  BY <1>1, <1>3, <1>4 DEF SessionSound
<1> QED
  BY <1>5 DEF m, new, d

\* A terminated session is sound, and succeeds from INTEGRATE only.
LEMMA TerminatedIsSound ==
    ASSUME NEW session, SessionSound(session),
           NEW reason, reason = "all_verified" => session.state = "INTEGRATE"
    PROVE  SessionSound([session EXCEPT !.state = "TERMINATED", !.reason = reason])
<1> DEFINE m == [session EXCEPT !.state = "TERMINATED"]
           new == [m EXCEPT !.reason = reason]
<1>0. IsSession(session)
  BY DEF SessionSound
<1>1. /\ IsSession(m) /\ m.state = "TERMINATED" /\ m.reveals = session.reveals
      /\ m.participants = session.participants /\ m.capacity = session.capacity
      /\ m.commitments = session.commitments
  BY <1>0 DEF IsSession
<1> HIDE DEF m
<1>2. /\ IsSession(new) /\ new.state = "TERMINATED" /\ new.reveals = session.reveals
      /\ new.participants = session.participants /\ new.capacity = session.capacity
      /\ new.reason = reason /\ new.commitments = session.commitments
  BY <1>1 DEF IsSession
<1> HIDE DEF new
<1>3. SessionSound(new)
  BY <1>2 DEF SessionSound
<1> QED
  BY <1>3 DEF m, new

\* Every coordination command is such a replacement.
LEMMA CoordinatingIsTransition ==
    ASSUME LedgerInvariant, Coordinating
    PROVE  \E withdrawn, new : Grown(withdrawn, new) /\ Transition(withdrawn, new)
<1>1. ASSUME NEW id, NEW key, NEW o, coordination_commit_v5(id, key, o)
      PROVE  \E withdrawn, new : Grown(withdrawn, new) /\ Transition(withdrawn, new)
  <2> DEFINE s == Event("proposal-commitment", key, id, o)
  <2>1. PICK old \in _session(current, id) :
            /\ old.digest[2].state \in {"CREATED", "COMMIT_OPEN"}
            /\ _replace_session(old, [old.digest[2] EXCEPT !.state = "COMMIT_OPEN",
                                                           !.commitments = @ \cup {s}], {s})
    BY <1>1 DEF coordination_commit_v5
  <2>2. Founded /\ old \in Objects("coordination-session") /\ SessionSound(old.digest[2])
    BY <1>1, ReadSession DEF coordination_commit_v5
  <2> HIDE DEF s
  <2>3. SessionSound([old.digest[2] EXCEPT !.state = "COMMIT_OPEN", !.commitments = @ \cup {s}])
    BY <2>1, <2>2, CommittedIsSound
  <2> QED
    BY <2>1, <2>2, <2>3, ReplaceIsTransition
<1>2. ASSUME NEW id, NEW key, NEW o, coordination_reveal_v5(id, key, o)
      PROVE  \E withdrawn, new : Grown(withdrawn, new) /\ Transition(withdrawn, new)
  <2> DEFINE s == Event("proposal-reveal", key, id, o)
  <2>1. PICK old \in _session(current, id) :
            /\ old.digest[2].state = "REVEAL_OPEN"
            /\ \E c \in old.digest[2].commitments : c.participant = key /\ c.opening = o
            /\ _replace_session(old, [old.digest[2] EXCEPT !.reveals = @ \cup {s}], {s})
    BY <1>2 DEF coordination_reveal_v5
  <2>2. Founded /\ old \in Objects("coordination-session") /\ SessionSound(old.digest[2])
    BY <1>2, ReadSession DEF coordination_reveal_v5
  <2>3. s.participant = key /\ s.opening = o
    BY DEF Event
  <2> HIDE DEF s
  <2>4. SessionSound([old.digest[2] EXCEPT !.reveals = @ \cup {s}])
    BY <2>1, <2>2, <2>3, RevealedIsSound
  <2> QED
    BY <2>1, <2>2, <2>4, ReplaceIsTransition
<1>3. ASSUME NEW id, NEW capacity, coordination_route_v5(id, capacity)
      PROVE  \E withdrawn, new : Grown(withdrawn, new) /\ Transition(withdrawn, new)
  <2>1. PICK old \in _session(current, id) :
            /\ RouteTo(old.digest[2], capacity) # "refused"
            /\ _replace_session(old,
                   [old.digest[2] EXCEPT !.state = RouteTo(old.digest[2], capacity),
                        !.capacity = @ \/ RouteTo(old.digest[2], capacity) = "INTEGRATE"], {})
    BY <1>3 DEF coordination_route_v5
  <2>2. Founded /\ old \in Objects("coordination-session") /\ SessionSound(old.digest[2])
    BY <1>3, ReadSession DEF coordination_route_v5
  <2> DEFINE next == RouteTo(old.digest[2], capacity)
  <2>3. SessionSound([old.digest[2] EXCEPT !.state = next,
                                           !.capacity = @ \/ next = "INTEGRATE"])
    BY <2>1, <2>2, RoutedIsSound
  <2> QED
    BY <2>1, <2>2, <2>3, ReplaceIsTransition
<1>4. ASSUME NEW id, NEW reason, coordination_terminate_v5(id, reason)
      PROVE  \E withdrawn, new : Grown(withdrawn, new) /\ Transition(withdrawn, new)
  <2>1. PICK old \in _session(current, id) :
            /\ reason = "all_verified" => old.digest[2].state = "INTEGRATE"
            /\ _replace_session(old, [old.digest[2] EXCEPT !.state = "TERMINATED",
                                                           !.reason = reason], {})
    BY <1>4 DEF coordination_terminate_v5
  <2>2. Founded /\ old \in Objects("coordination-session") /\ SessionSound(old.digest[2])
    BY <1>4, ReadSession DEF coordination_terminate_v5
  <2>3. SessionSound([old.digest[2] EXCEPT !.state = "TERMINATED", !.reason = reason])
    BY <2>1, <2>2, TerminatedIsSound
  <2> QED
    BY <2>1, <2>2, <2>3, ReplaceIsTransition
<1> QED
  BY <1>1, <1>2, <1>3, <1>4, InitIsTransition DEF Coordinating

-----------------------------------------------------------------------------
(* Trust updates.                                                          *)

\* The statements S of three disjoint principals of the predecessor decided the policy
\* with this name, whose entry in the ledger has these sources.
DecidedBy(S, name, sources) ==
    /\ sources = {Digest(s) : s \in S}
    /\ Cardinality({s.key : s \in S}) = 3
    /\ Disjoint(S, Policies[Policies[name].previous])

\* The policy is replaced by its successor.
Replacing(withdrawn, new) ==
    /\ TimeKnown
    /\ withdrawn = {PolicyDigest(current.policy)}
    /\ current'.receipt.schema = "trusted-time-receipt"
    /\ Policies[current'.policy].previous = current.policy
    /\ Policies[current'.policy].seq = policy.seq + 1
    /\ \A e \in Special(new) :
           \/ e.kind = "trust-quorum-decision"
           \/ e.kind = "trust-policy" /\ e.digest = PolicyDigest(current'.policy)
    /\ \E e \in new :
           /\ e.kind = "trust-policy" /\ e.lifecycle = "active"
           /\ e.digest = PolicyDigest(current'.policy)
    /\ \E S :
           /\ \A e \in new :
                  e.kind = "trust-policy" => DecidedBy(S, current'.policy, e.sources)
           /\ \A s \in S : \E e \in new :
                  e.kind = "trust-quorum-decision" /\ e.digest = Digest(s)

\* Three different elements make a set of three.
LEMMA ThreeKeys ==
    ASSUME NEW a, NEW b, NEW c, a # b, a # c, b # c
    PROVE  Cardinality({a, b, c}) = 3
<1>1. IsFiniteSet({}) /\ Cardinality({}) = 0
  BY FS_EmptySet
<1>2. IsFiniteSet({a}) /\ Cardinality({a}) = 1
  BY FS_Singleton
<1>3. IsFiniteSet({a} \cup {b}) /\ Cardinality({a} \cup {b}) = 2
  BY <1>2, FS_AddElement
<1>4. Cardinality(({a} \cup {b}) \cup {c}) = 3
  BY <1>3, FS_AddElement
<1>5. {a, b, c} = ({a} \cup {b}) \cup {c}
  OBVIOUS
<1> QED
  BY <1>4, <1>5

\* The quorum of a trust update is three statements of three principals.
LEMMA QuorumOfThree ==
    ASSUME NEW signers, NEW name, NEW at, NEW p, Disjoint(Quorum(signers, name, at), p)
    PROVE  Cardinality({s.key : s \in Quorum(signers, name, at)}) = 3
<1> DEFINE S == Quorum(signers, name, at)
           statement(role) ==
               [schema |-> "trust-quorum-decision", role |-> role, key |-> signers[role],
                signed |-> at, sound |-> TRUE,
                payload |-> [decision |-> "trust_update", subject |-> name,
                             sequence |-> policy.seq]]
           r == "workspace_root"
           a == "trust_auditor"
           t == "timestamp"
<1>1. S = {statement(role) : role \in {r, a, t}}
  <2>1. QUORUM_ROLES["trust_update"] = {r, a, t}
    BY DEF QUORUM_ROLES
  <2> QED
    BY <2>1 DEF Quorum
<1>2. \A role \in {r, a, t} :
          /\ statement(role) \in S /\ statement(role).role = role
          /\ statement(role).key = signers[role]
  BY <1>1
<1> HIDE DEF S, statement
<1>3. {s.key : s \in S} = {signers[r], signers[a], signers[t]}
  <2>1. ASSUME NEW s \in S  PROVE  s.key \in {signers[r], signers[a], signers[t]}
    BY <1>1, <1>2
  <2>2. \A role \in {r, a, t} : signers[role] \in {s.key : s \in S}
    BY <1>2
  <2> QED
    BY <2>1, <2>2
<1>4. \A j, k \in {r, a, t} : j # k => signers[j] # signers[k]
  <2>1. ASSUME NEW j \in {r, a, t}, NEW k \in {r, a, t}, j # k
        PROVE  signers[j] # signers[k]
    <3>1. statement(j) # statement(k)
      BY <1>2, <2>1
    <3>2. statement(j).key # statement(k).key
      BY <1>2, <3>1 DEF Disjoint, S
    <3> QED
      BY <1>2, <3>2
  <2> QED
    BY <2>1
<1>5. signers[r] # signers[a] /\ signers[r] # signers[t] /\ signers[a] # signers[t]
  BY <1>4
<1>6. Cardinality({signers[r], signers[a], signers[t]}) = 3
  BY <1>5, ThreeKeys, Zenon
<1>7. Cardinality({s.key : s \in S}) = 3
  BY <1>3, <1>6
<1> QED
  BY <1>7 DEF S

\* A policy update withdraws the policy it replaces and names its digest.
LEMMA UpdateIsReplacing ==
    ASSUME LedgerInvariant, NEW name, NEW receipt, NEW signers,
           update_trust_policy_v5(name, receipt, signers)
    PROVE  \E withdrawn, new : Grown(withdrawn, new) /\ Replacing(withdrawn, new)
<1> DEFINE S == Quorum(signers, name, receipt.event_time)
           p == PolicyDigest(name)
           e1 == ledger_entry(p, "trust-policy", {Digest(s) : s \in S}, NoPolicy)
           e2 == SignedEntry(current, receipt, "trusted-time-receipt", {p})
           E(s) == SignedEntry(current, s, "trust-quorum-decision", {p, Digest(receipt)})
           new == {e1, e2} \cup {E(s) : s \in S}
           withdrawn == {PolicyDigest(current.policy)}
<1>1. /\ TimeKnown /\ Policies[name].seq = policy.seq + 1
      /\ Policies[name].previous = current.policy /\ Disjoint(S, policy)
      /\ receipt.schema = "trusted-time-receipt"
      /\ Accepts(current, new)
      /\ current' = [Successor(current, "trust_updated", withdrawn, new)
                        EXCEPT !.policy = name, !.receipt = receipt,
                               !.epoch = receipt.event_time]
  BY DEF update_trust_policy_v5, verify_role_quorum, verify_time_receipt, Expect
<1>2. Founded /\ IsLedger(current)
  BY <1>1 DEF LedgerInvariant, Absent, Founded, TimeKnown
<1>3. /\ IsEntry(e1) /\ e1.kind = "trust-policy" /\ e1.digest = p
      /\ e1.sources = {Digest(s) : s \in S} /\ e1.lifecycle = "active"
  BY DEF ledger_entry, IsEntry
<1>4. IsEntry(e2) /\ e2.kind = "trusted-time-receipt"
  BY DEF SignedEntry, ledger_entry, IsEntry
<1>5. \A s \in S : IsEntry(E(s)) /\ E(s).kind = "trust-quorum-decision" /\ E(s).digest = Digest(s)
  BY DEF SignedEntry, ledger_entry, IsEntry
<1>6. \A s \in S : s.schema = "trust-quorum-decision"
  BY DEF Quorum
<1> HIDE DEF S, e1, e2, E
<1>7. \A s \in S : Proper(E(s))
  BY <1>5, <1>6 DEF Proper, Digest
<1>8. Proper(e1)
  BY <1>3 DEF Proper, PolicyDigest, p
<1>9. Proper(e2)
  BY <1>4 DEF Proper
<1>10. \A e \in new : IsEntry(e) /\ Proper(e)
  BY <1>3, <1>4, <1>5, <1>7, <1>8, <1>9
<1>11. \A e \in Special(new) :
           \/ e.kind = "trust-quorum-decision"
           \/ e.kind = "trust-policy" /\ e.digest = p
  BY <1>3, <1>4, <1>5 DEF Special, SpecialKinds
<1>12. \A e \in new : e.kind = "trust-policy" => e = e1
  BY <1>3, <1>4, <1>5
<1>13. e1 \in new /\ \A s \in S : E(s) \in new
  OBVIOUS
<1> HIDE DEF new, p, withdrawn
<1>14. /\ IsManifest(current') /\ current'.number = current.number + 1
       /\ current'.policy = name /\ current'.receipt = receipt
       /\ current'.quarantine = current.quarantine
       /\ current'.objects = NextObjects(withdrawn, new)
  <2> DEFINE m == [Successor(current, "trust_updated", withdrawn, new) EXCEPT !.policy = name]
             n == [m EXCEPT !.receipt = receipt]
  <2>1. m = [number |-> current.number + 1, event |-> "trust_updated", policy |-> name,
             receipt |-> current.receipt, epoch |-> current.epoch,
             quarantine |-> current.quarantine, objects |-> NextObjects(withdrawn, new)]
    BY <1>2, SuccessorIs DEF IsLedger
  <2>2. current' = [n EXCEPT !.epoch = receipt.event_time]
    BY <1>1
  <2> HIDE DEF m
  <2>3. n = [number |-> current.number + 1, event |-> "trust_updated", policy |-> name,
             receipt |-> receipt, epoch |-> current.epoch,
             quarantine |-> current.quarantine, objects |-> NextObjects(withdrawn, new)]
    BY <2>1
  <2> HIDE DEF n
  <2>4. current' = [number |-> current.number + 1, event |-> "trust_updated", policy |-> name,
                    receipt |-> receipt, epoch |-> receipt.event_time,
                    quarantine |-> current.quarantine, objects |-> NextObjects(withdrawn, new)]
    BY <2>2, <2>3
  <2> QED
    BY <2>4 DEF IsManifest
<1>15. Grown(withdrawn, new)
  BY <1>1, <1>2, <1>10, <1>14 DEF Grown, Accepts
<1>16. DecidedBy(S, name, e1.sources)
  BY <1>1, <1>3, QuorumOfThree DEF DecidedBy, policy, S
<1>17. Replacing(withdrawn, new)
  BY <1>1, <1>3, <1>5, <1>11, <1>12, <1>13, <1>14, <1>16, ZenonT(30) DEF Replacing, p, withdrawn
<1> QED
  BY <1>15, <1>17

-----------------------------------------------------------------------------
(* Runs of adapters and what they project.                                 *)

IsRun(r) == r = [pc |-> r.pc, action |-> r.action, base |-> r.base, output |-> r.output]

\* An adapter runs on the generation its action and capability were found attested in.
RunInvariant ==
    /\ runs = [p \in Process |-> runs[p]]
    /\ \A p \in Process :
           /\ IsRun(runs[p])
           /\ runs[p].pc \in {"running", "ended"} =>
                  /\ Bound(runs[p].base, runs[p].action)
                  /\ <<p, runs[p].base.number>> \in launched

\* A process that changes its run leaves the runs of the others alone.
LEMMA BecomesIs ==
    ASSUME NEW p \in Process, NEW pc, NEW base, NEW output, Becomes(p, pc, base, output),
           runs = [q \in Process |-> runs[q]], IsRun(runs[p])
    PROVE  /\ runs' = [q \in Process |-> runs'[q]]
           /\ \A q \in Process \ {p} : runs'[q] = runs[q]
           /\ IsRun(runs'[p])
           /\ runs'[p].pc = pc /\ runs'[p].base = base /\ runs'[p].action = runs[p].action
<1> DEFINE m == [runs EXCEPT ![p].pc = pc]
           n == [m EXCEPT ![p].base = base]
<1>1. runs' = [n EXCEPT ![p].output = output]
  BY DEF Becomes
<1>2. /\ m = [q \in Process |-> m[q]] /\ \A q \in Process \ {p} : m[q] = runs[q]
      /\ m[p] = [pc |-> pc, action |-> runs[p].action, base |-> runs[p].base,
                 output |-> runs[p].output]
  BY DEF IsRun
<1> HIDE DEF m
<1>3. /\ n = [q \in Process |-> n[q]] /\ \A q \in Process \ {p} : n[q] = runs[q]
      /\ n[p] = [pc |-> pc, action |-> runs[p].action, base |-> base,
                 output |-> runs[p].output]
  BY <1>2
<1> HIDE DEF n
<1>4. /\ runs' = [q \in Process |-> runs'[q]] /\ \A q \in Process \ {p} : runs'[q] = runs[q]
      /\ runs'[p] = [pc |-> pc, action |-> runs[p].action, base |-> base, output |-> output]
  BY <1>1, <1>3
<1> QED
  BY <1>4 DEF IsRun

\* A process at rest has a well-formed run.
LEMMA RestingIs == IsRun(Resting) /\ Resting.pc = "idle"
BY DEF Resting, IsRun

\* An adapter runs on the generation its action was found attested in (run_action_v5).
THEOREM RunInvariantHolds == Spec => []RunInvariant
<1>1. Init => RunInvariant
  <2> SUFFICES ASSUME Init  PROVE  RunInvariant
    OBVIOUS
  <2>1. runs = [p \in Process |-> Resting]
    BY DEF Init, InitExecution
  <2> QED
    BY <2>1, RestingIs DEF RunInvariant
<1>2. RunInvariant /\ [Next]_vars => RunInvariant'
  <2> SUFFICES ASSUME RunInvariant, [Next]_vars  PROVE  RunInvariant'
    OBVIOUS
  <2>1. CASE UNCHANGED <<runs, launched>>
    BY <2>1 DEF RunInvariant
  <2>2. ASSUME NEW p \in Process, runs' = [runs EXCEPT ![p] = Resting], UNCHANGED launched
        PROVE  RunInvariant'
    BY <2>2, RestingIs DEF RunInvariant
  <2>3. ASSUME NEW p \in Process, NEW a, PlanAction(p, a)
        PROVE  RunInvariant'
    <3> DEFINE m == [Resting EXCEPT !.pc = "planned"]
               r == [m EXCEPT !.action = a]
    <3>1. IsRun(m) /\ m.pc = "planned"
      BY RestingIs DEF IsRun
    <3>2. runs' = [runs EXCEPT ![p] = r] /\ UNCHANGED launched
      BY <2>3 DEF PlanAction
    <3> HIDE DEF m
    <3>3. IsRun(r) /\ r.pc = "planned"
      BY <3>1 DEF IsRun
    <3> HIDE DEF r
    <3> QED
      BY <3>2, <3>3 DEF RunInvariant
  <2>4. ASSUME NEW p \in Process, LaunchAdapter(p)
        PROVE  RunInvariant'
    <3>1. /\ Becomes(p, "running", current, runs[p].output)
          /\ Bound(current, runs[p].action)
          /\ launched' = launched \cup {<<p, current.number>>}
      BY <2>4 DEF LaunchAdapter
    <3> DEFINE x == runs[p].output
    <3>2. Becomes(p, "running", current, x)
      BY <3>1
    <3> HIDE DEF x
    <3>3. /\ runs' = [q \in Process |-> runs'[q]]
          /\ \A q \in Process \ {p} : runs'[q] = runs[q]
          /\ IsRun(runs'[p]) /\ runs'[p].base = current /\ runs'[p].action = runs[p].action
      <4>1. IsRun(runs[p]) /\ runs = [q \in Process |-> runs[q]]
        BY DEF RunInvariant
      <4> QED
        BY <3>2, <4>1, BecomesIs
    <3> QED
      BY <3>1, <3>3 DEF RunInvariant
  <2>5. ASSUME NEW p \in Process, NEW x, AdapterEnds(p, x)
        PROVE  RunInvariant'
    <3>1. /\ Becomes(p, "ended", runs[p].base, x) /\ runs[p].pc = "running"
          /\ launched' = launched
      BY <2>5 DEF AdapterEnds
    <3>2. /\ runs' = [q \in Process |-> runs'[q]]
          /\ \A q \in Process \ {p} : runs'[q] = runs[q]
          /\ IsRun(runs'[p]) /\ runs'[p].base = runs[p].base
          /\ runs'[p].action = runs[p].action
      BY <3>1, BecomesIs DEF RunInvariant
    <3> QED
      BY <3>1, <3>2 DEF RunInvariant
  <2>6. CASE Running
    BY <2>2, <2>3, <2>4, <2>5, <2>6 DEF Running, RecordRun, RunAbandoned
  <2>7. CASE Approving
    BY <2>1, <2>7 DEF Approving, approve_projection_v5
  <2> QED
    BY <2>1, <2>6, <2>7 DEF Next, vars
<1> QED
  BY <1>1, <1>2, PTL DEF Spec

\* What a process records of its run: one receipt, and what waits for approval.
Recording(withdrawn, new) ==
    /\ withdrawn = {} /\ SameTrust /\ Fresh(new)
    /\ \A e \in Special(new) : e.kind \in {"action-receipt", "pending-projection"}
    /\ \E receipt :
           /\ receipt.before = current.number
           /\ \E p \in Process : <<p, receipt.before>> \in launched
           /\ \A d \in receipt.pending :
                  d[2].capability \in Digests(current.objects) \cup Digests(new)
           /\ \A e \in new : e.kind = "action-receipt" => e.digest[2] = receipt
    /\ \A e, f \in new :
           e.kind = "action-receipt" /\ f.kind = "action-receipt" => e = f

\* The capability of an action that is bound is an attestation.
LEMMA BoundCapability ==
    ASSUME NEW g, NEW action, Bound(g, action)
    PROVE  The(capability(g, action)).schema = "principal-attestation"
<1> DEFINE S == capability(g, action)
<1>1. S # {}
  BY FS_EmptySet DEF Bound, Single
<1>2. The(S) \in S
  BY <1>1 DEF The
<1>3. \A s \in S : s.schema = "principal-attestation"
  BY DEF capability, _evidence, active_attestations_v5, _validate_attestation
<1> HIDE DEF S
<1>4. The(S).schema = "principal-attestation"
  BY <1>2, <1>3
<1> QED
  BY <1>4 DEF S

\* A run is recorded in the generation after the one it was launched on, with one receipt.
LEMMA RecordIsRecording ==
    ASSUME LedgerInvariant, RunInvariant, NEW p \in Process, RecordRun(p)
    PROVE  \E withdrawn, new : Grown(withdrawn, new) /\ Recording(withdrawn, new)
<1> DEFINE g == runs[p].base
           x == runs[p].output
           raw == <<"raw", x.raw>>
           statement == The(capability(g, runs[p].action))
           pending == IF x.valid /\ Outcome(x) \in {"success", "partial"}
                      THEN {<<"pending", Pending(g, x, statement)>>} ELSE {}
           receipt == [action |-> runs[p].action, before |-> g.number, raw |-> raw,
                       outcome |-> Outcome(x), pending |-> pending]
           e1 == [ledger_entry(raw, "raw-artifact", {}, NoPolicy)
                     EXCEPT !.lifecycle = "quarantined"]
           e2 == ledger_entry(<<"action-receipt", receipt>>, "action-receipt",
                              {raw} \cup pending, NoPolicy)
           E(d) == ledger_entry(d, "pending-projection", {raw, Digest(statement)}, NoPolicy)
           new == {e1, e2} \cup {E(d) : d \in pending}
<1>1. /\ runs[p].pc = "ended" /\ current.number = g.number
      /\ Accepts(current, new) /\ Room
      /\ current' = [Successor(current, "action_executed", {}, new)
                        EXCEPT !.quarantine = @ \cup {raw}]
  BY DEF RecordRun, Unmoved
<1>2. Founded /\ IsLedger(current)
  <2>1. Founded
    BY <1>1, Zenon DEF Room
  <2> QED
    BY <2>1 DEF LedgerInvariant, Absent, Founded
<1>3. Bound(g, runs[p].action) /\ <<p, g.number>> \in launched
  BY <1>1 DEF RunInvariant
<1>4. statement.schema = "principal-attestation"
  BY <1>3, BoundCapability
<1> HIDE DEF statement
<1>5. \A d \in pending :
          /\ d[1] = "pending" /\ d[2].raw[1] = "raw"
          /\ d[2].capability = Digest(statement)
          /\ d[2].capability[1] = "principal-attestation"
  BY <1>4 DEF Pending, Digest
<1> HIDE DEF pending
<1>6. IsEntry(e1) /\ e1.kind = "raw-artifact"
  BY DEF ledger_entry, IsEntry
<1>7. /\ IsEntry(e2) /\ e2.kind = "action-receipt" /\ e2.digest[2] = receipt
  BY DEF ledger_entry, IsEntry
<1>8. \A d \in pending : /\ IsEntry(E(d)) /\ E(d).kind = "pending-projection"
                         /\ E(d).digest = d /\ Digest(statement) \in E(d).sources
  BY DEF ledger_entry, IsEntry
<1>9. receipt.before = current.number /\ receipt.pending = pending
  BY <1>1
<1> HIDE DEF receipt, e1, e2, E
<1>10. Proper(e1) /\ Proper(e2) /\ \A d \in pending : Proper(E(d))
  BY <1>5, <1>6, <1>7, <1>8 DEF Proper
<1>11. \A e \in new : IsEntry(e) /\ Proper(e)
  BY <1>6, <1>7, <1>8, <1>10
<1>12. /\ \A e \in Special(new) : e.kind \in {"action-receipt", "pending-projection"}
       /\ \A e \in new : e.kind = "action-receipt" => e = e2
  BY <1>6, <1>7, <1>8 DEF Special, SpecialKinds
<1>13. \A d \in pending : E(d) \in new
  OBVIOUS
<1> HIDE DEF new
<1>14. \A d \in pending : d[2].capability \in Digests(current.objects) \cup Digests(new)
  BY <1>1, <1>5, <1>8, <1>13 DEF Accepts
<1>15. /\ IsManifest(current') /\ current'.number = current.number + 1 /\ SameTrust
       /\ current'.quarantine = current.quarantine \cup {raw}
       /\ current'.objects = NextObjects({}, new)
  BY <1>1, <1>2, SuccessorIs DEF IsLedger, IsManifest, SameTrust
<1>16. Grown({}, new)
  BY <1>1, <1>2, <1>11, <1>15 DEF Grown, Accepts
<1>17. Fresh(new)
  BY <1>1 DEF Fresh, Accepts
<1>18. Recording({}, new)
  BY <1>1, <1>3, <1>7, <1>9, <1>12, <1>14, <1>15, <1>17 DEF Recording
<1> QED
  BY <1>16, <1>18

\* Where a promoted object comes from: the projection q, and an approval of it.
Origin(e, q) ==
    \E approval, raw, cap, source :
        /\ e.sources = {q, approval, raw, cap, source}
        /\ q[1] = "pending" /\ q[2].projected = e.digest
        /\ approval[1] = "projection-approval" /\ approval[2].projection = q
        /\ raw[1] = "raw" /\ cap[1] = "principal-attestation"

\* A projection is promoted.
Promoting(withdrawn, new) ==
    \E entry, approval, promoted :
        /\ entry \in Active(current, "pending-projection")
        /\ withdrawn = {entry.digest} /\ new = {approval, promoted} /\ SameTrust /\ Fresh(new)
        /\ approval.kind = "projection-approval"
        /\ approval.digest[2].projection = entry.digest
        /\ promoted.kind \in {"principal-attestation", "promoted-projection"}
        /\ Origin(promoted, entry.digest) /\ approval.digest \in promoted.sources

\* An approval withdraws the pending projection and adds one object that names it.
LEMMA ApproveIsPromoting ==
    ASSUME LedgerInvariant, NEW entry, NEW key, approve_projection_v5(entry, key)
    PROVE  \E withdrawn, new : Grown(withdrawn, new) /\ Promoting(withdrawn, new)
<1> DEFINE content == entry.digest[2]
           d == content.projected
           approval == Approval(key, current.epoch, entry.digest, Digest(current.receipt))
           sources == {entry.digest, Digest(approval), content.raw, content.capability}
           e1 == SignedEntry(current, approval, "projection-approval", {entry.digest})
           e2 == IF d[1] = "principal-attestation"
                 THEN ledger_entry(d, "principal-attestation", sources \cup {d[2].source},
                                   current.policy)
                 ELSE ledger_entry(d, "promoted-projection", sources, NoPolicy)
           new == {e1, e2}
<1>1. /\ Founded /\ entry \in Active(current, "pending-projection")
      /\ content.capability[2].key # key
      /\ Commit("projection_approved", {entry.digest}, new)
  BY DEF approve_projection_v5, pending_projections_v5
<1>2. entry \in current.objects /\ entry.kind = "pending-projection"
  BY <1>1 DEF Active
<1>3. /\ entry.digest[1] = "pending" /\ content.raw[1] = "raw"
      /\ content.capability[1] = "principal-attestation"
  <2>1. IsLedger(current)
    BY <1>1 DEF LedgerInvariant, Absent, Founded
  <2>2. Proper(entry)
    BY <1>2, <2>1 DEF IsLedger
  <2> QED
    BY <1>2, <2>2 DEF Proper
<1>4. /\ approval.projection = entry.digest /\ approval.key = key
      /\ Digest(approval) = <<"projection-approval", approval>>
  BY DEF Approval, Digest
<1> HIDE DEF approval
<1>5. /\ IsEntry(e1) /\ e1.kind = "projection-approval" /\ e1.digest = Digest(approval)
  BY DEF SignedEntry, ledger_entry, IsEntry
<1>6. /\ IsEntry(e2) /\ e2.kind \in {"principal-attestation", "promoted-projection"}
      /\ e2.digest = d
      /\ e2.kind = "principal-attestation" => d[1] = "principal-attestation"
  BY DEF ledger_entry, IsEntry
<1>7. \E source : e2.sources = {entry.digest, Digest(approval), content.raw,
                                content.capability, source}
  <2>1. CASE d[1] = "principal-attestation"
    <3>1. e2.sources = sources \cup {d[2].source}
      BY <2>1 DEF ledger_entry
    <3> HIDE DEF e2
    <3>2. e2.sources = {entry.digest, Digest(approval), content.raw, content.capability,
                        d[2].source}
      BY <3>1
    <3> QED
      BY <3>2
  <2>2. CASE d[1] # "principal-attestation"
    <3>1. e2.sources = sources
      BY <2>2 DEF ledger_entry
    <3> HIDE DEF e2
    <3>2. e2.sources = {entry.digest, Digest(approval), content.raw, content.capability,
                        entry.digest}
      BY <3>1
    <3> QED
      BY <3>2
  <2> QED
    BY <2>1, <2>2
<1> HIDE DEF e1, e2
<1>8. Proper(e1)
  BY <1>1, <1>3, <1>4, <1>5 DEF Proper
<1>9. Proper(e2)
  BY <1>6 DEF Proper
<1>10. Origin(e2, entry.digest)
  <2>1. /\ Digest(approval)[1] = "projection-approval"
        /\ Digest(approval)[2].projection = entry.digest
        /\ entry.digest[2].projected = e2.digest
    BY <1>4, <1>6
  <2> QED
    BY <1>3, <1>7, <2>1, Zenon DEF Origin
<1>11. /\ Grown({entry.digest}, new) /\ SameTrust
       /\ Digests(new) \cap Digests(current.objects) = {}
  BY <1>1, <1>5, <1>6, <1>8, <1>9, CommitGrows
<1>12. e1.digest[2].projection = entry.digest
  BY <1>4, <1>5
<1>13. Digest(approval) \in e2.sources
  BY <1>7
<1>14. Promoting({entry.digest}, new)
  BY <1>1, <1>5, <1>6, <1>10, <1>11, <1>12, <1>13 DEF Promoting, Fresh
<1> QED
  BY <1>11, <1>14

-----------------------------------------------------------------------------
(* Every step of the workspace.                                            *)

\* The first generation.
Established ==
    /\ current'.number = 1
    /\ current'.receipt.schema = "trusted-time-receipt"
    /\ \A e \in current'.objects : e.since = 1
    /\ Special(current'.objects) =
           {ledger_entry(PolicyDigest(current'.policy), "trust-policy", {}, NoPolicy)}

\* The first ledger is well formed and holds its policy and nothing else the properties count.
LEMMA FoundIsEstablished ==
    ASSUME NEW name, NEW receipt, Found(name, receipt)
    PROVE  IsLedger(current') /\ Established
<1> DEFINE p == PolicyDigest(name)
           genesis == GenesisStatement(name, receipt.event_time)
           e1 == ledger_entry(contract, "contract", {}, NoPolicy)
           e2 == ledger_entry(registry, "unit-registry", {}, NoPolicy)
           e3 == ledger_entry(p, "trust-policy", {}, NoPolicy)
           e4 == ledger_entry(Digest(genesis), "genesis-policy-statement", {p}, name)
           e5 == ledger_entry(Digest(receipt), "trusted-time-receipt", {contract}, name)
<1>1. /\ receipt.schema = "trusted-time-receipt"
      /\ current' = [number |-> 1, event |-> "workspace_initialized", policy |-> name,
                     receipt |-> receipt, epoch |-> receipt.event_time, quarantine |-> {},
                     objects |-> {e1, e2, e3, e4, e5}]
  BY DEF Found, verify_time_receipt, Expect
<1>2. IsEntry(e1) /\ e1.kind = "contract" /\ e1.sources = {} /\ e1.since = 1
      /\ e1.digest = contract
  BY DEF ledger_entry, IsEntry
<1>3. IsEntry(e2) /\ e2.kind = "unit-registry" /\ e2.sources = {} /\ e2.since = 1
  BY DEF ledger_entry, IsEntry
<1>4. IsEntry(e3) /\ e3.kind = "trust-policy" /\ e3.sources = {} /\ e3.since = 1
      /\ e3.digest = p
  BY DEF ledger_entry, IsEntry
<1>5. IsEntry(e4) /\ e4.kind = "genesis-policy-statement" /\ e4.sources = {p} /\ e4.since = 1
  BY DEF ledger_entry, IsEntry
<1>6. IsEntry(e5) /\ e5.kind = "trusted-time-receipt" /\ e5.sources = {contract} /\ e5.since = 1
  BY DEF ledger_entry, IsEntry
<1> HIDE DEF e1, e2, e3, e4, e5
<1>7. Proper(e1) /\ Proper(e2) /\ Proper(e3) /\ Proper(e4) /\ Proper(e5)
  BY <1>2, <1>3, <1>4, <1>5, <1>6 DEF Proper, PolicyDigest, p
<1> HIDE DEF p
<1>8. IsManifest(current') /\ current'.number = 1 /\ current'.policy = name
      /\ current'.receipt = receipt /\ current'.objects = {e1, e2, e3, e4, e5}
  BY <1>1 DEF IsManifest
<1>9. p \in Digests(current'.objects) /\ contract \in Digests(current'.objects)
  BY <1>2, <1>4, <1>8 DEF Digests
<1>10. \A e \in current'.objects :
           /\ IsEntry(e) /\ Proper(e) /\ e.since = 1
           /\ e.sources \subseteq Digests(current'.objects)
  BY <1>2, <1>3, <1>4, <1>5, <1>6, <1>7, <1>8, <1>9
<1>11. IsLedger(current')
  <2>1. \A e \in current'.objects : e.since \in Nat /\ e.since > 0 /\ e.since <= current'.number
    BY <1>8, <1>10
  <2> QED
    BY <1>8, <1>10, <2>1 DEF IsLedger
<1>12. Special(current'.objects) = {e3}
  BY <1>2, <1>3, <1>4, <1>5, <1>6, <1>8 DEF Special, SpecialKinds
<1>13. e3 = ledger_entry(PolicyDigest(current'.policy), "trust-policy", {}, NoPolicy)
  BY <1>8 DEF e3, p
<1> QED
  BY <1>1, <1>8, <1>10, <1>11, <1>12, <1>13 DEF Established

\* A commit of one of the commands.
Committing(withdrawn, new) ==
    /\ Grown(withdrawn, new)
    /\ \/ Ordinary(withdrawn, new)
       \/ Attesting(withdrawn, new)
       \/ Transition(withdrawn, new)
       \/ Registering(withdrawn, new)
       \/ Replacing(withdrawn, new)
       \/ Recording(withdrawn, new)
       \/ Promoting(withdrawn, new)

\* Every step founds the workspace, commits one of the forms above, or changes no ledger.
LEMMA EveryStep ==
    ASSUME LedgerInvariant, RunInvariant, [Next]_vars
    PROVE  /\ \/ UNCHANGED current
              \/ Founding /\ ~Founded /\ IsLedger(current') /\ Established
              \/ \E withdrawn, new : Committing(withdrawn, new)
           /\ launched \subseteq launched'
<1>1. ASSUME Founding
      PROVE  ~Founded /\ IsLedger(current') /\ Established
  <2>1. PICK name, receipt : Found(name, receipt)
    BY <1>1 DEF Founding, initialize_workspace_v5, MigrateFound
  <2> QED
    BY <2>1, FoundIsEstablished DEF Found
<1>2. ASSUME Importing
      PROVE  \E withdrawn, new : Committing(withdrawn, new)
  <2>1. ASSUME NEW r, import_raw_v5(r)
        PROVE  \E withdrawn, new : Committing(withdrawn, new)
    BY <2>1, RawIsOrdinary, Zenon DEF Committing
  <2>2. ASSUME NEW s, import_attestation_v5(s)
        PROVE  \E withdrawn, new : Committing(withdrawn, new)
    BY <2>2, AttestationIsAttesting, Zenon DEF Committing
  <2>3. ASSUME NEW s, import_signed_object_v5(s)
        PROVE  \E withdrawn, new : Committing(withdrawn, new)
    BY <2>3, SignedObjectStep, Zenon DEF Committing
  <2> QED
    BY <1>2, <2>1, <2>2, <2>3, Zenon DEF Importing
<1>3. ASSUME Advancing
      PROVE  \E withdrawn, new : Committing(withdrawn, new)
  BY <1>3, TimeIsOrdinary, Zenon DEF Advancing, Committing
<1>4. ASSUME Updating
      PROVE  \E withdrawn, new : Committing(withdrawn, new)
  BY <1>4, UpdateIsReplacing, Zenon DEF Updating, Committing
<1>5. ASSUME Migrating
      PROVE  UNCHANGED current \/ \E withdrawn, new : Committing(withdrawn, new)
  BY <1>5, LegacyIsOrdinary, Zenon DEF Migrating, MigrateFails, Committing
<1>6. ASSUME Coordinating
      PROVE  \E withdrawn, new : Committing(withdrawn, new)
  BY <1>6, CoordinatingIsTransition, Zenon DEF Committing
<1>7. ASSUME Measuring
      PROVE  \E withdrawn, new : Committing(withdrawn, new)
  <2>1. ASSUME NEW p, NEW key, NEW receipt, import_protocol_v5(p, key, receipt)
        PROVE  \E withdrawn, new : Committing(withdrawn, new)
    BY <2>1, ProtocolIsRegistering, Zenon DEF Committing
  <2>2. ASSUME NEW a, NEW receipt, import_amendment_v5(a, receipt)
        PROVE  \E withdrawn, new : Committing(withdrawn, new)
    BY <2>2, AmendmentIsOrdinary, Zenon DEF Committing
  <2>3. ASSUME NEW r, import_result_v5(r)
        PROVE  \E withdrawn, new : Committing(withdrawn, new)
    BY <2>3, ResultIsOrdinary, Zenon DEF Committing
  <2> QED
    BY <1>7, <2>1, <2>2, <2>3, Zenon DEF Measuring
<1>8. ASSUME Running
      PROVE  UNCHANGED current \/ \E withdrawn, new : Committing(withdrawn, new)
  <2>1. ASSUME NEW p \in Process, RecordRun(p)
        PROVE  \E withdrawn, new : Committing(withdrawn, new)
    BY <2>1, RecordIsRecording, Zenon DEF Committing
  <2> QED
    BY <1>8, <2>1, Zenon DEF Running, PlanAction, LaunchAdapter, AdapterEnds, RunAbandoned
<1>9. ASSUME Approving
      PROVE  \E withdrawn, new : Committing(withdrawn, new)
  BY <1>9, ApproveIsPromoting, Zenon DEF Approving, Committing
<1>10. launched \subseteq launched'
  <2>1. ASSUME Running  PROVE  launched \subseteq launched'
    BY <2>1 DEF Running, PlanAction, LaunchAdapter, AdapterEnds, RecordRun, RunAbandoned
  <2>2. ASSUME Approving  PROVE  launched \subseteq launched'
    BY <2>2 DEF Approving, approve_projection_v5
  <2> QED
    BY <2>1, <2>2 DEF Next, vars
<1> QED
  BY <1>1, <1>2, <1>3, <1>4, <1>5, <1>6, <1>7, <1>8, <1>9, <1>10 DEF Next, vars

\* The ledger keeps its form through every command.
THEOREM LedgerInvariantHolds == Spec => []LedgerInvariant
<1>1. Init => LedgerInvariant
  BY DEF Init, Init5, LedgerInvariant
<1>2. LedgerInvariant /\ RunInvariant /\ [Next]_vars => LedgerInvariant'
  <2> SUFFICES ASSUME LedgerInvariant, RunInvariant, [Next]_vars  PROVE  LedgerInvariant'
    OBVIOUS
  <2>1. CASE UNCHANGED current
    BY <2>1 DEF LedgerInvariant, Founded
  <2>2. CASE IsLedger(current') /\ Established
    BY <2>2 DEF LedgerInvariant, Founded, Established
  <2>3. CASE \E withdrawn, new : Grown(withdrawn, new)
    <3>1. Founded /\ IsLedger(current)
      BY <2>3 DEF LedgerInvariant, Absent, Founded, Grown
    <3> QED
      BY <2>3, <3>1, GrownLedger DEF LedgerInvariant
  <2> QED
    BY <2>1, <2>2, <2>3, EveryStep, Zenon DEF Committing
<1> QED
  BY <1>1, <1>2, RunInvariantHolds, PTL DEF Spec

\* Coordination sessions (coordination_v5.py): nobody reveals before everybody has
\* committed, a reveal opens a commitment of the same participant, and nothing is verified
\* before everybody has revealed.
THEOREM SessionsInOrder == Spec => []RevealsAfterCommits
<1>1. LedgerInvariant => RevealsAfterCommits
  <2> SUFFICES ASSUME LedgerInvariant, Founded, NEW e \in Objects("coordination-session")
               PROVE  LET session == e.digest[2]
                          all == session.participants
                      IN /\ session.reveals # {} => Participants(session.commitments) = all
                         /\ \A r \in session.reveals : \E c \in session.commitments :
                                c.participant = r.participant /\ c.opening = r.opening
                         /\ session.state \in {"VERIFY", "INTEGRATE"} =>
                                Participants(session.reveals) = all
                         /\ session.reason = "all_verified" =>
                                session.capacity /\ Participants(session.reveals) = all
    BY DEF RevealsAfterCommits
  <2>1. SessionSound(e.digest[2])
    BY DEF LedgerInvariant, IsLedger, Proper, Absent, Founded, Objects
  <2> QED
    BY <2>1 DEF SessionSound
<1> QED
  BY <1>1, LedgerInvariantHolds, PTL

-----------------------------------------------------------------------------
(* The time, and the policy it is judged under.                            *)

\* Without a trusted time a commit leaves both as they are, and adds no attestation but one
\* that was promoted.
LEMMA WithoutTime ==
    ASSUME LedgerInvariant, NEW withdrawn, NEW new, Committing(withdrawn, new), ~TimeKnown
    PROVE  /\ SameTrust
           /\ \A d \in withdrawn : d[1] \in {"session", "pending"}
           /\ \A e \in Special(new) :
                  /\ e.kind # "scientific-witness"
                  /\ e.kind = "principal-attestation" => \E d \in e.sources : d[1] = "pending"
<1>1. CASE Ordinary(withdrawn, new)
  BY <1>1 DEF Ordinary, SameTrust
<1>2. CASE Transition(withdrawn, new)
  BY <1>2 DEF Transition
<1>3. CASE Registering(withdrawn, new)
  BY <1>3 DEF Registering
<1>4. CASE Recording(withdrawn, new)
  BY <1>4 DEF Recording
<1>5. CASE Promoting(withdrawn, new)
  <2>1. PICK entry, a, p :
            /\ entry \in Active(current, "pending-projection")
            /\ withdrawn = {entry.digest} /\ new = {a, p} /\ SameTrust
            /\ a.kind = "projection-approval"
            /\ p.kind \in {"principal-attestation", "promoted-projection"}
            /\ Origin(p, entry.digest)
    BY <1>5 DEF Promoting
  <2>2. entry.digest[1] = "pending" /\ entry.digest \in p.sources
    BY <2>1 DEF Origin
  <2> QED
    BY <2>1, <2>2 DEF Special
<1> QED
  BY <1>1, <1>2, <1>3, <1>4, <1>5 DEF Committing, Attesting, Replacing

\* A policy under which the time receipt does not verify is never left, and nothing leaves
\* the quarantine (workspace_v5.py: every command that replaces policy or receipt asks for
\* _current_time first).
THEOREM LockOut == Spec => LockOutIsFinal
<1>1. LedgerInvariant /\ RunInvariant /\ [Next]_vars =>
          [Founded =>
              /\ current.quarantine \subseteq current'.quarantine
              /\ ~_current_time(current) =>
                    /\ ~_current_time(current')
                    /\ {e \in current'.objects :
                            e.kind \in {"principal-attestation", "scientific-witness"}
                            /\ \A d \in e.sources : d[1] # "pending"} \subseteq current.objects]_vars
  <2> SUFFICES ASSUME LedgerInvariant, RunInvariant, [Next]_vars, Founded
               PROVE  /\ current.quarantine \subseteq current'.quarantine
                      /\ ~_current_time(current) =>
                            /\ ~_current_time(current')
                            /\ \A x \in current'.objects :
                                  /\ x.kind \in {"principal-attestation", "scientific-witness"}
                                  /\ \A d \in x.sources : d[1] # "pending"
                                  => x \in current.objects
    OBVIOUS
  <2>1. CASE UNCHANGED current
    BY <2>1
  <2>2. ASSUME NEW withdrawn, NEW new, Committing(withdrawn, new)
        PROVE  /\ current.quarantine \subseteq current'.quarantine
               /\ ~_current_time(current) =>
                     /\ ~_current_time(current')
                     /\ \A x \in current'.objects :
                           /\ x.kind \in {"principal-attestation", "scientific-witness"}
                           /\ \A d \in x.sources : d[1] # "pending"
                           => x \in current.objects
    <3>1. current.quarantine \subseteq current'.quarantine
      BY <2>2 DEF Committing, Grown
    <3>2. SUFFICES ASSUME ~_current_time(current)
                   PROVE  /\ ~_current_time(current')
                          /\ \A x \in current'.objects :
                                /\ x.kind \in {"principal-attestation", "scientific-witness"}
                                /\ \A d \in x.sources : d[1] # "pending"
                                => x \in current.objects
      BY <3>1
    <3>3. ~TimeKnown
      BY <3>2 DEF TimeKnown
    <3>4. /\ SameTrust
          /\ \A d \in withdrawn : d[1] \in {"session", "pending"}
          /\ \A e \in Special(new) :
                 /\ e.kind # "scientific-witness"
                 /\ e.kind = "principal-attestation" => \E d \in e.sources : d[1] = "pending"
      BY <2>2, <3>3, WithoutTime
    <3>5. ~_current_time(current')
      BY <3>2, <3>4 DEF _current_time, SameTrust
    <3>6. ASSUME NEW x \in current'.objects,
                 x.kind \in {"principal-attestation", "scientific-witness"},
                 \A d \in x.sources : d[1] # "pending"
          PROVE  x \in current.objects
      <4>1. IsLedger(current)
        BY DEF LedgerInvariant, Absent, Founded
      <4>2. CASE \E e \in current.objects : x = Kept(e, withdrawn)
        <5>1. PICK e \in current.objects : x = Kept(e, withdrawn)
          BY <4>2
        <5>2. x.kind = e.kind
          BY <4>1, <5>1, KeptFields DEF IsLedger
        <5>3. e.digest[1] \in {"principal-attestation", "typed-flow-profile"}
          BY <3>6, <4>1, <5>2 DEF IsLedger, Proper
        <5>4. e.digest \notin withdrawn
          BY <3>4, <5>3
        <5> QED
          BY <5>1, <5>4 DEF Kept
      <4>3. CASE \E e \in new : x = Dated(e)
        <5>1. PICK e \in new : x = Dated(e)
          BY <4>3
        <5>2. x.kind = e.kind /\ x.sources = e.sources
          BY <2>2, <5>1, DatedFields DEF Committing, Grown
        <5>3. e \in Special(new)
          BY <3>6, <5>1, <5>2 DEF Special, SpecialKinds
        <5> QED
          BY <3>4, <3>6, <5>2, <5>3
      <4> QED
        BY <2>2, <4>2, <4>3 DEF Committing, Grown, NextObjects
    <3> QED
      BY <3>5, <3>6
  <2> QED
    BY <2>1, <2>2, EveryStep, Zenon
<1> QED
  BY <1>1, LedgerInvariantHolds, RunInvariantHolds, PTL DEF Spec, LockOutIsFinal

\* The successor of a policy in the ledger: its predecessor is there, withdrawn before it
\* came, and so are the statements that decided it.
Descends(e) ==
    LET p == Policies[e.digest[2]]
    IN /\ p.seq = Policies[p.previous].seq + 1
       /\ \E f \in Objects("trust-policy") :
              /\ f.digest = PolicyDigest(p.previous)
              /\ f.since < e.since /\ f.lifecycle = "withdrawn"
       /\ \E S :
              /\ DecidedBy(S, e.digest[2], e.sources)
              /\ \A s \in S : \E f \in Objects("trust-quorum-decision") : f.digest = Digest(s)

PolicyInvariant ==
    Founded =>
        /\ Active(current, "trust-policy") # {}
        /\ \A e \in Active(current, "trust-policy") : e.digest = PolicyDigest(current.policy)
        /\ \A e \in Objects("trust-policy") : e.since > 1 => Descends(e)

\* Only a policy update changes or withdraws the policy.
LEMMA OthersKeepPolicy ==
    ASSUME NEW withdrawn, NEW new, Committing(withdrawn, new), ~Replacing(withdrawn, new),
           LedgerInvariant
    PROVE  /\ current'.policy = current.policy
           /\ PolicyDigest(current.policy) \notin withdrawn
           /\ \A e \in new : e.kind # "trust-policy"
<1>1. PolicyDigest(current.policy)[1] = "policy"
  BY DEF PolicyDigest
<1>2. SUFFICES /\ current'.policy = current.policy
               /\ \A d \in withdrawn : d[1] # "policy"
               /\ \A e \in Special(new) : e.kind # "trust-policy"
  BY <1>1 DEF Special, SpecialKinds
<1>3. CASE Promoting(withdrawn, new)
  <2>1. PICK entry, a, p :
            /\ entry \in Active(current, "pending-projection")
            /\ withdrawn = {entry.digest} /\ new = {a, p} /\ SameTrust
            /\ a.kind = "projection-approval"
            /\ p.kind \in {"principal-attestation", "promoted-projection"}
            /\ Origin(p, entry.digest)
    BY <1>3 DEF Promoting
  <2>2. entry.digest[1] = "pending"
    BY <2>1 DEF Origin
  <2> QED
    BY <2>1, <2>2 DEF Special, SameTrust
<1> QED
  BY <1>3 DEF Committing, Ordinary, Attesting, Transition, Registering, Recording, SameTrust

\* An entry that descends still does after a commit.
LEMMA StillDescends ==
    ASSUME LedgerInvariant, NEW withdrawn, NEW new, Committing(withdrawn, new),
           NEW e \in current.objects, Descends(e), NEW x,
           x.digest = e.digest, x.sources = e.sources, x.since = e.since
    PROVE  Descends(x)'
<1>1. Founded /\ IsLedger(current) /\ Grown(withdrawn, new)
  BY DEF LedgerInvariant, Absent, Founded, Committing, Grown
<1>2. \A f \in current.objects : \E y \in current'.objects :
          /\ y.digest = f.digest /\ y.kind = f.kind /\ y.since = f.since
          /\ f.lifecycle = "withdrawn" => y.lifecycle = "withdrawn"
  <2>1. \A f \in current.objects : \E y \in current'.objects :
            /\ y.digest = f.digest /\ y.kind = f.kind /\ y.sources = f.sources
            /\ y.policy = f.policy /\ y.since = f.since
            /\ y.lifecycle = IF f.digest \in withdrawn THEN "withdrawn" ELSE f.lifecycle
    BY <1>1, GrownEntries
  <2> QED
    BY <2>1
<1> DEFINE p == Policies[e.digest[2]]
<1>3. p.seq = Policies[p.previous].seq + 1
  BY DEF Descends
<1>4. \E y \in Objects("trust-policy")' :
          /\ y.digest = PolicyDigest(p.previous)
          /\ y.since < e.since /\ y.lifecycle = "withdrawn"
  BY <1>2 DEF Descends, Objects
<1>5. \E S :
          /\ DecidedBy(S, e.digest[2], e.sources)
          /\ \A s \in S : \E f \in Objects("trust-quorum-decision")' : f.digest = Digest(s)
  <2>1. PICK S :
            /\ DecidedBy(S, e.digest[2], e.sources)
            /\ \A s \in S : \E f \in Objects("trust-quorum-decision") : f.digest = Digest(s)
    BY DEF Descends
  <2>2. \A s \in S : \E f \in Objects("trust-quorum-decision")' : f.digest = Digest(s)
    BY <1>2, <2>1 DEF Objects
  <2> QED
    BY <2>1, <2>2
<1> HIDE DEF p
<1> QED
  BY <1>3, <1>4, <1>5, Zenon DEF Descends, p

\* The chain of policies is kept by every commit.
LEMMA PolicyStep ==
    ASSUME LedgerInvariant, PolicyInvariant, NEW withdrawn, NEW new, Committing(withdrawn, new)
    PROVE  PolicyInvariant'
<1>1. Founded /\ IsLedger(current) /\ Grown(withdrawn, new)
  BY DEF LedgerInvariant, Absent, Founded, Committing, Grown
<1>2. \A x \in current'.objects :
          \/ \E e \in current.objects :
                 /\ x.digest = e.digest /\ x.kind = e.kind /\ x.sources = e.sources
                 /\ x.since = e.since
                 /\ x.lifecycle = IF e.digest \in withdrawn THEN "withdrawn" ELSE e.lifecycle
          \/ \E e \in new :
                 /\ x.digest = e.digest /\ x.kind = e.kind /\ x.sources = e.sources
                 /\ x.lifecycle = e.lifecycle /\ x.since = current.number + 1
  BY <1>1, GrownEntries
<1>3. \A e \in current.objects : \E x \in current'.objects :
          /\ x.digest = e.digest /\ x.kind = e.kind /\ x.since = e.since
          /\ x.lifecycle = IF e.digest \in withdrawn THEN "withdrawn" ELSE e.lifecycle
  <2>1. \A e \in current.objects : \E x \in current'.objects :
            /\ x.digest = e.digest /\ x.kind = e.kind /\ x.sources = e.sources
            /\ x.policy = e.policy /\ x.since = e.since
            /\ x.lifecycle = IF e.digest \in withdrawn THEN "withdrawn" ELSE e.lifecycle
    BY <1>1, GrownEntries
  <2> QED
    BY <2>1
<1>4. PICK e0 \in current.objects :
          e0.kind = "trust-policy" /\ e0.lifecycle = "active"
              /\ e0.digest = PolicyDigest(current.policy)
  BY <1>1 DEF PolicyInvariant, Active
<1>5. \A e \in current.objects :
          e.kind = "trust-policy" /\ e.lifecycle = "active" =>
              e.digest = PolicyDigest(current.policy)
  BY <1>1 DEF PolicyInvariant, Active
<1>6. \A e \in current.objects : e.kind = "trust-policy" /\ e.since > 1 => Descends(e)
  BY <1>1 DEF PolicyInvariant, Objects
<1>7. CASE ~Replacing(withdrawn, new)
  <2>1. /\ current'.policy = current.policy
        /\ PolicyDigest(current.policy) \notin withdrawn
        /\ \A e \in new : e.kind # "trust-policy"
    BY <1>7, OthersKeepPolicy
  <2>2. (Active(current, "trust-policy") # {})'
    BY <1>3, <1>4, <2>1 DEF Active
  <2>3. (\A e \in Active(current, "trust-policy") : e.digest = PolicyDigest(current.policy))'
    BY <1>2, <1>5, <2>1 DEF Active, PolicyDigest
  <2>4. (\A e \in Objects("trust-policy") : e.since > 1 => Descends(e))'
    <3> SUFFICES ASSUME NEW x \in current'.objects, x.kind = "trust-policy", x.since > 1
                 PROVE  Descends(x)'
      BY DEF Objects
    <3>1. PICK e \in current.objects :
              x.digest = e.digest /\ x.kind = e.kind /\ x.sources = e.sources /\ x.since = e.since
      BY <1>2, <2>1
    <3> QED
      BY <1>6, <3>1, StillDescends
  <2> QED
    BY <2>2, <2>3, <2>4 DEF PolicyInvariant
<1>8. CASE Replacing(withdrawn, new)
  <2>1. /\ withdrawn = {PolicyDigest(current.policy)}
        /\ Policies[current'.policy].previous = current.policy
        /\ Policies[current'.policy].seq = policy.seq + 1
        /\ \A e \in new : e.kind = "trust-policy" => e.digest = PolicyDigest(current'.policy)
    BY <1>8 DEF Replacing, Special, SpecialKinds
  <2>2. (Active(current, "trust-policy") # {})'
    <3>1. PICK e \in new : e.kind = "trust-policy" /\ e.lifecycle = "active"
      BY <1>8 DEF Replacing
    <3>2. \E x \in current'.objects : x.kind = e.kind /\ x.lifecycle = e.lifecycle
      BY <1>1, GrownEntries
    <3> QED
      BY <3>1, <3>2 DEF Active
  <2>3. (\A e \in Active(current, "trust-policy") : e.digest = PolicyDigest(current.policy))'
    <3> SUFFICES ASSUME NEW x \in current'.objects,
                        x.kind = "trust-policy", x.lifecycle = "active"
                 PROVE  x.digest = PolicyDigest(current'.policy)
      BY DEF Active, PolicyDigest
    <3>1. ~\E e \in current.objects :
               /\ x.digest = e.digest /\ x.kind = e.kind
               /\ x.lifecycle = IF e.digest \in withdrawn THEN "withdrawn" ELSE e.lifecycle
      BY <1>5, <2>1
    <3> QED
      BY <1>2, <2>1, <3>1
  <2>4. (\A e \in Objects("trust-policy") : e.since > 1 => Descends(e))'
    <3> SUFFICES ASSUME NEW x \in current'.objects, x.kind = "trust-policy", x.since > 1
                 PROVE  Descends(x)'
      BY DEF Objects
    <3>1. CASE \E e \in current.objects :
                   /\ x.digest = e.digest /\ x.kind = e.kind /\ x.sources = e.sources
                   /\ x.since = e.since
      BY <1>6, <3>1, StillDescends
    <3>2. CASE \E e \in new :
                   /\ x.digest = e.digest /\ x.kind = e.kind /\ x.sources = e.sources
                   /\ x.since = current.number + 1
      <4>1. PICK e \in new :
                /\ x.digest = e.digest /\ x.kind = e.kind /\ x.sources = e.sources
                /\ x.since = current.number + 1
        BY <3>2
      <4>2. x.digest[2] = current'.policy
        BY <2>1, <4>1 DEF PolicyDigest
      <4>3. Policies[x.digest[2]].seq = Policies[Policies[x.digest[2]].previous].seq + 1
        BY <2>1, <4>2 DEF policy
      <4>4. \E f \in Objects("trust-policy")' :
                /\ f.digest = PolicyDigest(Policies[x.digest[2]].previous)
                /\ f.since < x.since /\ f.lifecycle = "withdrawn"
        <5>1. e0.since \in Nat /\ e0.since <= current.number /\ current.number \in Nat
          BY <1>1, <1>4 DEF IsLedger
        <5>2. PICK f \in current'.objects :
                  /\ f.digest = e0.digest /\ f.kind = e0.kind /\ f.since = e0.since
                  /\ f.lifecycle = IF e0.digest \in withdrawn THEN "withdrawn" ELSE e0.lifecycle
          BY <1>3, <1>4
        <5>3. f.since < x.since
          BY <4>1, <5>1, <5>2
        <5> QED
          BY <1>4, <2>1, <4>2, <5>2, <5>3 DEF Objects
      <4>5. \E S :
                /\ DecidedBy(S, x.digest[2], x.sources)
                /\ \A s \in S : \E f \in Objects("trust-quorum-decision")' : f.digest = Digest(s)
        <5>1. PICK S :
                  /\ \A n \in new :
                         n.kind = "trust-policy" => DecidedBy(S, current'.policy, n.sources)
                  /\ \A s \in S : \E n \in new :
                         n.kind = "trust-quorum-decision" /\ n.digest = Digest(s)
          BY <1>8 DEF Replacing
        <5>2. \A n \in new : \E f \in current'.objects : f.digest = n.digest /\ f.kind = n.kind
          BY <1>1, GrownEntries
        <5> QED
          BY <4>1, <4>2, <5>1, <5>2 DEF Objects
      <4> QED
        BY <4>3, <4>4, <4>5, Zenon DEF Descends
    <3> QED
      BY <1>2, <3>1, <3>2
  <2> QED
    BY <2>2, <2>3, <2>4 DEF PolicyInvariant
<1> QED
  BY <1>7, <1>8

\* One policy is in force, and it descends from the founding policy one sequence number at
\* a time, each successor decided by three disjoint principals of its predecessor
\* (update_trust_policy_v5).
THEOREM OnePolicyAtATime == Spec => []PolicyChain
<1>1. Init => PolicyInvariant
  BY DEF Init, Init5, Absent, Founded, PolicyInvariant
<1>2. LedgerInvariant /\ RunInvariant /\ PolicyInvariant /\ [Next]_vars => PolicyInvariant'
  <2> SUFFICES ASSUME LedgerInvariant, RunInvariant, PolicyInvariant, [Next]_vars
               PROVE  PolicyInvariant'
    OBVIOUS
  <2>1. CASE UNCHANGED current
    BY <2>1 DEF PolicyInvariant, Founded, Active, Objects, Descends
  <2>2. CASE Established
    <3> DEFINE e == ledger_entry(PolicyDigest(current'.policy), "trust-policy", {}, NoPolicy)
    <3>1. e.kind = "trust-policy" /\ e.lifecycle = "active" /\ e.digest = PolicyDigest(current'.policy)
      BY DEF ledger_entry
    <3> HIDE DEF e
    <3>2. Special(current'.objects) = {e} /\ \A x \in current'.objects : x.since = 1
      BY <2>2 DEF Established, e
    <3>3. e \in current'.objects /\ \A x \in current'.objects : x.kind = "trust-policy" => x = e
      BY <3>2 DEF Special, SpecialKinds
    <3>4. (Active(current, "trust-policy") # {})'
      BY <3>1, <3>3 DEF Active
    <3>5. (\A x \in Active(current, "trust-policy") : x.digest = PolicyDigest(current.policy))'
      BY <3>1, <3>3 DEF Active, PolicyDigest
    <3>6. (\A x \in Objects("trust-policy") : x.since > 1 => Descends(x))'
      BY <3>2 DEF Objects
    <3> QED
      BY <3>4, <3>5, <3>6 DEF PolicyInvariant
  <2>3. CASE \E withdrawn, new : Committing(withdrawn, new)
    BY <2>3, PolicyStep
  <2> QED
    BY <2>1, <2>2, <2>3, EveryStep
<1>3. PolicyInvariant => PolicyChain
  <2> SUFFICES ASSUME PolicyInvariant, Founded  PROVE  PolicyChain
    BY DEF PolicyChain
  <2>1. {e.digest : e \in Active(current, "trust-policy")} = {PolicyDigest(current.policy)}
    BY DEF PolicyInvariant
  <2>2. ASSUME NEW e \in Objects("trust-policy"), e.since > 1
        PROVE  LET p == Policies[e.digest[2]]
                   decided == {f.digest[2] : f \in {f \in Objects("trust-quorum-decision") :
                                                       f.digest \in e.sources}}
               IN /\ \E f \in Objects("trust-policy") :
                         /\ f.digest = PolicyDigest(p.previous)
                         /\ f.since < e.since /\ f.lifecycle = "withdrawn"
                         /\ p.seq = Policies[p.previous].seq + 1
                  /\ Cardinality({s.key : s \in decided}) = 3
                  /\ Disjoint(decided, Policies[p.previous])
    <3> DEFINE p == Policies[e.digest[2]]
               decided == {f.digest[2] : f \in {f \in Objects("trust-quorum-decision") :
                                                   f.digest \in e.sources}}
    <3>1. Descends(e)
      BY <2>2 DEF PolicyInvariant
    <3>2. PICK S :
              /\ DecidedBy(S, e.digest[2], e.sources)
              /\ \A s \in S : \E f \in Objects("trust-quorum-decision") : f.digest = Digest(s)
      BY <3>1 DEF Descends
    <3>3. e.sources = {Digest(s) : s \in S}
      BY <3>2 DEF DecidedBy
    <3>4. decided = S
      <4>1. ASSUME NEW f \in Objects("trust-quorum-decision"), f.digest \in e.sources
            PROVE  f.digest[2] \in S
        BY <3>3, <4>1 DEF Digest
      <4>2. ASSUME NEW s \in S  PROVE  s \in decided
        <5>1. PICK f \in Objects("trust-quorum-decision") : f.digest = Digest(s)
          BY <3>2
        <5>2. f.digest[2] = s
          BY <5>1 DEF Digest
        <5>3. f.digest \in e.sources
          BY <3>3, <5>1
        <5> QED
          BY <5>2, <5>3
      <4> QED
        BY <4>1, <4>2
    <3> HIDE DEF decided
    <3>5. Cardinality({s.key : s \in decided}) = 3 /\ Disjoint(decided, Policies[p.previous])
      BY <3>2, <3>4 DEF DecidedBy
    <3>6. \E f \in Objects("trust-policy") :
              /\ f.digest = PolicyDigest(p.previous)
              /\ f.since < e.since /\ f.lifecycle = "withdrawn"
              /\ p.seq = Policies[p.previous].seq + 1
      BY <3>1 DEF Descends
    <3> QED
      BY <3>5, <3>6 DEF decided
  <2> QED
    BY <2>1, <2>2 DEF PolicyChain
<1>4. Spec => []PolicyInvariant
  BY <1>1, <1>2, LedgerInvariantHolds, RunInvariantHolds, PTL DEF Spec
<1> QED
  BY <1>3, <1>4, PTL

-----------------------------------------------------------------------------
(* The verdict on acceleration.                                            *)

\* The workspace has a time receipt, and protocols enter the ledger one at a time.
ProtocolInvariant ==
    Founded =>
        /\ current.receipt.schema = "trusted-time-receipt"
        /\ \A e, f \in Objects("measurement-protocol") : e.since = f.since => e = f

\* What is so of registered protocols is kept by every commit.
LEMMA ProtocolStep ==
    ASSUME LedgerInvariant, ProtocolInvariant, NEW withdrawn, NEW new, Committing(withdrawn, new)
    PROVE  ProtocolInvariant'
<1>1. Founded /\ IsLedger(current) /\ Grown(withdrawn, new)
  BY DEF LedgerInvariant, Absent, Founded, Committing, Grown
<1>2. current'.receipt.schema = "trusted-time-receipt"
  <2>1. current.receipt.schema = "trusted-time-receipt"
    BY <1>1 DEF ProtocolInvariant
  <2> QED
    BY <2>1 DEF Committing, Ordinary, Attesting, Transition, Registering, Replacing, Recording,
                Promoting, SameTrust
<1>3. \A e, f \in new :
          e.kind = "measurement-protocol" /\ f.kind = "measurement-protocol" => e = f
  <2>1. CASE Registering(withdrawn, new)
    BY <2>1 DEF Registering, Special, SpecialKinds
  <2>2. CASE Promoting(withdrawn, new)
    <3>1. PICK a, p : /\ new = {a, p} /\ a.kind = "projection-approval"
                      /\ p.kind \in {"principal-attestation", "promoted-projection"}
      BY <2>2 DEF Promoting
    <3> QED
      BY <3>1
  <2>3. CASE ~Registering(withdrawn, new) /\ ~Promoting(withdrawn, new)
    <3>1. \A e \in Special(new) : e.kind # "measurement-protocol"
      BY <2>3 DEF Committing, Ordinary, Attesting, Transition, Replacing, Recording
    <3> QED
      BY <3>1 DEF Special, SpecialKinds
  <2> QED
    BY <2>1, <2>2, <2>3
<1>4. ASSUME NEW x \in current'.objects, NEW y \in current'.objects, x.since = y.since,
             x.kind = "measurement-protocol", y.kind = "measurement-protocol"
      PROVE  x = y
  <2>1. ASSUME NEW z \in current'.objects
        PROVE  \/ \E e \in current.objects :
                      /\ z = Kept(e, withdrawn) /\ z.kind = e.kind /\ z.since = e.since
                      /\ e.since <= current.number
               \/ \E e \in new :
                      z = Dated(e) /\ z.kind = e.kind /\ z.since = current.number + 1
    BY <1>1, NextEntries
  <2>2. current.number \in Nat /\ ~(current.number + 1 <= current.number)
    BY <1>1 DEF IsLedger
  <2>3. \A e, f \in current.objects :
            e.kind = "measurement-protocol" /\ f.kind = "measurement-protocol"
            /\ e.since = f.since => e = f
    BY <1>1 DEF ProtocolInvariant, Objects
  <2> QED
    BY <1>3, <1>4, <2>1, <2>2, <2>3
<1> QED
  BY <1>2, <1>4 DEF ProtocolInvariant, Objects

\* Protocols enter the ledger one at a time, under a time receipt (import_protocol_v5).
THEOREM ProtocolInvariantHolds == Spec => []ProtocolInvariant
<1>1. Init => ProtocolInvariant
  BY DEF Init, Init5, Absent, Founded, ProtocolInvariant
<1>2. LedgerInvariant /\ RunInvariant /\ ProtocolInvariant /\ [Next]_vars => ProtocolInvariant'
  <2> SUFFICES ASSUME LedgerInvariant, RunInvariant, ProtocolInvariant, [Next]_vars
               PROVE  ProtocolInvariant'
    OBVIOUS
  <2>1. CASE UNCHANGED current
    BY <2>1 DEF ProtocolInvariant, Founded, Objects
  <2>2. CASE Established
    <3>1. \A x \in Special(current'.objects) : x.kind = "trust-policy"
      BY <2>2 DEF Established, ledger_entry
    <3>2. \A x \in current'.objects : x.kind # "measurement-protocol"
      BY <3>1 DEF Special, SpecialKinds
    <3> QED
      BY <2>2, <3>2 DEF ProtocolInvariant, Objects, Established
  <2>3. CASE \E withdrawn, new : Committing(withdrawn, new)
    BY <2>3, ProtocolStep
  <2> QED
    BY <2>1, <2>2, <2>3, EveryStep
<1> QED
  BY <1>1, <1>2, LedgerInvariantHolds, RunInvariantHolds, PTL DEF Spec

\* The protocol an identifier stands for is one, whatever shares the identifier.
LEMMA OneProtocol ==
    ASSUME LedgerInvariant, ProtocolInvariant, Founded,
           NEW id, NEW p \in Bound5(current, id), NEW q \in Bound5(current, id)
    PROVE  /\ p = q
           /\ \E e \in Objects("measurement-protocol") : e.digest[2] = p
<1> DEFINE S == {e \in Active(current, "measurement-protocol") : e.digest[2].id = id}
<1>1. PICK e \in S : p = e.digest[2] /\ \A f \in S : f.since <= e.since
  BY DEF Bound5
<1>2. PICK f \in S : q = f.digest[2] /\ \A g \in S : g.since <= f.since
  BY DEF Bound5
<1>3. e \in Objects("measurement-protocol") /\ f \in Objects("measurement-protocol")
  BY DEF Active, Objects
<1>4. e.since \in Nat /\ f.since \in Nat
  BY <1>3 DEF LedgerInvariant, IsLedger, Absent, Founded, Objects
<1>5. e.since = f.since
  BY <1>1, <1>2, <1>4
<1>6. e = f
  BY <1>3, <1>5 DEF ProtocolInvariant
<1> QED
  BY <1>1, <1>2, <1>3, <1>6

\* The verdict that a result is compatible with acceleration is backed by what a randomized
\* protocol asked for, and by three principals (acceleration_status_v5).
THEOREM VerdictEarned == Spec => []CompatibleEarned
<1>1. LedgerInvariant /\ ProtocolInvariant => CompatibleEarned
  <2> SUFFICES ASSUME LedgerInvariant, ProtocolInvariant, Founded,
                      acceleration_status_v5(current) = "external_acceleration_bundle_compatible"
               PROVE  \E r \in _objects(current, "trial-result-certificate"),
                         s \in _objects(current, "acceleration-evidence") :
                             LET p == r.protocol[2]
                             IN /\ s.result = Digest(r)
                                /\ p.tier = "randomized" /\ r.lower >= p.minimum
                                /\ r.quality >= p.floor
                                /\ r.chain = Amendments(current, Digest(p))
                                /\ p.key \notin {p.registration_key, r.key}
                                /\ Cardinality({r.key, s.key, current.receipt.key}) = 3
    BY DEF CompatibleEarned
  <2>1. PICK r \in _objects(current, "trial-result-certificate") :
            /\ _validate_result(current, r)
            /\ \A p \in Bound5(current, r.protocol_id) : _floors_preserved(p, r)
            /\ \E p \in Bound5(current, r.protocol_id) :
                   r.lower >= p.minimum /\ p.tier = "randomized" /\ Vouched(current, r)
    BY DEF acceleration_status_v5
  <2>2. PICK p \in Bound5(current, r.protocol_id) :
            r.lower >= p.minimum /\ p.tier = "randomized" /\ Vouched(current, r)
    BY <2>1
  <2>3. PICK q \in Bound5(current, r.protocol_id) :
            r.protocol = Digest(q) /\ r.key = q.evaluator_key
    BY <2>1 DEF _validate_result
  <2>4. p = q /\ \E e \in Objects("measurement-protocol") : e.digest[2] = p
    BY OneProtocol
  <2>5. r.protocol[2] = p /\ r.protocol = Digest(p)
    BY <2>3, <2>4 DEF Digest
  <2>6. p.key \notin {p.registration_key, r.key}
    <3>1. PICK e \in current.objects : e.kind = "measurement-protocol" /\ e.digest[2] = p
      BY <2>4 DEF Objects
    <3>2. Proper(e)
      BY DEF LedgerInvariant, IsLedger, Absent, Founded
    <3> QED
      BY <2>3, <2>4, <3>1, <3>2 DEF Proper
  <2>7. PICK s \in _objects(current, "acceleration-evidence") :
            /\ s.result = Digest(r) /\ s.schema = "evidence-tier"
            /\ Disjoint({r, s, current.receipt}, Policies[current.policy])
    <3> DEFINE matching == {s \in _objects(current, "acceleration-evidence") :
                               s.result = Digest(r) /\ s.preserved}
    <3>1. Cardinality(matching) = 1
      BY <2>2, Zenon DEF Vouched
    <3>2. PICK s \in matching : TRUE
      BY <3>1, FS_EmptySet
    <3>3. s.schema = "evidence-tier" /\ Disjoint({r, s, current.receipt}, Policies[current.policy])
      BY <2>2, <3>2 DEF Vouched, Expect
    <3> QED
      BY <3>2, <3>3
  <2>8. r.schema = "trial-result-certificate"
    BY <2>1 DEF _validate_result, Expect
  <2>9. current.receipt.schema = "trusted-time-receipt"
    BY DEF ProtocolInvariant
  <2>10. r.key # s.key /\ r.key # current.receipt.key /\ s.key # current.receipt.key
    <3>1. r # s /\ r # current.receipt /\ s # current.receipt
      BY <2>7, <2>8, <2>9
    <3> QED
      BY <2>7, <3>1 DEF Disjoint
  <2>11. Cardinality({r.key, s.key, current.receipt.key}) = 3
    BY <2>10, ThreeKeys
  <2>12. r.quality >= p.floor
    BY <2>1, <2>2 DEF _floors_preserved
  <2>13. r.chain = Amendments(current, Digest(p))
    BY <2>1, <2>5 DEF _validate_result
  <2> QED
    BY <2>2, <2>5, <2>6, <2>7, <2>11, <2>12, <2>13
<1> QED
  BY <1>1, LedgerInvariantHolds, ProtocolInvariantHolds, PTL

-----------------------------------------------------------------------------
(* Runs and promotions.                                                    *)

Promotions == {e \in current.objects : e.kind \in {"promoted-projection", "principal-attestation"}}

\* The projection was there and can be promoted no more.
Spent(q) ==
    /\ \E f \in Objects("pending-projection") : f.digest = q
    /\ \A f \in Objects("pending-projection") : f.digest = q => f.lifecycle = "withdrawn"

\* Receipts of runs enter the ledger one at a time, right after the generation the adapter
\* was launched on.
ReceiptsInOrder ==
    /\ \A e \in Objects("action-receipt") :
           /\ e.since = e.digest[2].before + 1
           /\ \E p \in Process : <<p, e.digest[2].before>> \in launched
           /\ \A d \in e.digest[2].pending : d[2].capability \in Digests(current.objects)
    /\ \A e, f \in Objects("action-receipt") : e.since = f.since => e = f

\* An attestation is imported with one source or promoted; what is promoted has an origin of
\* its own, which is spent.
OriginsSpent ==
    /\ \A e \in Promotions :
           \/ e.kind = "principal-attestation" /\ \E d : e.sources = {d}
           \/ \E q : Origin(e, q)
    /\ \A e \in Objects("promoted-projection") : PromotedOn(e) # {}
    /\ \A e \in Promotions : \A q : Origin(e, q) => Spent(q)
    /\ \A e, f \in Promotions : \A q : Origin(e, q) /\ Origin(f, q) => e = f

OnceInvariant == Founded => ReceiptsInOrder /\ OriginsSpent

\* The approvals among the sources of a promoted object are of its origin.
LEMMA ApprovalOfOrigin ==
    ASSUME NEW e, NEW q, Origin(e, q), NEW d \in e.sources,
           d[1] = "projection-approval", d[2].projection[1] = "pending",
           d[2].projection \in e.sources
    PROVE  d[2].projection = q
<1>1. PICK approval, raw, cap, source :
          /\ e.sources = {q, approval, raw, cap, source}
          /\ q[1] = "pending"
          /\ approval[1] = "projection-approval" /\ approval[2].projection = q
          /\ raw[1] = "raw" /\ cap[1] = "principal-attestation"
  BY DEF Origin
<1>2. d \in {q, approval, raw, cap, source}
      /\ d[2].projection \in {q, approval, raw, cap, source}
  BY <1>1
<1>3. d \notin {q, raw, cap}
  BY <1>1
<1>4. CASE d = approval
  BY <1>1, <1>4
<1>5. CASE d = source
  BY <1>1, <1>2, <1>5
<1> QED
  BY <1>2, <1>3, <1>4, <1>5

\* A promoted object comes from one pending projection.
LEMMA OneOrigin ==
    ASSUME NEW e, NEW p, NEW q, Origin(e, p), Origin(e, q)
    PROVE  p = q
<1>1. PICK approval \in e.sources :
          /\ approval[1] = "projection-approval" /\ approval[2].projection = q
          /\ q[1] = "pending" /\ q \in e.sources
  BY DEF Origin
<1> QED
  BY <1>1, ApprovalOfOrigin

\* No commit leaves two receipts of one generation.
LEMMA ReceiptsStep ==
    ASSUME LedgerInvariant, OnceInvariant, NEW withdrawn, NEW new, Committing(withdrawn, new),
           launched \subseteq launched'
    PROVE  ReceiptsInOrder'
<1>1. Founded /\ IsLedger(current) /\ Grown(withdrawn, new) /\ ReceiptsInOrder
  BY DEF LedgerInvariant, OnceInvariant, Absent, Founded, Committing, Grown
<1>2. \/ /\ \E receipt :
                /\ receipt.before = current.number
                /\ \E p \in Process : <<p, receipt.before>> \in launched
                /\ \A d \in receipt.pending :
                       d[2].capability \in Digests(current.objects) \cup Digests(new)
                /\ \A e \in new : e.kind = "action-receipt" => e.digest[2] = receipt
         /\ \A e, f \in new :
                e.kind = "action-receipt" /\ f.kind = "action-receipt" => e = f
      \/ \A e \in new : e.kind # "action-receipt"
  <2>1. CASE Recording(withdrawn, new)
    BY <2>1, Zenon DEF Recording
  <2>2. CASE Promoting(withdrawn, new)
    <3>1. PICK a, p : /\ new = {a, p} /\ a.kind = "projection-approval"
                      /\ p.kind \in {"principal-attestation", "promoted-projection"}
      BY <2>2 DEF Promoting
    <3> QED
      BY <3>1
  <2>3. CASE ~Recording(withdrawn, new) /\ ~Promoting(withdrawn, new)
    <3>1. \A e \in Special(new) : e.kind # "action-receipt"
      BY <2>3 DEF Committing, Ordinary, Attesting, Transition, Registering, Replacing
    <3> QED
      BY <3>1 DEF Special, SpecialKinds
  <2> QED
    BY <2>1, <2>2, <2>3
<1>3. Digests(current'.objects) = Digests(current.objects) \cup Digests(new)
  BY <1>1, GrownEntries
<1>4. ASSUME NEW z \in current'.objects, z.kind = "action-receipt"
      PROVE  /\ z.since = z.digest[2].before + 1
             /\ \E p \in Process : <<p, z.digest[2].before>> \in launched'
             /\ \A d \in z.digest[2].pending : d[2].capability \in Digests(current'.objects)
  <2>1. CASE \E e \in current.objects :
                 z.digest = e.digest /\ z.kind = e.kind /\ z.since = e.since
    BY <1>1, <1>3, <1>4, <2>1 DEF ReceiptsInOrder, Objects
  <2>2. CASE \E e \in new :
                 z.digest = e.digest /\ z.kind = e.kind /\ z.since = current.number + 1
    BY <1>2, <1>3, <1>4, <2>2
  <2> QED
    BY <1>1, <2>1, <2>2, NextEntries
<1>5. ASSUME NEW x \in current'.objects, NEW y \in current'.objects, x.since = y.since,
             x.kind = "action-receipt", y.kind = "action-receipt"
      PROVE  x = y
  <2>1. ASSUME NEW z \in current'.objects
        PROVE  \/ \E e \in current.objects :
                      /\ z = Kept(e, withdrawn) /\ z.kind = e.kind /\ z.since = e.since
                      /\ e.since <= current.number
               \/ \E e \in new :
                      z = Dated(e) /\ z.kind = e.kind /\ z.since = current.number + 1
    BY <1>1, NextEntries
  <2>2. current.number \in Nat /\ ~(current.number + 1 <= current.number)
    BY <1>1 DEF IsLedger
  <2>3. \A e, f \in current.objects :
            e.kind = "action-receipt" /\ f.kind = "action-receipt" /\ e.since = f.since => e = f
    BY <1>1 DEF ReceiptsInOrder, Objects
  <2>4. \A e, f \in new : e.kind = "action-receipt" /\ f.kind = "action-receipt" => e = f
    BY <1>2
  <2> QED
    BY <1>5, <2>1, <2>2, <2>3, <2>4
<1> QED
  BY <1>4, <1>5 DEF ReceiptsInOrder, Objects

\* Commits that promote nothing add attestations with one source and no approval.
LEMMA NothingPromoted ==
    ASSUME NEW withdrawn, NEW new, Committing(withdrawn, new), ~Promoting(withdrawn, new)
    PROVE  /\ \A e \in new :
                  /\ e.kind # "promoted-projection"
                  /\ e.kind = "principal-attestation" => \E d : e.sources = {d}
           /\ Fresh(new) \/ \A e \in new : e.kind # "pending-projection"
<1>1. SUFFICES /\ \A e \in Special(new) :
                      /\ e.kind # "promoted-projection"
                      /\ e.kind = "principal-attestation" => \E d : e.sources = {d}
               /\ Fresh(new) \/ \A e \in Special(new) : e.kind # "pending-projection"
  BY DEF Special, SpecialKinds
<1> QED
  BY DEF Committing, Ordinary, Attesting, Transition, Registering, Replacing, Recording

\* What is spent stays spent.
LEMMA StaysSpent ==
    ASSUME LedgerInvariant, NEW withdrawn, NEW new, Grown(withdrawn, new),
           Fresh(new) \/ \A e \in new : e.kind # "pending-projection",
           NEW q, Spent(q)
    PROVE  Spent(q)'
<1>1. Founded /\ IsLedger(current)
  BY DEF LedgerInvariant, Absent, Founded, Grown
<1>2. PICK f \in current.objects : f.kind = "pending-projection" /\ f.digest = q
  BY DEF Spent, Objects
<1>3. \E x \in current'.objects : x.digest = f.digest /\ x.kind = f.kind
  BY <1>1, GrownEntries
<1>4. ASSUME NEW x \in current'.objects, x.kind = "pending-projection", x.digest = q
      PROVE  x.lifecycle = "withdrawn"
  <2>1. CASE \E e \in current.objects :
                 /\ x.digest = e.digest /\ x.kind = e.kind
                 /\ x.lifecycle = IF e.digest \in withdrawn THEN "withdrawn" ELSE e.lifecycle
    BY <1>4, <2>1 DEF Spent, Objects
  <2>2. CASE \E e \in new : x.digest = e.digest /\ x.kind = e.kind
    BY <1>2, <1>4, <2>2 DEF Fresh, Digests
  <2> QED
    BY <2>1, <2>2, NextEntries
<1> QED
  BY <1>2, <1>3, <1>4 DEF Spent, Objects

\* No commit promotes a projection again, or two objects from one.
LEMMA OriginsStep ==
    ASSUME LedgerInvariant, OnceInvariant, NEW withdrawn, NEW new, Committing(withdrawn, new)
    PROVE  OriginsSpent'
<1>1. Founded /\ IsLedger(current) /\ Grown(withdrawn, new) /\ OriginsSpent
  BY DEF LedgerInvariant, OnceInvariant, Absent, Founded, Committing, Grown
<1> DEFINE K == {"promoted-projection", "principal-attestation"}
<1>2. \A z \in current'.objects :
          \/ \E e \in current.objects :
                 /\ z = Kept(e, withdrawn) /\ z.digest = e.digest /\ z.kind = e.kind
                 /\ z.sources = e.sources
          \/ \E e \in new :
                 /\ z = Dated(e) /\ z.digest = e.digest /\ z.kind = e.kind
                 /\ z.sources = e.sources
  BY <1>1, NextEntries
<1>3. \A e, f : \A q : e.digest = f.digest /\ e.sources = f.sources =>
          (Origin(e, q) <=> Origin(f, q))
  BY DEF Origin
<1>4. \A e \in current.objects : \E x \in current'.objects :
          x.digest = e.digest /\ x.kind = e.kind
  BY <1>1, GrownEntries
<1>5. \A e \in current.objects : e.kind \in K =>
          \/ e.kind = "principal-attestation" /\ \E d : e.sources = {d}
          \/ \E q : Origin(e, q)
  BY <1>1 DEF OriginsSpent, Promotions
<1>6. \A e \in current.objects : e.kind \in K => \A q : Origin(e, q) => Spent(q)
  BY <1>1 DEF OriginsSpent, Promotions
<1>7. \A e, f \in current.objects : e.kind \in K /\ f.kind \in K =>
          \A q : Origin(e, q) /\ Origin(f, q) => e = f
  BY <1>1 DEF OriginsSpent, Promotions
<1>8. ASSUME NEW e \in current.objects, NEW x \in current'.objects,
             e.kind = "promoted-projection", x.digest = e.digest, x.kind = e.kind,
             x.sources = e.sources
      PROVE  (PromotedOn(x) # {})'
  <2>1. PICK a \in current.objects :
            /\ a.kind = "projection-approval"
            /\ a.digest \in e.sources /\ a.digest[2].projection \in e.sources
    BY <1>1, <1>8 DEF OriginsSpent, Objects, PromotedOn
  <2>2. PICK b \in current'.objects : b.digest = a.digest /\ b.kind = a.kind
    BY <1>4
  <2> QED
    BY <1>8, <2>1, <2>2 DEF PromotedOn, Objects
<1>9. CASE ~Promoting(withdrawn, new)
  <2>1. /\ \A e \in new :
               /\ e.kind # "promoted-projection"
               /\ e.kind = "principal-attestation" => \E d : e.sources = {d}
        /\ Fresh(new) \/ \A e \in new : e.kind # "pending-projection"
    BY <1>9, NothingPromoted
  <2>2. \A e : (\E d : e.sources = {d}) => \A q : ~Origin(e, q)
    BY DEF Origin
  <2>3. ASSUME NEW z \in current'.objects, z.kind \in K
        PROVE  \/ z.kind = "principal-attestation" /\ \E d : z.sources = {d}
               \/ \E e \in current.objects :
                      /\ z = Kept(e, withdrawn) /\ z.digest = e.digest /\ z.kind = e.kind
                      /\ z.sources = e.sources
    <3>1. CASE \E e \in new : z.kind = e.kind /\ z.sources = e.sources
      <4>1. PICK e \in new : z.kind = e.kind /\ z.sources = e.sources
        BY <3>1
      <4>2. z.kind = "principal-attestation" /\ \E d : e.sources = {d}
        BY <2>3, <2>1, <4>1
      <4> QED
        BY <4>1, <4>2
    <3> QED
      BY <1>2, <3>1
  <2>4. ASSUME NEW z \in current'.objects, z.kind \in K
        PROVE  \/ z.kind = "principal-attestation" /\ \E d : z.sources = {d}
               \/ \E q : Origin(z, q)
    <3>1. CASE \E e \in current.objects :
                   z.digest = e.digest /\ z.kind = e.kind /\ z.sources = e.sources
      <4>1. PICK e \in current.objects :
                z.digest = e.digest /\ z.kind = e.kind /\ z.sources = e.sources
        BY <3>1
      <4>2. \/ e.kind = "principal-attestation" /\ \E d : e.sources = {d}
            \/ \E q : Origin(e, q)
        BY <1>5, <2>4, <4>1
      <4> QED
        BY <1>3, <4>1, <4>2
    <3> QED
      BY <2>3, <2>4, <3>1
  <2>5. ASSUME NEW z \in current'.objects, z.kind = "promoted-projection"
        PROVE  (PromotedOn(z) # {})'
    BY <1>2, <1>8, <2>1, <2>5
  <2>6. ASSUME NEW z \in current'.objects, z.kind \in K, NEW q, Origin(z, q)
        PROVE  Spent(q)'
    <3>1. PICK e \in current.objects :
              z.digest = e.digest /\ z.kind = e.kind /\ z.sources = e.sources
      BY <2>3, <2>2, <2>6
    <3>2. Spent(q)
      BY <1>3, <1>6, <2>6, <3>1
    <3> QED
      BY <1>1, <2>1, <3>2, StaysSpent
  <2>7. ASSUME NEW x \in current'.objects, NEW y \in current'.objects,
               x.kind \in K, y.kind \in K, NEW q, Origin(x, q), Origin(y, q)
        PROVE  x = y
    <3>1. PICK e \in current.objects :
              /\ x = Kept(e, withdrawn) /\ x.digest = e.digest /\ x.kind = e.kind
              /\ x.sources = e.sources
      BY <2>3, <2>2, <2>7
    <3>2. PICK f \in current.objects :
              /\ y = Kept(f, withdrawn) /\ y.digest = f.digest /\ y.kind = f.kind
              /\ y.sources = f.sources
      BY <2>3, <2>2, <2>7
    <3>3. e = f
      BY <1>3, <1>7, <2>7, <3>1, <3>2
    <3> QED
      BY <3>1, <3>2, <3>3
  <2> QED
    BY <2>4, <2>5, <2>6, <2>7 DEF OriginsSpent, Promotions, Objects
<1>10. CASE Promoting(withdrawn, new)
  <2>1. PICK entry, a, p :
            /\ entry \in Active(current, "pending-projection")
            /\ withdrawn = {entry.digest} /\ new = {a, p}
            /\ a.kind = "projection-approval" /\ a.digest[2].projection = entry.digest
            /\ p.kind \in K /\ Origin(p, entry.digest) /\ a.digest \in p.sources
    BY <1>10 DEF Promoting
  <2>2. entry \in current.objects /\ entry.kind = "pending-projection" /\ entry.lifecycle = "active"
    BY <2>1 DEF Active
  <2>3. ~Spent(entry.digest)
    BY <2>2 DEF Spent, Objects
  <2>4. \A e \in current.objects : e.kind \in K => ~Origin(e, entry.digest)
    BY <1>6, <2>3
  <2>5. \A q : Origin(p, q) => q = entry.digest
    BY <2>1, OneOrigin
  <2>6. \A e \in new : e.kind \in K => e = p
    BY <2>1
  <2>7. (Spent(entry.digest))'
    <3>1. \E x \in current'.objects : x.digest = entry.digest /\ x.kind = entry.kind
      BY <1>4, <2>2
    <3>2. ASSUME NEW x \in current'.objects, x.kind = "pending-projection",
                 x.digest = entry.digest
          PROVE  x.lifecycle = "withdrawn"
      <4>1. CASE \E e \in current.objects :
                     /\ x.digest = e.digest
                     /\ x.lifecycle = IF e.digest \in withdrawn THEN "withdrawn" ELSE e.lifecycle
        BY <2>1, <3>2, <4>1
      <4>2. CASE \E e \in new : x.kind = e.kind
        BY <2>1, <3>2, <4>2
      <4> QED
        BY <1>1, <4>1, <4>2, NextEntries
    <3>3. \A x \in current'.objects :
              x.kind = "pending-projection" /\ x.digest = entry.digest => x.lifecycle = "withdrawn"
      BY <3>2
    <3>4. \E x \in current'.objects : x.kind = "pending-projection" /\ x.digest = entry.digest
      BY <2>2, <3>1
    <3> QED
      BY <3>3, <3>4 DEF Spent, Objects
  <2>8. ASSUME NEW z \in current'.objects, z.kind \in K
        PROVE  \/ z.kind = "principal-attestation" /\ \E d : z.sources = {d}
               \/ \E q : Origin(z, q)
    <3>1. CASE \E e \in current.objects :
                   z.digest = e.digest /\ z.kind = e.kind /\ z.sources = e.sources
      <4>1. PICK e \in current.objects :
                z.digest = e.digest /\ z.kind = e.kind /\ z.sources = e.sources
        BY <3>1
      <4>2. \/ e.kind = "principal-attestation" /\ \E d : e.sources = {d}
            \/ \E q : Origin(e, q)
        BY <1>5, <2>8, <4>1
      <4> QED
        BY <1>3, <4>1, <4>2
    <3>2. CASE z.digest = p.digest /\ z.sources = p.sources
      <4>1. Origin(z, entry.digest)
        BY <1>3, <2>1, <3>2
      <4> QED
        BY <4>1
    <3> QED
      BY <1>2, <2>6, <2>8, <3>1, <3>2
  <2>9. ASSUME NEW z \in current'.objects, z.kind = "promoted-projection"
        PROVE  (PromotedOn(z) # {})'
    <3>1. CASE \E e \in current.objects :
                   z.digest = e.digest /\ z.kind = e.kind /\ z.sources = e.sources
      BY <1>8, <2>9, <3>1
    <3>2. CASE z.sources = p.sources
      <4>1. PICK b \in current'.objects : b.digest = a.digest /\ b.kind = a.kind
        <5>1. \A e \in new : \E x \in current'.objects : x.digest = e.digest /\ x.kind = e.kind
          BY <1>1, GrownEntries
        <5> QED
          BY <2>1, <5>1
      <4>2. entry.digest \in p.sources
        BY <2>1 DEF Origin
      <4> QED
        BY <2>1, <2>9, <3>2, <4>1, <4>2 DEF PromotedOn, Objects
    <3> QED
      BY <1>2, <2>6, <2>9, <3>1, <3>2
  <2>10. ASSUME NEW z \in current'.objects, z.kind \in K, NEW q, Origin(z, q)
         PROVE  Spent(q)'
    <3>1. CASE \E e \in current.objects :
                   z.digest = e.digest /\ z.kind = e.kind /\ z.sources = e.sources
      <4>1. Spent(q)
        BY <1>3, <1>6, <2>10, <3>1
      <4>2. \A e \in new : e.kind # "pending-projection"
        BY <2>1
      <4> QED
        BY <1>1, <4>1, <4>2, StaysSpent
    <3>2. CASE z.digest = p.digest /\ z.sources = p.sources
      BY <1>3, <2>5, <2>7, <2>10, <3>2
    <3> QED
      BY <1>2, <2>6, <2>10, <3>1, <3>2
  <2>11. ASSUME NEW x \in current'.objects, NEW y \in current'.objects,
                x.kind \in K, y.kind \in K, NEW q, Origin(x, q), Origin(y, q)
         PROVE  x = y
    <3>1. ASSUME NEW z \in current'.objects, z.kind \in K, Origin(z, q)
          PROVE  \/ z = Dated(p) /\ q = entry.digest
                 \/ q # entry.digest /\ \E e \in current.objects :
                        z = Kept(e, withdrawn) /\ e.kind \in K /\ Origin(e, q)
      <4>1. CASE \E e \in current.objects :
                     /\ z = Kept(e, withdrawn) /\ z.digest = e.digest /\ z.kind = e.kind
                     /\ z.sources = e.sources
        <5>1. PICK e \in current.objects :
                  /\ z = Kept(e, withdrawn) /\ z.digest = e.digest /\ z.kind = e.kind
                  /\ z.sources = e.sources
          BY <4>1
        <5>2. Origin(e, q) /\ e.kind \in K
          BY <1>3, <3>1, <5>1
        <5>3. q # entry.digest
          BY <2>4, <5>2
        <5> QED
          BY <5>1, <5>2, <5>3
      <4>2. CASE z = Dated(p) /\ z.digest = p.digest /\ z.sources = p.sources
        <5>1. Origin(p, q)
          BY <1>3, <3>1, <4>2
        <5> QED
          BY <2>5, <4>2, <5>1
      <4> QED
        BY <1>2, <2>6, <3>1, <4>1, <4>2
    <3> QED
      BY <1>7, <2>11, <3>1
  <2> QED
    BY <2>8, <2>9, <2>10, <2>11 DEF OriginsSpent, Promotions, Objects
<1> QED
  BY <1>9, <1>10

\* Receipts are of different generations and promotions of different projections (approve_projection_v5).
THEOREM OnceInvariantHolds == Spec => []OnceInvariant
<1>1. Init => OnceInvariant
  BY DEF Init, Init5, Absent, Founded, OnceInvariant
<1>2. LedgerInvariant /\ RunInvariant /\ OnceInvariant /\ [Next]_vars => OnceInvariant'
  <2> SUFFICES ASSUME LedgerInvariant, RunInvariant, OnceInvariant, [Next]_vars
               PROVE  OnceInvariant'
    OBVIOUS
  <2>1. launched \subseteq launched'
    BY EveryStep
  <2>2. CASE UNCHANGED current
    <3>1. ReceiptsInOrder => ReceiptsInOrder'
      BY <2>1, <2>2 DEF ReceiptsInOrder, Objects
    <3>2. OriginsSpent => OriginsSpent'
      BY <2>2 DEF OriginsSpent, Promotions, PromotedOn, Spent, Objects
    <3> QED
      BY <2>2, <3>1, <3>2 DEF OnceInvariant, Founded
  <2>3. CASE Established
    <3>1. \A x \in Special(current'.objects) : x.kind = "trust-policy"
      BY <2>3 DEF Established, ledger_entry
    <3>2. \A x \in current'.objects :
              x.kind \notin {"action-receipt", "promoted-projection", "principal-attestation"}
      BY <3>1 DEF Special, SpecialKinds
    <3> QED
      BY <3>2 DEF OnceInvariant, ReceiptsInOrder, OriginsSpent, Promotions, Objects
  <2>4. ASSUME NEW withdrawn, NEW new, Committing(withdrawn, new)
        PROVE  OnceInvariant'
    BY <2>1, <2>4, ReceiptsStep, OriginsStep DEF OnceInvariant
  <2> QED
    BY <2>2, <2>3, <2>4, EveryStep
<1> QED
  BY <1>1, <1>2, LedgerInvariantHolds, RunInvariantHolds, PTL DEF Spec

\* What a promoted object was promoted on is its origin.
LEMMA PromotedOnOrigin ==
    ASSUME LedgerInvariant, Founded, OriginsSpent, NEW e \in current.objects,
           NEW a \in PromotedOn(e)
    PROVE  /\ e \in Promotions /\ a \in Objects("projection-approval")
           /\ Origin(e, a.digest[2].projection)
<1>1. e \in Promotions /\ a \in Objects("projection-approval")
      /\ a.digest \in e.sources /\ a.digest[2].projection \in e.sources
  BY DEF PromotedOn, Promotions
<1>2. a.digest[1] = "projection-approval" /\ a.digest[2].projection[1] = "pending"
  BY <1>1 DEF LedgerInvariant, IsLedger, Proper, Absent, Founded, Objects
<1>3. ~\E d : e.sources = {d}
  <2>1. a.digest # a.digest[2].projection
    BY <1>2
  <2> QED
    BY <1>1, <2>1
<1>4. PICK q : Origin(e, q)
  BY <1>1, <1>3 DEF OriginsSpent
<1>5. a.digest[2].projection = q
  BY <1>1, <1>2, <1>4, ApprovalOfOrigin
<1> QED
  BY <1>1, <1>4, <1>5

\* From start to end a run counts once: one of the runs on a generation is recorded
\* (run_action_v5), and what it projected is promoted once, by a second party
\* (approve_projection_v5).
THEOREM RunsOnce == Spec => []RunsCountOnce
<1>1. LedgerInvariant /\ OnceInvariant => RunsCountOnce
  <2> SUFFICES ASSUME LedgerInvariant, OnceInvariant, Founded
               PROVE  RecordedOnce /\ PromotedOnce
    BY DEF RunsCountOnce
  <2>1. ReceiptsInOrder /\ OriginsSpent
    BY DEF OnceInvariant
  <2>2. RecordedOnce
    <3>1. ASSUME NEW e \in Objects("action-receipt"), NEW f \in Objects("action-receipt"),
                 f.digest[2].before = e.digest[2].before
          PROVE  f = e
      BY <2>1, <3>1 DEF ReceiptsInOrder
    <3> QED
      BY <2>1, <3>1 DEF RecordedOnce, ReceiptsInOrder
  <2>3. ASSUME NEW e \in current.objects, NEW a \in PromotedOn(e)
        PROVE  LET d == a.digest[2].projection
               IN /\ \E f \in Objects("pending-projection") :
                         f.digest = d /\ f.lifecycle = "withdrawn"
                  /\ a.digest[2].key # d[2].capability[2].key
                  /\ d[2].projected = e.digest
                  /\ \A f \in current.objects \ {e} : \A b \in PromotedOn(f) :
                         b.digest[2].projection # d
    <3> DEFINE d == a.digest[2].projection
    <3>1. e \in Promotions /\ a \in Objects("projection-approval") /\ Origin(e, d)
      BY <2>1, <2>3, PromotedOnOrigin
    <3>2. Spent(d)
      BY <2>1, <3>1 DEF OriginsSpent
    <3>3. \E f \in Objects("pending-projection") : f.digest = d /\ f.lifecycle = "withdrawn"
      BY <3>2 DEF Spent
    <3>4. a.digest[2].key # d[2].capability[2].key
      <4>1. a.kind = "projection-approval" /\ a \in current.objects
        BY <3>1 DEF Objects
      <4>2. IsLedger(current)
        BY DEF LedgerInvariant, Absent, Founded
      <4>3. Proper(a)
        BY <4>1, <4>2 DEF IsLedger
      <4> QED
        BY <4>1, <4>3 DEF Proper
    <3>5. d[2].projected = e.digest
      BY <3>1 DEF Origin
    <3>6. ASSUME NEW f \in current.objects \ {e}, NEW b \in PromotedOn(f)
          PROVE  b.digest[2].projection # d
      <4>1. f \in Promotions /\ Origin(f, b.digest[2].projection)
        BY <2>1, <3>6, PromotedOnOrigin
      <4> QED
        BY <2>1, <3>1, <3>6, <4>1 DEF OriginsSpent
    <3> QED
      BY <3>3, <3>4, <3>5, <3>6
  <2>4. \A e \in Objects("promoted-projection") : PromotedOn(e) # {}
    BY <2>1 DEF OriginsSpent
  <2> QED
    BY <2>2, <2>3, <2>4 DEF PromotedOnce
<1> QED
  BY <1>1, LedgerInvariantHolds, OnceInvariantHolds, PTL
=============================================================================
