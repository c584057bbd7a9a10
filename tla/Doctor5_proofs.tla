--------------------------- MODULE Doctor5_proofs ---------------------------
(***************************************************************************)
(* doctor_v5 finds nothing wrong but what time brings: the proof of        *)
(* DoctorExplained.                                                        *)
(*                                                                         *)
(* The audit of a ledger is about each entry by itself (its signature, the *)
(* sources its content names) and about the trusted time.  Vetted says of  *)
(* an entry what the command that added it had checked, and Audited of a   *)
(* manifest what no later command undoes: an attestation that was valid    *)
(* stays valid until the policy is replaced or the time advances, and each *)
(* of these leaves its trace in the ledger.                                *)
(***************************************************************************)
EXTENDS LocalWorkspace5_proofs, PlanTrees5, WellFoundedInduction

\* The statement of an entry is valid at the time it was signed.
ValidThen(e) ==
    LET s == e.digest[2]
    IN /\ e.policy \in DOMAIN Policies /\ s.signed \in Int
       /\ verify_statement(s, Policies[e.policy], s.signed)

\* An attestation is one that principals sign, under its own digest.
Genuine(e) == e.digest = Digest(e.digest[2]) /\ Numeric(e.digest[2])

\* The sources an entry's content names are among its sources, and what waits for
\* approval was projected from an output.
Backed(e) ==
    LET object == e.digest[2]
    IN /\ e.kind = "principal-attestation" => object.source \in e.sources /\ Genuine(e)
       /\ e.kind = "typed-flow-profile" =>
              \E d \in e.sources : d[1] = "typed-flow-profile" /\ d[2].payload = object
       /\ e.kind = "action-receipt" => ({object.raw} \cup object.pending) \subseteq e.sources
       /\ e.kind = "pending-projection" => \E x \in Output : object.projected = Projected[x.raw]

Vetted(e) == (e.kind \in KIND_SCHEMAS => ValidThen(e)) /\ Backed(e)

\* A source of the entry was a pending projection: it was promoted.
Promoted(e) == \E d \in e.sources : d[1] = "pending"

\* An attestation that was imported under the policy in force is valid, unless the time
\* has advanced since.
StillValid(g, e) ==
    /\ _current_time(g)
    /\ \/ _validate_attestation(g, e.digest[2])
       \/ \E f \in g.objects : f.kind = "trusted-time-receipt" /\ f.since > e.since

Attested(g, e) ==
    /\ PolicyDigest(e.policy) \in Digests(g.objects)
    /\ e.policy = g.policy /\ ~Promoted(e) => StillValid(g, e)

\* What the manifest refers to is in the ledger, and its time receipt was verified when
\* the history last recorded so.
Anchored(g) ==
    /\ g.epoch \in Int /\ g.policy \in DOMAIN Policies
    /\ g.quarantine \subseteq Digests(g.objects)
    /\ Digest(g.receipt) \in Digests(g.objects) /\ PolicyDigest(g.policy) \in Digests(g.objects)
    /\ g.event = "time_advanced" \/ g.number = 1 => _current_time(g)

Audited(g) ==
    /\ Anchored(g)
    /\ \A e \in g.objects : Vetted(e)
    /\ \A e \in g.objects : e.kind = "principal-attestation" => Attested(g, e)

DoctorInvariant == Founded => Audited(current)

-----------------------------------------------------------------------------
(* Statements and entries.                                                 *)

\* A statement that verifies at some time verifies at the time it was signed.
LEMMA ValidWhenSigned ==
    ASSUME NEW n \in DOMAIN Policies, NEW s, s.signed \in Int, NEW at \in Int,
           verify_statement(s, Policies[n], at)
    PROVE  verify_statement(s, Policies[n], s.signed)
<1>1. Policies[n].principals[s.key].not_after \in Int
  BY TimesAssumption DEF verify_statement
<1> QED
  BY <1>1 DEF verify_statement

\* A statement that was valid when it was signed is rejected only before that time or
\* after its key has expired.
LEMMA WhyInvalid ==
    ASSUME NEW e, ValidThen(e), NEW at \in Int,
           ~verify_statement(e.digest[2], Policies[e.policy], at)
    PROVE  \/ at > Policies[e.policy].principals[e.digest[2].key].not_after
           \/ at < e.digest[2].signed
<1> DEFINE s == e.digest[2]
           until == Policies[e.policy].principals[s.key].not_after
<1>1. s.signed \in Int /\ verify_statement(s, Policies[e.policy], s.signed)
  BY DEF ValidThen
<1>2. until \in Int
  BY <1>1, TimesAssumption DEF ValidThen, verify_statement
<1>3. ~(s.signed <= at /\ at <= until)
  BY <1>1 DEF verify_statement
<1>4. s.signed \in Int
  BY <1>1
<1> HIDE DEF until
<1>5. at > until \/ at < s.signed
  BY <1>2, <1>3, <1>4
<1> QED
  BY <1>5 DEF until

\* An entry as it is made.
LEMMA EntryIs ==
    ASSUME NEW d, NEW kind, NEW sources, NEW name
    PROVE  LET e == ledger_entry(d, kind, sources, name)
           IN /\ IsEntry(e) /\ e.digest = d /\ e.kind = kind
              /\ e.sources = sources /\ e.policy = name
BY DEF ledger_entry, IsEntry

\* The entry of a statement that was verified is vetted.
LEMMA StatementIsVetted ==
    ASSUME NEW n \in DOMAIN Policies, NEW s, s.signed \in Int, NEW at \in Int,
           verify_statement(s, Policies[n], at), NEW sources,
           NEW kind \in KIND_SCHEMAS \ {"principal-attestation"}
    PROVE  LET e == ledger_entry(Digest(s), kind, sources, n)
           IN IsEntry(e) /\ Vetted(e) /\ e.kind = kind
<1> DEFINE e == ledger_entry(Digest(s), kind, sources, n)
<1>1. /\ IsEntry(e) /\ e.digest = Digest(s) /\ e.kind = kind /\ e.policy = n
  BY EntryIs
<1> HIDE DEF e
<1>2. e.digest[2] = s
  BY <1>1 DEF Digest
<1>3. ValidThen(e)
  BY <1>1, <1>2, ValidWhenSigned DEF ValidThen
<1>4. Backed(e)
  BY <1>1 DEF Backed, KIND_SCHEMAS
<1> QED
  BY <1>1, <1>3, <1>4 DEF e, Vetted

\* An entry whose content is neither signed nor names sources is vetted.
PlainKinds ==
    {"contract", "unit-registry", "trust-policy", "raw-artifact", "legacy-manifest",
     "coordination-plan", "coordination-session", "promoted-projection"}

LEMMA PlainIsVetted ==
    ASSUME NEW e, e.kind \in PlainKinds
    PROVE  Vetted(e) /\ e.kind # "principal-attestation"
BY DEF Vetted, Backed, PlainKinds, KIND_SCHEMAS

-----------------------------------------------------------------------------
(* Commits, by what they add.                                              *)

Adds(withdrawn, new) ==
    /\ Founded /\ current'.number = current.number + 1
    /\ current'.objects = NextObjects(withdrawn, new)
    /\ \A e \in new : IsEntry(e) /\ Vetted(e)

\* An attestation that is added was promoted, or verified now.
Admitted(e) ==
    e.kind = "principal-attestation" =>
        /\ e.policy = current.policy
        /\ Promoted(e) \/ (TimeKnown /\ _validate_attestation(current, e.digest[2]))

\* A commit under the same policy and at the same time.
Quiet(withdrawn, new) ==
    /\ Adds(withdrawn, new) /\ SameTrust /\ current'.epoch = current.epoch
    /\ current'.event # "time_advanced"
    /\ current'.quarantine \subseteq current.quarantine \cup Digests(new)
    /\ \A e \in new : Admitted(e)

(* Entries are kept but for their lifecycle, and new ones are dated. *)
LEMMA AddedEntries ==
    ASSUME IsLedger(current), NEW withdrawn, NEW new, Adds(withdrawn, new)
    PROVE  /\ \A x \in current'.objects :
                  \/ \E e \in current.objects :
                         /\ x.digest = e.digest /\ x.kind = e.kind /\ x.sources = e.sources
                         /\ x.policy = e.policy /\ x.since = e.since
                  \/ \E e \in new :
                         /\ x.digest = e.digest /\ x.kind = e.kind /\ x.sources = e.sources
                         /\ x.policy = e.policy /\ x.since = current.number + 1
           /\ \A e \in current.objects : \E x \in current'.objects :
                  x.digest = e.digest /\ x.kind = e.kind /\ x.since = e.since
           /\ \A e \in new : \E x \in current'.objects :
                  x.digest = e.digest /\ x.kind = e.kind /\ x.since = current.number + 1
           /\ Digests(current'.objects) = Digests(current.objects) \cup Digests(new)
<1>1. \A e \in current.objects : IsEntry(e)
  BY DEF IsLedger
<1>2. \A e \in new : IsEntry(e)
  BY DEF Adds
<1>3. current'.objects = {Kept(e, withdrawn) : e \in current.objects} \cup {Dated(e) : e \in new}
  BY DEF Adds, NextObjects
<1>4. \A x \in current'.objects :
          \/ \E e \in current.objects :
                 /\ x.digest = e.digest /\ x.kind = e.kind /\ x.sources = e.sources
                 /\ x.policy = e.policy /\ x.since = e.since
          \/ \E e \in new :
                 /\ x.digest = e.digest /\ x.kind = e.kind /\ x.sources = e.sources
                 /\ x.policy = e.policy /\ x.since = current.number + 1
  BY <1>1, <1>2, <1>3, KeptFields, DatedFields
<1>5. \A e \in current.objects : \E x \in current'.objects :
          x.digest = e.digest /\ x.kind = e.kind /\ x.since = e.since
  BY <1>1, <1>3, KeptFields
<1>6. \A e \in new : \E x \in current'.objects :
          x.digest = e.digest /\ x.kind = e.kind /\ x.since = current.number + 1
  BY <1>2, <1>3, DatedFields
<1>7. Digests(current'.objects) = Digests(current.objects) \cup Digests(new)
  <2>1. ASSUME NEW d \in Digests(current'.objects)
        PROVE  d \in Digests(current.objects) \cup Digests(new)
    <3>1. PICK x \in current'.objects : x.digest = d
      BY <2>1 DEF Digests
    <3> QED
      BY <1>4, <3>1 DEF Digests
  <2>2. ASSUME NEW d \in Digests(current.objects) \cup Digests(new)
        PROVE  d \in Digests(current'.objects)
    BY <1>5, <1>6, <2>2 DEF Digests
  <2> QED
    BY <2>1, <2>2
<1> QED
  BY <1>4, <1>5, <1>6, <1>7, Zenon

(* What is vetted stays vetted. *)
LEMMA StaysVetted ==
    ASSUME IsLedger(current), \A e \in current.objects : Vetted(e),
           NEW withdrawn, NEW new, Adds(withdrawn, new)
    PROVE  \A x \in current'.objects : Vetted(x)
<1> SUFFICES ASSUME NEW x \in current'.objects  PROVE  Vetted(x)
  OBVIOUS
<1>1. PICK e \in current.objects \cup new :
          /\ x.digest = e.digest /\ x.kind = e.kind /\ x.sources = e.sources
          /\ x.policy = e.policy
  <2>1. \/ \E e \in current.objects :
               /\ x.digest = e.digest /\ x.kind = e.kind /\ x.sources = e.sources
               /\ x.policy = e.policy /\ x.since = e.since
        \/ \E e \in new :
               /\ x.digest = e.digest /\ x.kind = e.kind /\ x.sources = e.sources
               /\ x.policy = e.policy /\ x.since = current.number + 1
    BY AddedEntries, Zenon
  <2> QED
    BY <2>1
<1>2. Vetted(e)
  BY DEF Adds
<1> QED
  BY <1>1, <1>2, Zenon DEF Vetted, ValidThen, Backed, Genuine

(* An attestation is judged by the policy and the time, which are the same, *)
(* and by its source, which is not removed.                                 *)
LEMMA ValidStays ==
    ASSUME NEW g, NEW h, NEW s, h.policy = g.policy, h.epoch = g.epoch,
           Digests(g.objects) \subseteq Digests(h.objects), _validate_attestation(g, s)
    PROVE  _validate_attestation(h, s)
<1>1. s.source \in Digests(h.objects)
  BY DEF _validate_attestation
<1> QED
  BY <1>1 DEF _validate_attestation

(* A commit at the same time, under the same policy, leaves the audit as it is. *)
LEMMA QuietKeeps ==
    ASSUME Founded, IsLedger(current), Audited(current),
           NEW withdrawn, NEW new, Quiet(withdrawn, new)
    PROVE  Audited(current')
<1> DEFINE D == Digests(current.objects)
           D2 == Digests(current'.objects)
<1>1. /\ Adds(withdrawn, new) /\ current'.number = current.number + 1
      /\ current'.policy = current.policy /\ current'.receipt = current.receipt
      /\ current'.epoch = current.epoch /\ current'.event # "time_advanced"
      /\ current'.quarantine \subseteq current.quarantine \cup Digests(new)
      /\ \A e \in new : Admitted(e)
  BY DEF Quiet, Adds, SameTrust
<1>2. D2 = D \cup Digests(new)
  BY <1>1, AddedEntries, Zenon
<1>3. current.number \in Nat /\ current.number > 0
  BY DEF IsLedger, Founded
<1>4. _current_time(current) => _current_time(current')
  BY <1>1 DEF _current_time
<1>5. \A x \in current'.objects : Vetted(x)
  BY <1>1, StaysVetted DEF Audited
<1>6. Anchored(current')
  <2>1. Anchored(current)
    BY DEF Audited
  <2>2. current'.quarantine \subseteq D2
    BY <1>1, <1>2, <2>1 DEF Anchored
  <2>3. Digest(current'.receipt) \in D2 /\ PolicyDigest(current'.policy) \in D2
    BY <1>1, <1>2, <2>1 DEF Anchored
  <2>4. current'.number # 1
    BY <1>1, <1>3
  <2> HIDE DEF D2
  <2>5. current'.epoch \in Int /\ current'.policy \in DOMAIN Policies
    BY <1>1, <2>1 DEF Anchored
  <2> QED
    BY <1>1, <2>2, <2>3, <2>4, <2>5 DEF Anchored, D2
<1>7. ASSUME NEW x \in current'.objects, x.kind = "principal-attestation"
      PROVE  Attested(current', x)
  <2>1. CASE \E e \in current.objects :
                 /\ x.digest = e.digest /\ x.kind = e.kind /\ x.sources = e.sources
                 /\ x.policy = e.policy /\ x.since = e.since
    <3>1. PICK e \in current.objects :
                 /\ x.digest = e.digest /\ x.kind = e.kind /\ x.sources = e.sources
                 /\ x.policy = e.policy /\ x.since = e.since
      BY <2>1
    <3>2. Attested(current, e)
      BY <1>7, <3>1 DEF Audited
    <3>3. PolicyDigest(x.policy) \in D2
      BY <1>2, <3>1, <3>2 DEF Attested
    <3>4. ASSUME x.policy = current'.policy, ~Promoted(x)
          PROVE  StillValid(current', x)
      <4>1. StillValid(current, e)
        BY <1>1, <3>1, <3>2, <3>4 DEF Attested, Promoted
      <4>2. CASE _validate_attestation(current, e.digest[2])
        <5>1. _validate_attestation(current', e.digest[2])
          BY <1>1, <1>2, <4>2, ValidStays
        <5> QED
          BY <1>4, <3>1, <4>1, <5>1 DEF StillValid
      <4>3. CASE \E f \in current.objects : f.kind = "trusted-time-receipt" /\ f.since > e.since
        <5>1. PICK f \in current.objects : f.kind = "trusted-time-receipt" /\ f.since > e.since
          BY <4>3
        <5>2. \E f2 \in current'.objects :
                  f2.digest = f.digest /\ f2.kind = f.kind /\ f2.since = f.since
          BY <1>1, AddedEntries, Zenon
        <5> QED
          BY <1>4, <3>1, <4>1, <5>1, <5>2 DEF StillValid
      <4> QED
        BY <4>1, <4>2, <4>3 DEF StillValid
    <3> QED
      BY <3>3, <3>4 DEF Attested
  <2>2. CASE \E e \in new :
                 /\ x.digest = e.digest /\ x.kind = e.kind /\ x.sources = e.sources
                 /\ x.policy = e.policy /\ x.since = current.number + 1
    <3>1. PICK e \in new :
                 /\ x.digest = e.digest /\ x.kind = e.kind /\ x.sources = e.sources
                 /\ x.policy = e.policy /\ x.since = current.number + 1
      BY <2>2
    <3>2. /\ e.policy = current.policy
          /\ Promoted(e) \/ (TimeKnown /\ _validate_attestation(current, e.digest[2]))
      BY <1>1, <1>7, <3>1 DEF Admitted
    <3>3. PolicyDigest(x.policy) \in D2
      BY <1>2, <3>1, <3>2 DEF Audited, Anchored
    <3>4. ASSUME ~Promoted(x)  PROVE  StillValid(current', x)
      <4>1. TimeKnown /\ _validate_attestation(current, e.digest[2])
        BY <3>1, <3>2, <3>4 DEF Promoted
      <4>2. _validate_attestation(current', e.digest[2])
        BY <1>1, <1>2, <4>1, ValidStays
      <4> QED
        BY <1>4, <3>1, <4>1, <4>2 DEF StillValid, TimeKnown
    <3> QED
      BY <3>3, <3>4 DEF Attested
  <2> QED
    BY <1>1, <2>1, <2>2, AddedEntries, Zenon
<1> QED
  BY <1>5, <1>6, <1>7 DEF Audited

(* What a commit at the same time adds decides whether it is quiet. *)
LEMMA CommitIsQuiet ==
    ASSUME IsLedger(current), NEW event, NEW withdrawn, NEW new,
           Commit(event, withdrawn, new), event # "time_advanced",
           \A e \in new : IsEntry(e) /\ Vetted(e) /\ Admitted(e)
    PROVE  Quiet(withdrawn, new)
<1>1. Founded /\ current' = Successor(current, event, withdrawn, new)
  BY DEF Commit, Room
<1>2. /\ current'.number = current.number + 1 /\ current'.event = event
      /\ current'.policy = current.policy /\ current'.receipt = current.receipt
      /\ current'.epoch = current.epoch /\ current'.quarantine = current.quarantine
      /\ current'.objects = NextObjects(withdrawn, new)
  BY <1>1, SuccessorIs DEF IsLedger
<1> QED
  BY <1>1, <1>2 DEF Quiet, Adds, SameTrust

-----------------------------------------------------------------------------
(* The commands.                                                           *)

(* A raw artifact is quiet. *)
LEMMA RawIsQuiet ==
    ASSUME IsLedger(current), NEW r, import_raw_v5(r)
    PROVE  \E withdrawn, new : Quiet(withdrawn, new)
<1> DEFINE e1 == ledger_entry(<<"raw", r>>, "raw-artifact", {}, NoPolicy)
<1>1. Commit("object_imported", {}, {e1})
  BY DEF import_raw_v5
<1>2. IsEntry(e1) /\ e1.kind = "raw-artifact"
  BY EntryIs
<1> HIDE DEF e1
<1>3. Vetted(e1) /\ Admitted(e1)
  BY <1>2, PlainIsVetted DEF PlainKinds, Admitted
<1> QED
  BY <1>1, <1>2, <1>3, CommitIsQuiet

(* So are the files of a migrated directory, which are quarantined as they come. *)
LEMMA LegacyIsQuiet ==
    ASSUME IsLedger(current), NEW files, MigrateLegacy(files)
    PROVE  \E withdrawn, new : Quiet(withdrawn, new)
<1> DEFINE E(f) == [ledger_entry(<<"legacy", f>>, "legacy-manifest", {}, NoPolicy)
                        EXCEPT !.lifecycle = "quarantined"]
           new == {E(f) : f \in files}
<1>1. /\ current.number = 1
      /\ current' = [Successor(current, "legacy_migrated", {}, new)
                        EXCEPT !.quarantine = @ \cup Digests(new)]
  BY DEF MigrateLegacy
<1>2. \A f \in files : IsEntry(E(f)) /\ E(f).kind = "legacy-manifest"
  BY DEF ledger_entry, IsEntry
<1>3. \A e \in new : IsEntry(e) /\ e.kind = "legacy-manifest"
  <2> HIDE DEF E
  <2> QED
    BY <1>2
<1> HIDE DEF new
<1>4. /\ current'.number = current.number + 1 /\ current'.event = "legacy_migrated"
      /\ current'.policy = current.policy /\ current'.receipt = current.receipt
      /\ current'.epoch = current.epoch
      /\ current'.quarantine = current.quarantine \cup Digests(new)
      /\ current'.objects = NextObjects({}, new)
  BY <1>1, SuccessorIs DEF IsLedger
<1>5. \A e \in new : Vetted(e) /\ Admitted(e)
  BY <1>3, PlainIsVetted DEF PlainKinds, Admitted
<1>6. Founded
  BY <1>1 DEF Founded
<1> QED
  BY <1>3, <1>4, <1>5, <1>6 DEF Quiet, Adds, SameTrust

(* An attestation is imported with its source after it was validated. *)
LEMMA AttestationIsQuiet ==
    ASSUME IsLedger(current), Audited(current), NEW s \in Attestation, import_attestation_v5(s)
    PROVE  \E withdrawn, new : Quiet(withdrawn, new)
<1> DEFINE e1 == ledger_entry(Digest(s), "principal-attestation", {s.source}, current.policy)
<1>1. /\ TimeKnown /\ _validate_attestation(current, s)
      /\ Commit("object_imported", {}, {e1})
  BY DEF import_attestation_v5, SignedEntry
<1>2. /\ IsEntry(e1) /\ e1.digest = Digest(s) /\ e1.kind = "principal-attestation"
      /\ e1.sources = {s.source} /\ e1.policy = current.policy
  BY EntryIs
<1> HIDE DEF e1
<1>3. e1.digest[2] = s
  BY <1>2 DEF Digest
<1>4. current.policy \in DOMAIN Policies /\ current.epoch \in Int /\ s.signed \in Int
  BY TimesAssumption DEF Audited, Anchored
<1>5. verify_statement(s, Policies[current.policy], current.epoch)
  BY <1>1 DEF _validate_attestation
<1>6. ValidThen(e1)
  BY <1>2, <1>3, <1>4, <1>5, ValidWhenSigned DEF ValidThen
<1>7. Backed(e1)
  BY <1>2, <1>3, NumericAssumption DEF Backed, Genuine
<1>8. Vetted(e1) /\ Admitted(e1)
  BY <1>1, <1>2, <1>3, <1>6, <1>7 DEF Vetted, Admitted
<1> QED
  BY <1>1, <1>2, <1>8, CommitIsQuiet

(* A statement that verifies under the policy and at the time of the manifest. *)
LEMMA SignedIsVetted ==
    ASSUME Audited(current), NEW s, s.signed \in Int, NEW at \in Int,
           verify_statement(s, policy, at), NEW sources,
           NEW kind \in KIND_SCHEMAS \ {"principal-attestation"}
    PROVE  LET e == SignedEntry(current, s, kind, sources)
           IN IsEntry(e) /\ Vetted(e) /\ Admitted(e)
<1>1. current.policy \in DOMAIN Policies
  BY DEF Audited, Anchored
<1>2. verify_statement(s, Policies[current.policy], at)
  BY DEF policy
<1> DEFINE e == ledger_entry(Digest(s), kind, sources, current.policy)
<1>3. IsEntry(e) /\ Vetted(e) /\ e.kind = kind
  BY <1>1, <1>2, StatementIsVetted
<1> HIDE DEF e
<1>4. Admitted(e)
  BY <1>3 DEF Admitted
<1> QED
  BY <1>3, <1>4 DEF e, SignedEntry

(* A signed object; a flow profile brings the profile it wraps. *)
LEMMA SignedObjectIsQuiet ==
    ASSUME IsLedger(current), Audited(current), NEW s \in SignedObject,
           import_signed_object_v5(s)
    PROVE  \E withdrawn, new : Quiet(withdrawn, new)
<1> DEFINE sources == s.names \cap Digests(current.objects)
           kind == SIGNED_IMPORT_KINDS[s.schema]
           e1 == SignedEntry(current, s, kind, sources)
           e2 == ledger_entry(<<"profile", s.payload>>, "typed-flow-profile",
                              {Digest(s)}, current.policy)
           new == {e1} \cup IF s.schema = "typed-flow-profile" THEN {e2} ELSE {}
<1>1. /\ Commit("object_imported", {}, new) /\ verify_statement(s, policy, current.epoch)
      /\ s.schema \in DOMAIN SIGNED_IMPORT_KINDS
  BY DEF import_signed_object_v5
<1>2. kind \in KIND_SCHEMAS \ {"principal-attestation"}
  BY <1>1 DEF SIGNED_IMPORT_KINDS, KIND_SCHEMAS
<1>3. current.epoch \in Int /\ s.signed \in Int
  BY TimesAssumption DEF Audited, Anchored
<1> HIDE DEF kind, sources
<1>4. IsEntry(e1) /\ Vetted(e1) /\ Admitted(e1)
  BY <1>1, <1>2, <1>3, SignedIsVetted
<1>5. /\ IsEntry(e2) /\ e2.digest = <<"profile", s.payload>>
      /\ e2.kind = "typed-flow-profile" /\ e2.sources = {Digest(s)}
  BY EntryIs
<1> HIDE DEF e1, e2
<1>6. s.schema = "typed-flow-profile" => Vetted(e2) /\ Admitted(e2)
  BY <1>5 DEF Vetted, Backed, Admitted, Digest, KIND_SCHEMAS
<1>7. \A e \in new : IsEntry(e) /\ Vetted(e) /\ Admitted(e)
  BY <1>4, <1>5, <1>6
<1> HIDE DEF new
<1> QED
  BY <1>1, <1>7, CommitIsQuiet

(* A time receipt is signed at the time it states. *)
LEMMA ReceiptIs ==
    ASSUME NEW subject, NEW receipt \in Receipts(subject)
    PROVE  /\ receipt.signed \in Int /\ receipt.event_time \in Int
           /\ Digest(receipt) = <<"trusted-time-receipt", receipt>>
BY TimesAssumption DEF Receipts, Receipt, Digest

(* The entry of a receipt that verifies. *)
LEMMA ReceiptIsVetted ==
    ASSUME Audited(current), NEW subject, NEW receipt \in Receipts(subject),
           verify_time_receipt(receipt, policy), NEW sources
    PROVE  LET e == SignedEntry(current, receipt, "trusted-time-receipt", sources)
           IN IsEntry(e) /\ Vetted(e) /\ Admitted(e)
<1>1. receipt.signed \in Int /\ receipt.event_time \in Int
  BY ReceiptIs
<1>2. verify_statement(receipt, policy, receipt.event_time)
  BY DEF verify_time_receipt
<1>3. "trusted-time-receipt" \in KIND_SCHEMAS \ {"principal-attestation"}
  BY DEF KIND_SCHEMAS
<1> QED
  BY <1>1, <1>2, <1>3, SignedIsVetted

(* An amendment comes with the receipt of its time. *)
LEMMA AmendmentIsQuiet ==
    ASSUME IsLedger(current), Audited(current), NEW amendment \in Amendment,
           NEW receipt \in Receipts(Digest(amendment)), import_amendment_v5(amendment, receipt)
    PROVE  \E withdrawn, new : Quiet(withdrawn, new)
<1> DEFINE sources == {amendment.protocol, Digest(receipt)}
                      \cup ({amendment.previous} \ {NoDigest})
           e1 == SignedEntry(current, receipt, "trusted-time-receipt", {Digest(amendment)})
           e2 == SignedEntry(current, amendment, "protocol-amendment", sources)
<1>1. /\ Commit("amendment_imported", {}, {e1, e2})
      /\ verify_time_receipt(receipt, policy)
      /\ verify_statement(amendment, policy, receipt.event_time)
  BY DEF import_amendment_v5
<1>2. amendment.signed \in Int /\ receipt.event_time \in Int
  BY ReceiptIs, TrialTimesAssumption
<1>3. "protocol-amendment" \in KIND_SCHEMAS \ {"principal-attestation"}
  BY DEF KIND_SCHEMAS
<1> HIDE DEF sources
<1>4. IsEntry(e1) /\ Vetted(e1) /\ Admitted(e1)
  BY <1>1, ReceiptIsVetted
<1>5. IsEntry(e2) /\ Vetted(e2) /\ Admitted(e2)
  BY <1>1, <1>2, <1>3, SignedIsVetted
<1> HIDE DEF e1, e2
<1> QED
  BY <1>1, <1>4, <1>5, CommitIsQuiet

(* A result is signed by then. *)
LEMMA ResultIsQuiet ==
    ASSUME IsLedger(current), Audited(current), NEW r \in Result, import_result_v5(r)
    PROVE  \E withdrawn, new : Quiet(withdrawn, new)
<1> DEFINE sources == {r.protocol, r.dataset, r.executable}
           e1 == SignedEntry(current, r, "trial-result-certificate", sources)
<1>1. /\ Commit("trial_result_imported", {}, {e1})
      /\ verify_statement(r, policy, current.epoch)
  BY DEF import_result_v5, _validate_result, policy
<1>2. r.signed \in Int /\ current.epoch \in Int
  BY TrialTimesAssumption DEF Audited, Anchored
<1>3. "trial-result-certificate" \in KIND_SCHEMAS \ {"principal-attestation"}
  BY DEF KIND_SCHEMAS
<1> HIDE DEF sources
<1>4. IsEntry(e1) /\ Vetted(e1) /\ Admitted(e1)
  BY <1>1, <1>2, <1>3, SignedIsVetted
<1> HIDE DEF e1
<1> QED
  BY <1>1, <1>4, CommitIsQuiet

(* A protocol comes with its registration and its receipt, as far as the ledger does *)
(* not hold them already.                                                            *)
LEMMA ProtocolIsQuiet ==
    ASSUME IsLedger(current), Audited(current), NEW protocol \in Protocol, NEW key,
           NEW receipt \in Receipts(Digest(protocol)), import_protocol_v5(protocol, key, receipt)
    PROVE  \E withdrawn, new : Quiet(withdrawn, new)
<1> DEFINE registration == Registration(key, protocol, receipt)
           d == Digest(protocol)
           s2 == {d, Digest(receipt)}
           s3 == {Digest(registration), Digest(receipt)}
           e1 == SignedEntry(current, receipt, "trusted-time-receipt", {d})
           e2 == SignedEntry(current, registration, "registration-receipt", s2)
           e3 == SignedEntry(current, protocol, "measurement-protocol", s3)
           new == {e \in {e1, e2, e3} : e.digest \notin Digests(current.objects)}
<1>1. /\ Commit("protocol_imported", {}, new)
      /\ _verify_protocol_bundle(protocol, registration, receipt)
  BY DEF import_protocol_v5
<1>2. /\ verify_time_receipt(receipt, policy)
      /\ verify_statement(protocol, policy, receipt.event_time)
      /\ verify_statement(registration, policy, receipt.event_time)
  BY <1>1 DEF _verify_protocol_bundle
<1>3. /\ protocol.signed \in Int /\ receipt.event_time \in Int
      /\ registration.signed = receipt.event_time
  BY ReceiptIs, TrialTimesAssumption DEF Registration
<1>4. {"registration-receipt", "measurement-protocol"}
          \subseteq KIND_SCHEMAS \ {"principal-attestation"}
  BY DEF KIND_SCHEMAS
<1> HIDE DEF registration, d, s2, s3
<1>5. IsEntry(e1) /\ Vetted(e1) /\ Admitted(e1)
  BY <1>2, ReceiptIsVetted
<1>6. IsEntry(e2) /\ Vetted(e2) /\ Admitted(e2)
  BY <1>2, <1>3, <1>4, SignedIsVetted
<1>7. IsEntry(e3) /\ Vetted(e3) /\ Admitted(e3)
  BY <1>2, <1>3, <1>4, SignedIsVetted
<1> HIDE DEF e1, e2, e3
<1>8. \A e \in new : IsEntry(e) /\ Vetted(e) /\ Admitted(e)
  BY <1>5, <1>6, <1>7
<1> HIDE DEF new
<1> QED
  BY <1>1, <1>8, CommitIsQuiet

(* A session moves on with the signed events that moved it. *)
LEMMA ReplaceIsQuiet ==
    ASSUME IsLedger(current), Audited(current), NEW old, NEW session, NEW events,
           _replace_session(old, session, events),
           \A s \in events : s.signed \in Int /\ verify_statement(s, policy, current.epoch)
    PROVE  \E withdrawn, new : Quiet(withdrawn, new)
<1> DEFINE E(s) == SignedEntry(current, s, "coordination-event", {old.digest})
           e1 == SessionEntry(session, {old.digest} \cup {Digest(s) : s \in events})
           new == {E(s) : s \in events} \cup {e1}
<1>1. Commit("coordination_transition", {old.digest}, new)
  BY DEF _replace_session
<1>2. current.epoch \in Int /\ "coordination-event" \in KIND_SCHEMAS \ {"principal-attestation"}
  BY DEF Audited, Anchored, KIND_SCHEMAS
<1>3. \A s \in events : IsEntry(E(s)) /\ Vetted(E(s)) /\ Admitted(E(s))
  BY <1>2, SignedIsVetted
<1>4. IsEntry(e1) /\ e1.kind = "coordination-session"
  BY DEF SessionEntry, ledger_entry, IsEntry
<1> HIDE DEF E, e1
<1>5. Vetted(e1) /\ Admitted(e1)
  BY <1>4, PlainIsVetted DEF PlainKinds, Admitted
<1>6. \A e \in new : IsEntry(e) /\ Vetted(e) /\ Admitted(e)
  BY <1>3, <1>4, <1>5
<1> HIDE DEF new
<1> QED
  BY <1>1, <1>6, CommitIsQuiet

(* Every coordination command is quiet: its events are signed at the time of the manifest. *)
LEMMA CoordinatingIsQuiet ==
    ASSUME IsLedger(current), Audited(current), Coordinating
    PROVE  \E withdrawn, new : Quiet(withdrawn, new)
<1>1. ASSUME NEW plan, coordination_init_v5(plan)
      PROVE  \E withdrawn, new : Quiet(withdrawn, new)
  <2> DEFINE p == <<"plan", plan>>
             session == [id |-> plan.id, plan |-> plan.plan, state |-> "CREATED",
                         participants |-> plan.participants, commitments |-> {},
                         reveals |-> {}, capacity |-> FALSE, reason |-> ""]
             e1 == ledger_entry(p, "coordination-plan", {}, NoPolicy)
             e2 == ledger_entry(<<"session", session>>, "coordination-session", {p}, NoPolicy)
  <2>1. Commit("coordination_transition", {}, {e1, e2})
    BY <1>1 DEF coordination_init_v5, SessionEntry
  <2> HIDE DEF p, session
  <2>2. /\ IsEntry(e1) /\ e1.kind = "coordination-plan"
        /\ IsEntry(e2) /\ e2.kind = "coordination-session"
    BY EntryIs
  <2> HIDE DEF e1, e2
  <2>3. \A e \in {e1, e2} : IsEntry(e) /\ Vetted(e) /\ Admitted(e)
    BY <2>2, PlainIsVetted DEF PlainKinds, Admitted
  <2> QED
    BY <2>1, <2>3, CommitIsQuiet
<1>2. current.epoch \in Int
  BY DEF Audited, Anchored
<1>3. ASSUME NEW id, NEW key, NEW o, coordination_commit_v5(id, key, o)
      PROVE  \E withdrawn, new : Quiet(withdrawn, new)
  <2> DEFINE s == Event("proposal-commitment", key, id, o)
  <2>1. PICK old, session : _replace_session(old, session, {s})
    BY <1>3 DEF coordination_commit_v5
  <2>2. verify_statement(s, policy, current.epoch) /\ s.signed = current.epoch
    BY <1>3 DEF coordination_commit_v5, _event_input, Event
  <2> HIDE DEF s
  <2> QED
    BY <1>2, <2>1, <2>2, ReplaceIsQuiet
<1>4. ASSUME NEW id, NEW key, NEW o, coordination_reveal_v5(id, key, o)
      PROVE  \E withdrawn, new : Quiet(withdrawn, new)
  <2> DEFINE s == Event("proposal-reveal", key, id, o)
  <2>1. PICK old, session : _replace_session(old, session, {s})
    BY <1>4 DEF coordination_reveal_v5
  <2>2. verify_statement(s, policy, current.epoch) /\ s.signed = current.epoch
    BY <1>4 DEF coordination_reveal_v5, _event_input, Event
  <2> HIDE DEF s
  <2> QED
    BY <1>2, <2>1, <2>2, ReplaceIsQuiet
<1>5. ASSUME NEW old, NEW session, _replace_session(old, session, {})
      PROVE  \E withdrawn, new : Quiet(withdrawn, new)
  BY <1>5, ReplaceIsQuiet
<1>6. ASSUME NEW id, NEW capacity, coordination_route_v5(id, capacity)
      PROVE  \E withdrawn, new : Quiet(withdrawn, new)
  BY <1>5, <1>6 DEF coordination_route_v5
<1>7. ASSUME NEW id, NEW reason, coordination_terminate_v5(id, reason)
      PROVE  \E withdrawn, new : Quiet(withdrawn, new)
  BY <1>5, <1>7 DEF coordination_terminate_v5
<1> QED
  BY <1>1, <1>3, <1>4, <1>6, <1>7 DEF Coordinating

(* What a run has ended with is an output. *)
OutputInvariant == \A p \in Process : runs[p].pc = "ended" => runs[p].output \in Output

LEMMA OutputInvariantHolds == Spec => []OutputInvariant
<1>1. Init => OutputInvariant
  <2> SUFFICES ASSUME Init, NEW p \in Process  PROVE  runs[p].pc # "ended"
    BY DEF OutputInvariant
  <2>1. runs[p] = Resting
    BY DEF Init, InitExecution
  <2> QED
    BY <2>1, RestingIs
<1>2. RunInvariant /\ OutputInvariant /\ [Next]_vars => OutputInvariant'
  <2> SUFFICES ASSUME RunInvariant, OutputInvariant, [Next]_vars  PROVE  OutputInvariant'
    OBVIOUS
  <2>1. CASE UNCHANGED runs
    BY <2>1 DEF OutputInvariant
  <2>2. ASSUME NEW p \in Process, NEW r, runs' = [runs EXCEPT ![p] = r],
               r.pc = "ended" => r.output \in Output
        PROVE  OutputInvariant'
    BY <2>2 DEF OutputInvariant, RunInvariant
  <2>3. ASSUME NEW p \in Process, RecordRun(p) \/ RunAbandoned(p)
        PROVE  OutputInvariant'
    BY <2>2, <2>3, RestingIs DEF RecordRun, RunAbandoned
  <2>4. ASSUME NEW p \in Process, NEW a, PlanAction(p, a)
        PROVE  OutputInvariant'
    <3> DEFINE m == [Resting EXCEPT !.pc = "planned"]
               r == [m EXCEPT !.action = a]
    <3>1. IsRun(m) /\ m.pc = "planned"
      BY RestingIs DEF IsRun
    <3>2. runs' = [runs EXCEPT ![p] = r]
      BY <2>4 DEF PlanAction
    <3> HIDE DEF m
    <3>3. r.pc = "planned"
      BY <3>1 DEF IsRun
    <3> HIDE DEF r
    <3> QED
      BY <2>2, <3>2, <3>3
  <2>5. ASSUME NEW p \in Process, NEW pc, NEW base, NEW output,
               Becomes(p, pc, base, output), pc = "ended" => output \in Output
        PROVE  OutputInvariant'
    <3>1. IsRun(runs[p]) /\ runs = [q \in Process |-> runs[q]]
      BY DEF RunInvariant
    <3>2. /\ \A q \in Process \ {p} : runs'[q] = runs[q]
          /\ runs'[p].pc = pc /\ runs'[p].output = output
      <4> DEFINE m == [runs EXCEPT ![p].pc = pc]
                 n == [m EXCEPT ![p].base = base]
      <4>1. runs' = [n EXCEPT ![p].output = output]
        BY <2>5 DEF Becomes
      <4>2. /\ m = [q \in Process |-> m[q]] /\ \A q \in Process \ {p} : m[q] = runs[q]
            /\ m[p] = [pc |-> pc, action |-> runs[p].action, base |-> runs[p].base,
                       output |-> runs[p].output]
        BY <3>1 DEF IsRun
      <4> HIDE DEF m
      <4>3. /\ n = [q \in Process |-> n[q]] /\ \A q \in Process \ {p} : n[q] = runs[q]
            /\ n[p] = [pc |-> pc, action |-> runs[p].action, base |-> base,
                       output |-> runs[p].output]
        BY <4>2
      <4> HIDE DEF n
      <4> QED
        BY <4>1, <4>3
    <3> QED
      BY <2>5, <3>2 DEF OutputInvariant
  <2>6. ASSUME NEW p \in Process, LaunchAdapter(p)
        PROVE  OutputInvariant'
    BY <2>5, <2>6 DEF LaunchAdapter
  <2>7. ASSUME NEW p \in Process, NEW x \in Output, AdapterEnds(p, x)
        PROVE  OutputInvariant'
    BY <2>5, <2>7 DEF AdapterEnds
  <2>8. CASE Running
    BY <2>3, <2>4, <2>6, <2>7, <2>8 DEF Running
  <2>9. CASE Approving
    BY <2>1, <2>9 DEF Approving, approve_projection_v5
  <2> QED
    BY <2>1, <2>8, <2>9 DEF Next, vars
<1> QED
  BY <1>1, <1>2, RunInvariantHolds, PTL DEF Spec

(* A run is recorded with its raw output, its receipt and what waits for approval. *)
LEMMA RecordIsQuiet ==
    ASSUME IsLedger(current), OutputInvariant, NEW p \in Process, RecordRun(p)
    PROVE  \E withdrawn, new : Quiet(withdrawn, new)
<1> DEFINE g == runs[p].base
           x == runs[p].output
           raw == <<"raw", x.raw>>
           statement == The(capability(g, runs[p].action))
           pending == IF x.valid /\ Outcome(x) \in {"success", "partial"}
                      THEN {<<"pending", Pending(g, x, statement)>>} ELSE {}
           receipt == [action |-> runs[p].action, before |-> g.number, raw |-> raw,
                       outcome |-> Outcome(x), pending |-> pending]
           e1 == [ledger_entry(raw, "raw-artifact", {}, NoPolicy)
                     EXCEPT !.lifecycle = "quarantined"]
           e2 == ledger_entry(<<"action-receipt", receipt>>, "action-receipt",
                              {raw} \cup pending, NoPolicy)
           E(d) == ledger_entry(d, "pending-projection", {raw, Digest(statement)}, NoPolicy)
           new == {e1, e2} \cup {E(d) : d \in pending}
<1>1. /\ runs[p].pc = "ended" /\ Room
      /\ current' = [Successor(current, "action_executed", {}, new)
                        EXCEPT !.quarantine = @ \cup {raw}]
  BY DEF RecordRun
<1>2. Founded
  BY <1>1, Zenon DEF Room
<1>3. x \in Output
  BY <1>1 DEF OutputInvariant
<1>4. \A d \in pending : d[2].projected = Projected[x.raw]
  BY DEF Pending
<1> HIDE DEF pending, statement
<1>5. IsEntry(e1) /\ e1.kind = "raw-artifact" /\ e1.digest = raw
  BY DEF ledger_entry, IsEntry
<1>6. /\ IsEntry(e2) /\ e2.kind = "action-receipt" /\ e2.digest = <<"action-receipt", receipt>>
      /\ e2.sources = {raw} \cup pending
  BY EntryIs
<1>7. receipt.raw = raw /\ receipt.pending = pending
  OBVIOUS
<1>8. \A d \in pending : IsEntry(E(d)) /\ E(d).kind = "pending-projection" /\ E(d).digest = d
  BY EntryIs
<1> HIDE DEF receipt, e1, e2, E
<1>9. Vetted(e1) /\ Admitted(e1)
  BY <1>5, PlainIsVetted DEF PlainKinds, Admitted
<1>10. Vetted(e2) /\ Admitted(e2)
  <2>1. e2.digest[2] = receipt
    BY <1>6
  <2> QED
    BY <1>6, <1>7, <2>1 DEF Vetted, Backed, Admitted, KIND_SCHEMAS
<1>11. \A d \in pending : Vetted(E(d)) /\ Admitted(E(d))
  BY <1>3, <1>4, <1>8 DEF Vetted, Backed, Admitted, KIND_SCHEMAS
<1>12. \A e \in new : IsEntry(e) /\ Vetted(e) /\ Admitted(e)
  BY <1>5, <1>6, <1>8, <1>9, <1>10, <1>11
<1>13. raw \in Digests(new)
  BY <1>5 DEF Digests
<1> HIDE DEF new, raw
<1>14. /\ current'.number = current.number + 1 /\ current'.event = "action_executed"
       /\ current'.policy = current.policy /\ current'.receipt = current.receipt
       /\ current'.epoch = current.epoch
       /\ current'.quarantine = current.quarantine \cup {raw}
       /\ current'.objects = NextObjects({}, new)
  BY <1>1, SuccessorIs DEF IsLedger
<1> QED
  BY <1>2, <1>12, <1>13, <1>14 DEF Quiet, Adds, SameTrust

(* What is promoted has a pending projection among its sources; an attestation that is *)
(* promoted verified when it was.                                                      *)
LEMMA ApproveIsQuiet ==
    ASSUME IsLedger(current), Audited(current), NEW entry, NEW key,
           approve_projection_v5(entry, key)
    PROVE  \E withdrawn, new : Quiet(withdrawn, new)
<1> DEFINE content == entry.digest[2]
           d == content.projected
           approval == Approval(key, current.epoch, entry.digest, Digest(current.receipt))
           sources == {entry.digest, Digest(approval), content.raw, content.capability}
           s1 == {entry.digest}
           s2 == sources \cup {d[2].source}
           e1 == SignedEntry(current, approval, "projection-approval", s1)
           a2 == ledger_entry(d, "principal-attestation", s2, current.policy)
           b2 == ledger_entry(d, "promoted-projection", sources, NoPolicy)
           e2 == IF d[1] = "principal-attestation" THEN a2 ELSE b2
<1>1. /\ entry \in Active(current, "pending-projection")
      /\ verify_statement(approval, policy, current.epoch)
      /\ d[1] = "principal-attestation" => verify_statement(d[2], policy, current.epoch)
      /\ Commit("projection_approved", {entry.digest}, {e1, e2})
  BY DEF approve_projection_v5, pending_projections_v5, Promotes
<1>2. entry \in current.objects /\ entry.kind = "pending-projection"
  BY <1>1 DEF Active
<1>3. entry.digest[1] = "pending"
  <2>1. Proper(entry)
    BY <1>2 DEF IsLedger
  <2> QED
    BY <1>2, <2>1 DEF Proper
<1>4. PICK x \in Output : d = Projected[x.raw]
  BY <1>2 DEF Audited, Vetted, Backed
<1>5. d[1] = "principal-attestation" =>
          d = Digest(d[2]) /\ d[2].signed \in Int /\ Numeric(d[2])
  BY <1>4, ProjectedAssumption
<1>6. approval.signed = current.epoch
  BY DEF Approval
<1>7. /\ current.epoch \in Int /\ current.policy \in DOMAIN Policies
      /\ "projection-approval" \in KIND_SCHEMAS \ {"principal-attestation"}
  BY DEF Audited, Anchored, KIND_SCHEMAS
<1>8. entry.digest \in s2 /\ d[2].source \in s2
  OBVIOUS
<1> HIDE DEF approval, sources, s1, s2, d
<1>9. IsEntry(e1) /\ Vetted(e1) /\ Admitted(e1)
  BY <1>1, <1>6, <1>7, SignedIsVetted
<1>10. /\ IsEntry(a2) /\ a2.digest = d /\ a2.kind = "principal-attestation"
       /\ a2.sources = s2 /\ a2.policy = current.policy
       /\ IsEntry(b2) /\ b2.kind = "promoted-projection"
  BY EntryIs
<1> HIDE DEF e1, a2, b2
<1>11. ASSUME d[1] = "principal-attestation"  PROVE  Vetted(a2) /\ Admitted(a2)
  <2>1. verify_statement(d[2], Policies[current.policy], d[2].signed)
    BY <1>1, <1>5, <1>7, <1>11, ValidWhenSigned DEF policy
  <2>2. ValidThen(a2)
    BY <1>5, <1>7, <1>10, <1>11, <2>1 DEF ValidThen
  <2>3. Backed(a2)
    BY <1>5, <1>8, <1>10, <1>11 DEF Backed, Genuine
  <2>4. Admitted(a2)
    BY <1>3, <1>8, <1>10 DEF Admitted, Promoted
  <2> QED
    BY <2>2, <2>3, <2>4 DEF Vetted
<1>12. Vetted(b2) /\ Admitted(b2)
  BY <1>10, PlainIsVetted DEF PlainKinds, Admitted
<1>13. IsEntry(e2) /\ Vetted(e2) /\ Admitted(e2)
  BY <1>10, <1>11, <1>12
<1> HIDE DEF e2
<1>14. \A e \in {e1, e2} : IsEntry(e) /\ Vetted(e) /\ Admitted(e)
  BY <1>9, <1>13
<1> QED
  BY <1>1, <1>14, CommitIsQuiet

-----------------------------------------------------------------------------
(* The commands that move the time or the policy.                          *)

(* An advance of the time is recorded by a receipt that is newer than every other entry. *)
LEMMA AdvanceKeeps ==
    ASSUME Founded, IsLedger(current), Audited(current),
           NEW receipt \in Receipts(GenerationId(current)), advance_time_v5(receipt)
    PROVE  Audited(current')
<1> DEFINE e1 == SignedEntry(current, receipt, "trusted-time-receipt", {})
           none == {}
           new == {e1}
           m == [Successor(current, "time_advanced", none, new) EXCEPT !.receipt = receipt]
<1>1. /\ verify_time_receipt(receipt, policy)
      /\ current' = [m EXCEPT !.epoch = receipt.event_time]
  BY DEF advance_time_v5
<1>2. IsEntry(e1) /\ Vetted(e1)
  BY <1>1, ReceiptIsVetted
<1>3. e1.digest = Digest(receipt) /\ e1.kind = "trusted-time-receipt"
  BY DEF SignedEntry, ledger_entry
<1> HIDE DEF e1
<1>4. /\ \A e \in new : IsEntry(e) /\ Vetted(e) /\ e.kind = "trusted-time-receipt"
      /\ e1 \in new /\ Digests(new) = {Digest(receipt)} /\ Digests(none) = {}
  BY <1>2, <1>3 DEF Digests
<1> HIDE DEF new, none
<1>5. m = [number |-> current.number + 1, event |-> "time_advanced", policy |-> current.policy,
           receipt |-> receipt, epoch |-> current.epoch, quarantine |-> current.quarantine,
           objects |-> NextObjects(none, new)]
  BY SuccessorIs DEF IsLedger
<1> HIDE DEF m
<1>6. /\ current'.number = current.number + 1 /\ current'.policy = current.policy
      /\ current'.receipt = receipt /\ current'.epoch = receipt.event_time
      /\ current'.quarantine = current.quarantine
      /\ current'.objects = NextObjects(none, new)
  BY <1>1, <1>5
<1>7. Adds(none, new)
  BY <1>4, <1>6 DEF Adds
<1>8. Digests(current'.objects) = Digests(current.objects) \cup {Digest(receipt)}
  BY <1>4, <1>7, AddedEntries
<1>9. _current_time(current')
  BY <1>1, <1>6 DEF _current_time, policy
<1>10. Anchored(current')
  <2>1. Anchored(current) /\ receipt.event_time \in Int
    BY ReceiptIs DEF Audited
  <2>2. current'.quarantine \subseteq Digests(current'.objects)
    BY <1>6, <1>8, <2>1 DEF Anchored
  <2>3. /\ Digest(current'.receipt) \in Digests(current'.objects)
        /\ PolicyDigest(current'.policy) \in Digests(current'.objects)
    BY <1>6, <1>8, <2>1 DEF Anchored
  <2> QED
    BY <1>6, <1>9, <2>1, <2>2, <2>3 DEF Anchored
<1>11. \A x \in current'.objects : Vetted(x)
  BY <1>7, StaysVetted DEF Audited
<1>12. ASSUME NEW x \in current'.objects, x.kind = "principal-attestation"
       PROVE  Attested(current', x)
  <2>1. \/ \E e \in current.objects :
               /\ x.digest = e.digest /\ x.kind = e.kind /\ x.sources = e.sources
               /\ x.policy = e.policy /\ x.since = e.since
        \/ \E e \in new :
               /\ x.digest = e.digest /\ x.kind = e.kind /\ x.sources = e.sources
               /\ x.policy = e.policy /\ x.since = current.number + 1
    BY <1>7, AddedEntries, Zenon
  <2>2. PICK e \in current.objects :
               /\ x.digest = e.digest /\ x.kind = e.kind /\ x.sources = e.sources
               /\ x.policy = e.policy /\ x.since = e.since
    BY <1>4, <1>12, <2>1
  <2>3. PolicyDigest(x.policy) \in Digests(current'.objects)
    BY <1>8, <1>12, <2>2 DEF Audited, Attested
  <2>4. \E f \in current'.objects : f.kind = "trusted-time-receipt" /\ f.since = current.number + 1
    <3>1. \A y \in new : \E f \in current'.objects :
              f.digest = y.digest /\ f.kind = y.kind /\ f.since = current.number + 1
      BY <1>7, AddedEntries
    <3>2. PICK f \in current'.objects : f.kind = e1.kind /\ f.since = current.number + 1
      BY <1>4, <3>1
    <3> QED
      BY <1>3, <3>2
  <2>5. current.number \in Nat /\ x.since \in Nat /\ x.since <= current.number
    BY <2>2 DEF IsLedger
  <2>6. StillValid(current', x)
    BY <1>9, <2>4, <2>5 DEF StillValid
  <2> QED
    BY <2>3, <2>6 DEF Attested
<1> QED
  BY <1>10, <1>11, <1>12 DEF Audited

(* No attestation was imported under a policy before it was in force. *)
LEMMA UpdateKeeps ==
    ASSUME Founded, IsLedger(current), Audited(current), NEW name \in DOMAIN Policies,
           NEW receipt \in Receipts(PolicyDigest(name)), NEW signers,
           update_trust_policy_v5(name, receipt, signers)
    PROVE  Audited(current')
<1> DEFINE S == Quorum(signers, name, receipt.event_time)
           p == PolicyDigest(name)
           withdrawn == {PolicyDigest(current.policy)}
           sources == {p, Digest(receipt)}
           e1 == ledger_entry(p, "trust-policy", {Digest(s) : s \in S}, NoPolicy)
           e2 == SignedEntry(current, receipt, "trusted-time-receipt", {p})
           E(s) == SignedEntry(current, s, "trust-quorum-decision", sources)
           new == {e1, e2} \cup {E(s) : s \in S}
           m == [Successor(current, "trust_updated", withdrawn, new) EXCEPT !.policy = name]
           n == [m EXCEPT !.receipt = receipt]
<1>1. /\ verify_time_receipt(receipt, policy)
      /\ \A s \in S : verify_statement(s, policy, receipt.event_time)
      /\ Accepts(current, new)
      /\ current' = [n EXCEPT !.epoch = receipt.event_time]
  BY DEF update_trust_policy_v5, verify_role_quorum
<1>2. /\ receipt.event_time \in Int
      /\ \A s \in S : s.signed = receipt.event_time
      /\ "trust-quorum-decision" \in KIND_SCHEMAS \ {"principal-attestation"}
  BY ReceiptIs DEF Quorum, KIND_SCHEMAS
<1>3. IsEntry(e1) /\ e1.digest = p /\ e1.kind = "trust-policy"
  BY EntryIs
<1>4. IsEntry(e2) /\ Vetted(e2)
  BY <1>1, ReceiptIsVetted
<1>5. e2.digest = Digest(receipt) /\ e2.kind = "trusted-time-receipt"
  BY DEF SignedEntry, ledger_entry
<1> HIDE DEF S, sources
<1>6. \A s \in S : IsEntry(E(s)) /\ Vetted(E(s))
  BY <1>1, <1>2, SignedIsVetted
<1>7. \A s \in S : E(s).kind = "trust-quorum-decision"
  BY DEF SignedEntry, ledger_entry
<1> HIDE DEF e1, e2, E
<1>8. \A e \in new : IsEntry(e) /\ Vetted(e) /\ e.kind # "principal-attestation"
  BY <1>3, <1>4, <1>5, <1>6, <1>7, PlainIsVetted DEF PlainKinds
<1>9. p \in Digests(new) /\ Digest(receipt) \in Digests(new)
  BY <1>3, <1>5 DEF Digests
<1> HIDE DEF new, withdrawn
<1>10. m = [number |-> current.number + 1, event |-> "trust_updated", policy |-> name,
            receipt |-> current.receipt, epoch |-> current.epoch,
            quarantine |-> current.quarantine, objects |-> NextObjects(withdrawn, new)]
  BY SuccessorIs DEF IsLedger
<1> HIDE DEF m
<1>11. n = [number |-> current.number + 1, event |-> "trust_updated", policy |-> name,
            receipt |-> receipt, epoch |-> current.epoch,
            quarantine |-> current.quarantine, objects |-> NextObjects(withdrawn, new)]
  BY <1>10
<1> HIDE DEF n
<1>12. /\ current'.number = current.number + 1 /\ current'.event = "trust_updated"
       /\ current'.policy = name
       /\ current'.receipt = receipt /\ current'.epoch = receipt.event_time
       /\ current'.quarantine = current.quarantine
       /\ current'.objects = NextObjects(withdrawn, new)
  BY <1>1, <1>11
<1>13. Adds(withdrawn, new)
  BY <1>8, <1>12 DEF Adds
<1>14. Digests(current'.objects) = Digests(current.objects) \cup Digests(new)
  BY <1>13, AddedEntries, Zenon
<1>15. Anchored(current')
  <2>1. Anchored(current) /\ current.number \in Nat /\ current.number > 0
    BY DEF Audited, IsLedger, Founded
  <2>2. current'.quarantine \subseteq Digests(current'.objects)
    BY <1>12, <1>14, <2>1 DEF Anchored
  <2>3. /\ Digest(current'.receipt) \in Digests(current'.objects)
        /\ PolicyDigest(current'.policy) \in Digests(current'.objects)
    BY <1>9, <1>12, <1>14
  <2>4. current'.number # 1 /\ current'.event # "time_advanced"
    BY <1>12, <2>1
  <2> QED
    BY <1>2, <1>12, <2>2, <2>3, <2>4 DEF Anchored
<1>16. \A x \in current'.objects : Vetted(x)
  BY <1>13, StaysVetted DEF Audited
<1>17. ASSUME NEW x \in current'.objects, x.kind = "principal-attestation"
       PROVE  Attested(current', x)
  <2>1. \/ \E e \in current.objects :
               /\ x.digest = e.digest /\ x.kind = e.kind /\ x.sources = e.sources
               /\ x.policy = e.policy /\ x.since = e.since
        \/ \E e \in new :
               /\ x.digest = e.digest /\ x.kind = e.kind /\ x.sources = e.sources
               /\ x.policy = e.policy /\ x.since = current.number + 1
    BY <1>13, AddedEntries, Zenon
  <2>2. PICK e \in current.objects : x.kind = e.kind /\ x.policy = e.policy
    BY <1>8, <1>17, <2>1
  <2>3. PolicyDigest(x.policy) \in Digests(current.objects)
    BY <1>17, <2>2 DEF Audited, Attested
  <2>4. x.policy # name
    BY <1>1, <1>9, <2>3 DEF Accepts
  <2> QED
    BY <1>12, <1>14, <2>3, <2>4 DEF Attested
<1> QED
  BY <1>15, <1>16, <1>17 DEF Audited

(* The first generation has a verified receipt and no attestation. *)
LEMMA FoundAudited ==
    ASSUME NEW name \in Genesis, NEW receipt \in Receipts(contract), Found(name, receipt)
    PROVE  Audited(current')
<1> DEFINE p == PolicyDigest(name)
           genesis == GenesisStatement(name, receipt.event_time)
           e1 == ledger_entry(contract, "contract", {}, NoPolicy)
           e2 == ledger_entry(registry, "unit-registry", {}, NoPolicy)
           e3 == ledger_entry(p, "trust-policy", {}, NoPolicy)
           e4 == ledger_entry(Digest(genesis), "genesis-policy-statement", {p}, name)
           e5 == ledger_entry(Digest(receipt), "trusted-time-receipt", {contract}, name)
<1>1. /\ verify_time_receipt(receipt, Policies[name])
      /\ verify_statement(genesis, Policies[name], receipt.event_time)
      /\ current' = [number |-> 1, event |-> "workspace_initialized", policy |-> name,
                     receipt |-> receipt, epoch |-> receipt.event_time, quarantine |-> {},
                     objects |-> {e1, e2, e3, e4, e5}]
  BY DEF Found, verify_genesis
<1>2. /\ receipt.signed \in Int /\ receipt.event_time \in Int /\ name \in DOMAIN Policies
      /\ genesis.signed = receipt.event_time
      /\ verify_statement(receipt, Policies[name], receipt.event_time)
      /\ {"genesis-policy-statement", "trusted-time-receipt"}
             \subseteq KIND_SCHEMAS \ {"principal-attestation"}
  BY <1>1, ReceiptIs, TimesAssumption
     DEF GenesisStatement, KIND_SCHEMAS, verify_time_receipt
<1> HIDE DEF genesis
<1>3. IsEntry(e4) /\ Vetted(e4) /\ e4.kind = "genesis-policy-statement"
  BY <1>1, <1>2, StatementIsVetted
<1>4. IsEntry(e5) /\ Vetted(e5) /\ e5.kind = "trusted-time-receipt"
  BY <1>2, StatementIsVetted
<1>5. /\ e1.kind = "contract" /\ e2.kind = "unit-registry" /\ e3.kind = "trust-policy"
      /\ e3.digest = p /\ e5.digest = Digest(receipt)
  BY EntryIs
<1> HIDE DEF e1, e2, e3, e4, e5
<1>6. \A e \in {e1, e2, e3, e4, e5} : Vetted(e) /\ e.kind # "principal-attestation"
  BY <1>3, <1>4, <1>5, PlainIsVetted DEF PlainKinds
<1>7. /\ current'.policy = name /\ current'.receipt = receipt
      /\ current'.epoch = receipt.event_time /\ current'.quarantine = {}
      /\ current'.objects = {e1, e2, e3, e4, e5}
  BY <1>1
<1>8. /\ Digest(receipt) \in Digests(current'.objects)
      /\ PolicyDigest(name) \in Digests(current'.objects)
  BY <1>5, <1>7 DEF Digests
<1>9. Anchored(current')
  BY <1>1, <1>2, <1>7, <1>8 DEF Anchored, _current_time
<1> QED
  BY <1>6, <1>7, <1>9 DEF Audited

-----------------------------------------------------------------------------
(* The audit through every step.                                           *)

(* Every command but those that move the time or the policy is quiet, and those leave *)
(* an audited workspace audited.                                                      *)
LEMMA CommandKeeps ==
    ASSUME Founded, IsLedger(current), OutputInvariant, Audited(current), Next
    PROVE  UNCHANGED current \/ Audited(current')
<1>1. ASSUME \E withdrawn, new : Quiet(withdrawn, new)
      PROVE  Audited(current')
  BY <1>1, QuietKeeps, Zenon
<1>2. ~Founding
  BY DEF Founding, initialize_workspace_v5, MigrateFound, Found
<1>3. CASE Importing
  <2>1. ASSUME NEW r, import_raw_v5(r)
        PROVE  Audited(current')
    BY <1>1, <2>1, RawIsQuiet, Zenon
  <2>2. ASSUME NEW s \in Attestation, import_attestation_v5(s)
        PROVE  Audited(current')
    BY <1>1, <2>2, AttestationIsQuiet, Zenon
  <2>3. ASSUME NEW s \in SignedObject, import_signed_object_v5(s)
        PROVE  Audited(current')
    BY <1>1, <2>3, SignedObjectIsQuiet, Zenon
  <2> QED
    BY <1>3, <2>1, <2>2, <2>3, Zenon DEF Importing
<1>4. CASE Advancing
  BY <1>4, AdvanceKeeps, Zenon DEF Advancing
<1>5. CASE Updating
  BY <1>5, UpdateKeeps, Zenon DEF Updating
<1>6. CASE Migrating
  BY <1>1, <1>6, LegacyIsQuiet, Zenon DEF Migrating, MigrateFails
<1>7. CASE Coordinating
  BY <1>1, <1>7, CoordinatingIsQuiet, Zenon
<1>8. CASE Measuring
  <2>1. ASSUME NEW protocol \in Protocol, NEW key, NEW receipt \in Receipts(Digest(protocol)),
               import_protocol_v5(protocol, key, receipt)
        PROVE  Audited(current')
    BY <1>1, <2>1, ProtocolIsQuiet, Zenon
  <2>2. ASSUME NEW amendment \in Amendment, NEW receipt \in Receipts(Digest(amendment)),
               import_amendment_v5(amendment, receipt)
        PROVE  Audited(current')
    BY <1>1, <2>2, AmendmentIsQuiet, Zenon
  <2>3. ASSUME NEW r \in Result, import_result_v5(r)
        PROVE  Audited(current')
    BY <1>1, <2>3, ResultIsQuiet, Zenon
  <2> QED
    BY <1>8, <2>1, <2>2, <2>3, Zenon DEF Measuring
<1>9. CASE Running
  <2>1. ASSUME NEW p \in Process, RecordRun(p)
        PROVE  Audited(current')
    BY <1>1, <2>1, RecordIsQuiet, Zenon
  <2> QED
    BY <1>9, <2>1, Zenon DEF Running, PlanAction, LaunchAdapter, AdapterEnds, RunAbandoned
<1>10. CASE Approving
  BY <1>1, <1>10, ApproveIsQuiet, Zenon DEF Approving
<1> QED
  BY <1>2, <1>3, <1>4, <1>5, <1>6, <1>7, <1>8, <1>9, <1>10, Zenon DEF Next

(* Whatever a command does, the workspace stays audited: an attestation is valid until the *)
(* time advances or the policy is replaced, and a signature was valid when it was made.    *)
THEOREM DoctorInvariantHolds == Spec => []DoctorInvariant
<1>1. Init => DoctorInvariant
  BY DEF Init, Init5, DoctorInvariant, Founded, Absent
<1>2. LedgerInvariant /\ RunInvariant /\ OutputInvariant /\ DoctorInvariant /\ [Next]_vars
          => DoctorInvariant'
  <2> SUFFICES ASSUME LedgerInvariant, RunInvariant, OutputInvariant, DoctorInvariant,
                      [Next]_vars
               PROVE  DoctorInvariant'
    OBVIOUS
  <2>1. CASE UNCHANGED current
    <3>1. Founded => Audited(current)
      BY DEF DoctorInvariant
    <3>2. Audited(current)' <=> Audited(current)
      BY <2>1 DEF Audited, Anchored, Attested, StillValid, _current_time,
                  _validate_attestation, Vetted, ValidThen, Backed, Genuine, Promoted
    <3> QED
      BY <2>1, <3>1, <3>2 DEF DoctorInvariant, Founded
  <2>2. CASE Founding
    <3>1. PICK name \in Genesis, receipt \in Receipts(contract) : Found(name, receipt)
      BY <2>2 DEF Founding, initialize_workspace_v5, MigrateFound
    <3>2. Audited(current')
      BY <3>1, FoundAudited
    <3> QED
      BY <3>2 DEF DoctorInvariant
  <2>3. CASE \E withdrawn, new : Committing(withdrawn, new)
    <3>1. Founded
      BY <2>3 DEF Committing, Grown
    <3>2. IsLedger(current) /\ Audited(current)
      BY <3>1 DEF LedgerInvariant, DoctorInvariant, Absent, Founded
    <3>3. UNCHANGED current \/ Audited(current')
      BY <3>1, <3>2, CommandKeeps DEF vars
    <3> QED
      BY <2>1, <3>3 DEF DoctorInvariant
  <2> QED
    BY <2>1, <2>2, <2>3, EveryStep, Zenon
<1> QED
  BY <1>1, <1>2, LedgerInvariantHolds, RunInvariantHolds, OutputInvariantHolds, PTL DEF Spec

-----------------------------------------------------------------------------
(* What doctor_v5 finds in an audited workspace.                           *)

(* Each of its errors is such as time brings. *)
LEMMA EachError ==
    ASSUME Founded, IsLedger(current), Audited(current), NEW x \in doctor_v5(current)
    PROVE  \E e \in current.objects :
        /\ e.digest = x[2]
        /\ \/ x[1] = "signed_ledger_object_invalid"
                  /\ LET until == Policies[e.policy].principals[e.digest[2].key].not_after
                     IN current.epoch > until \/ current.epoch < e.digest[2].signed
           \/ x[1] = "duplicate_semantic_identifier"
           \/ x[1] = "authoritative_time_receipt_missing_or_invalid"
                  /\ current.event # "time_advanced" /\ current.number > 1
           \/ x[1] = "attestation_not_source_backed"
                  /\ \/ e.policy # current.policy
                     \/ \E d \in e.sources : d[1] = "pending"
                     \/ ~_validate_attestation([current EXCEPT !.policy = e.policy], e.digest[2])
                            /\ \E f \in Objects("trusted-time-receipt") : f.since > e.since
<1>1. /\ IsManifest(current) /\ Anchored(current) /\ current.number > 0 /\ current.number \in Nat
      /\ \A e \in current.objects : Vetted(e) /\ e.sources \subseteq Digests(current.objects)
  BY DEF IsLedger, Audited, Founded
<1>2. ASSUME NEW e \in current.objects, e.kind \in KIND_SCHEMAS, _current_time(current),
             ~verify_statement(e.digest[2], Policies[e.policy], current.epoch)
      PROVE  LET until == Policies[e.policy].principals[e.digest[2].key].not_after
             IN current.epoch > until \/ current.epoch < e.digest[2].signed
  <2>1. ValidThen(e) /\ current.epoch \in Int
    BY <1>1, <1>2 DEF Vetted, Anchored
  <2> QED
    BY <1>2, <2>1, WhyInvalid
<1>3. ASSUME NEW e \in current.objects, e.kind = "principal-attestation",
             e.digest[2] \notin active_attestations_v5(current)
      PROVE  \/ e.policy # current.policy
             \/ \E d \in e.sources : d[1] = "pending"
             \/ ~_validate_attestation([current EXCEPT !.policy = e.policy], e.digest[2])
                    /\ \E f \in Objects("trusted-time-receipt") : f.since > e.since
  <2> SUFFICES ASSUME e.policy = current.policy, ~Promoted(e)
               PROVE  /\ ~_validate_attestation([current EXCEPT !.policy = e.policy], e.digest[2])
                      /\ \E f \in Objects("trusted-time-receipt") : f.since > e.since
    BY DEF Promoted
  <2>1. StillValid(current, e)
    BY <1>3 DEF Audited, Attested
  <2>2. ~_validate_attestation(current, e.digest[2])
    BY <1>3, <2>1 DEF active_attestations_v5, StillValid
  <2>3. \E f \in Objects("trusted-time-receipt") : f.since > e.since
    BY <2>1, <2>2 DEF StillValid, Objects
  <2>4. [current EXCEPT !.policy = e.policy] = current
    BY <1>1 DEF IsManifest
  <2> QED
    BY <2>2, <2>3, <2>4
<1>4. ASSUME ~_current_time(current)
      PROVE  /\ Digest(current.receipt) \in Digests(current.objects)
             /\ current.event # "time_advanced" /\ current.number > 1
  BY <1>1, <1>4 DEF Anchored
<1>5. ASSUME NEW e \in current.objects
      PROVE  /\ e.kind = "principal-attestation" => e.digest[2].source \in e.sources
             /\ e.kind = "typed-flow-profile" =>
                    \E d \in e.sources : d[1] = "typed-flow-profile" /\ d[2].payload = e.digest[2]
             /\ e.kind = "action-receipt" =>
                    ({e.digest[2].raw} \cup e.digest[2].pending) \subseteq e.sources
  BY <1>1, <1>5 DEF Vetted, Backed
<1>6. current.quarantine \subseteq Digests(current.objects)
  BY <1>1 DEF Anchored
<1>7. \/ \E e \in current.objects :
             /\ x = <<"signed_ledger_object_invalid", e.digest>>
             /\ e.kind \in KIND_SCHEMAS /\ _current_time(current)
             /\ ~verify_statement(e.digest[2], Policies[e.policy], current.epoch)
      \/ \E e \in current.objects : x = <<"duplicate_semantic_identifier", e.digest>>
      \/ /\ x = <<"authoritative_time_receipt_missing_or_invalid", Digest(current.receipt)>>
         /\ ~_current_time(current)
      \/ \E e \in current.objects :
             /\ x = <<"attestation_not_source_backed", e.digest>>
             /\ e.kind = "principal-attestation"
             /\ e.digest[2] \notin active_attestations_v5(current)
  BY <1>1, <1>5, <1>6 DEF doctor_v5
<1>8. CASE \E e \in current.objects :
               /\ x = <<"signed_ledger_object_invalid", e.digest>>
               /\ e.kind \in KIND_SCHEMAS /\ _current_time(current)
               /\ ~verify_statement(e.digest[2], Policies[e.policy], current.epoch)
  <2>1. PICK e \in current.objects :
            /\ x = <<"signed_ledger_object_invalid", e.digest>>
            /\ e.kind \in KIND_SCHEMAS /\ _current_time(current)
            /\ ~verify_statement(e.digest[2], Policies[e.policy], current.epoch)
    BY <1>8
  <2>2. x[1] = "signed_ledger_object_invalid" /\ x[2] = e.digest
    BY <2>1
  <2> QED
    BY <1>2, <2>1, <2>2, Zenon
<1>9. CASE \E e \in current.objects : x = <<"duplicate_semantic_identifier", e.digest>>
  BY <1>9
<1>10. CASE /\ x = <<"authoritative_time_receipt_missing_or_invalid", Digest(current.receipt)>>
            /\ ~_current_time(current)
  BY <1>4, <1>10 DEF Digests
<1>11. CASE \E e \in current.objects :
                /\ x = <<"attestation_not_source_backed", e.digest>>
                /\ e.kind = "principal-attestation"
                /\ e.digest[2] \notin active_attestations_v5(current)
  <2>1. PICK e \in current.objects :
            /\ x = <<"attestation_not_source_backed", e.digest>>
            /\ e.kind = "principal-attestation"
            /\ e.digest[2] \notin active_attestations_v5(current)
    BY <1>11
  <2>2. x[1] = "attestation_not_source_backed" /\ x[2] = e.digest
    BY <2>1
  <2> QED
    BY <1>3, <2>1, <2>2, Zenon
<1> QED
  BY <1>7, <1>8, <1>9, <1>10, <1>11

(* The audit of a workspace (doctor_v5): an error is never the fault of what a command let *)
(* in, what was signed passes inspect_signed_object_v5, and without errors and quarantine  *)
(* the time receipt verifies.                                                              *)
THEOREM AuditExplained == Spec => []DoctorExplained
<1>1. LedgerInvariant /\ DoctorInvariant => DoctorExplained
  <2> SUFFICES ASSUME LedgerInvariant, DoctorInvariant, Founded
               PROVE  /\ SignedThen
                      /\ ErrorsExplained(doctor_v5(current))
                      /\ doctor_v5(current) = {} => _current_time(current)
    BY DEF DoctorExplained
  <2>1. IsLedger(current) /\ Audited(current)
    BY DEF LedgerInvariant, DoctorInvariant, Absent, Founded
  <2>2. SignedThen
    BY <2>1 DEF SignedThen, Audited, Vetted, ValidThen, inspect_signed_object_v5
  <2>3. ErrorsExplained(doctor_v5(current))
    BY <2>1, EachError, Zenon DEF ErrorsExplained
  <2>4. ASSUME ~_current_time(current)
        PROVE  doctor_v5(current) # {}
    <3>1. <<"authoritative_time_receipt_missing_or_invalid", Digest(current.receipt)>>
              \in doctor_v5(current)
      BY <2>4 DEF doctor_v5
    <3> QED
      BY <3>1
  <2> QED
    BY <2>2, <2>3, <2>4
<1> QED
  BY <1>1, LedgerInvariantHolds, DoctorInvariantHolds, PTL

-----------------------------------------------------------------------------
(* The planner.  A world keeps to a projected state when whatever the      *)
(* planner counts on is in the world, and what it measures is no worse     *)
(* there; the worlds after an outcome keep to the projection of it.        *)

KeepsTo(w, st) ==
    /\ st.states \subseteq w.states /\ st.authority \subseteq w.authority
    /\ st.hazards \subseteq w.hazards
    /\ w.units = st.units /\ DOMAIN st.units \subseteq DOMAIN st.resources
    /\ DOMAIN w.resources = DOMAIN st.resources
    /\ \A c \in DOMAIN st.resources :
           /\ st.resources[c] \in Int /\ w.resources[c] \in Int
           /\ w.resources[c] >= st.resources[c]
    /\ st.load \in Int /\ w.load \in Int /\ w.load <= st.load

StateFields == {"states", "authority", "hazards", "resources", "units", "independence", "debt",
                "rollback", "load", "profile"}

IsState(st) == DOMAIN st = StateFields

\* The numbers of a branch.
Declared(b) == b.load \in Int /\ \A c \in DOMAIN b.lower : b.lower[c] \in Int

(* What _successor makes of a state. *)
LEMMA SuccessorState ==
    ASSUME NEW st, IsState(st), NEW b
    PROVE  LET next == _successor(st, b)
           IN /\ IsState(next)
              /\ next.states = (st.states \ Removed(b)) \cup b.must_add
              /\ next.authority = st.authority \cap next.states
              /\ next.hazards = st.hazards \cap next.states
              /\ next.resources = [c \in DOMAIN st.resources \cup DOMAIN b.lower |->
                                      Get(st.resources, c) + Get(b.lower, c)]
              /\ next.units = st.units
              /\ next.load = st.load + b.load
BY DEF IsState, StateFields, _successor

(* Numbers that are not there count as zero. *)
LEMMA GetIsInt ==
    ASSUME NEW f, \A c \in DOMAIN f : f[c] \in Int, NEW c
    PROVE  Get(f, c) \in Int
BY DEF Get

(* The worlds after an outcome keep to its projection. *)
LEMMA WorldsKeepTo ==
    ASSUME NEW st, NEW w, IsState(st), KeepsTo(w, st), NEW b, Declared(b), NEW v \in Worlds(w, b)
    PROVE  KeepsTo(v, _successor(st, b))
<1> DEFINE next == _successor(st, b)
<1>1. PICK gone \in SUBSET b.may_remove, more \in {0, 1}, spared \in {0, b.load} \cap Nat :
          v = After(w, b, gone, more, spared)
  BY DEF Worlds
<1>2. /\ v.states = (w.states \ ((b.must_remove \cup gone) \ b.must_add)) \cup b.must_add
      /\ v.authority = w.authority \ ((b.must_remove \cup gone) \ b.must_add)
      /\ v.hazards = w.hazards \ ((b.must_remove \cup gone) \ b.must_add)
      /\ v.resources = [c \in DOMAIN w.resources \cup DOMAIN b.lower |->
                           Get(w.resources, c) + Get(b.lower, c) + more]
      /\ v.units = w.units /\ v.load = w.load + b.load - spared
  BY <1>1 DEF After
<1>3. /\ next.states = (st.states \ Removed(b)) \cup b.must_add
      /\ next.authority = st.authority \cap next.states
      /\ next.hazards = st.hazards \cap next.states
      /\ next.resources = [c \in DOMAIN st.resources \cup DOMAIN b.lower |->
                              Get(st.resources, c) + Get(b.lower, c)]
      /\ next.units = st.units /\ next.load = st.load + b.load
  BY SuccessorState
<1> HIDE DEF next
<1>4. next.states \subseteq v.states
  BY <1>2, <1>3 DEF KeepsTo, Removed
<1>5. next.authority \subseteq v.authority /\ next.hazards \subseteq v.hazards
  BY <1>2, <1>3 DEF KeepsTo, Removed
<1>6. /\ v.units = next.units /\ DOMAIN next.units \subseteq DOMAIN next.resources
      /\ DOMAIN v.resources = DOMAIN next.resources
  BY <1>2, <1>3 DEF KeepsTo
<1>7. ASSUME NEW c \in DOMAIN next.resources
      PROVE  /\ next.resources[c] \in Int /\ v.resources[c] \in Int
             /\ v.resources[c] >= next.resources[c]
  <2>1. Get(st.resources, c) \in Int /\ Get(w.resources, c) \in Int /\ Get(b.lower, c) \in Int
    BY GetIsInt DEF KeepsTo, Declared
  <2>2. Get(w.resources, c) >= Get(st.resources, c)
    BY DEF KeepsTo, Get
  <2>3. /\ next.resources[c] = Get(st.resources, c) + Get(b.lower, c)
        /\ v.resources[c] = Get(w.resources, c) + Get(b.lower, c) + more
    BY <1>2, <1>3, <1>6, <1>7
  <2> QED
    BY <2>1, <2>2, <2>3
<1>8. next.load \in Int /\ v.load \in Int /\ v.load <= next.load
  BY <1>2, <1>3 DEF KeepsTo, Declared
<1> QED
  BY <1>4, <1>5, <1>6, <1>7, <1>8 DEF KeepsTo, next

(* What _safe_branch finds of a projection holds in the worlds that keep to it. *)
LEMMA SafeInWorlds ==
    ASSUME NEW st, NEW w, KeepsTo(w, st), NEW b, NEW action, _safe_branch(st, b, action.about)
    PROVE  ContractKept(w, action)
<1>1. ASSUME NEW c \in DOMAIN Contract.floors
      PROVE  /\ c \in DOMAIN w.units /\ w.units[c] = Contract.floors[c].unit
             /\ w.resources[c] >= Contract.floors[c].quantity
  <2>1. FloorKept(st, c)
    BY <1>1 DEF _safe_branch
  <2>2. c \in DOMAIN st.units /\ st.units[c] = Contract.floors[c].unit
    BY <2>1 DEF FloorKept
  <2>3. st.resources[c] >= Contract.floors[c].quantity
    BY <2>1, <2>2 DEF FloorKept, Get, KeepsTo
  <2> QED
    BY <1>1, <2>2, <2>3, ContractAssumption DEF KeepsTo
<1>2. w.load < FullLoad
  BY ContractAssumption DEF KeepsTo, _safe_branch
<1>3. action.about.authority \subseteq w.authority /\ action.about.hazards \subseteq w.hazards
  BY DEF KeepsTo, _safe_branch
<1> QED
  BY <1>1, <1>2, <1>3 DEF ContractKept
(* The worst of the worlds after an outcome is its projection. *)
LEMMA WorstWorld ==
    ASSUME NEW st, IsState(st), KeepsTo(st, st), NEW b, Declared(b), NEW action,
           st.authority \subseteq st.states, st.hazards \subseteq st.states,
           \A v \in Worlds(st, b) : ContractKept(v, action), b.quality # Missing
    PROVE  _safe_branch(_successor(st, b), b, action.about)
<1> DEFINE next == _successor(st, b)
           v == After(st, b, b.may_remove, 0, 0)
<1>1. v \in Worlds(st, b)
  <2>1. b.may_remove \in SUBSET b.may_remove /\ 0 \in {0, 1} /\ 0 \in {0, b.load} \cap Nat
    OBVIOUS
  <2> QED
    BY <2>1 DEF Worlds
<1>2. /\ next.states = (st.states \ Removed(b)) \cup b.must_add
      /\ next.authority = st.authority \cap next.states
      /\ next.hazards = st.hazards \cap next.states
      /\ next.resources = [c \in DOMAIN st.resources \cup DOMAIN b.lower |->
                              Get(st.resources, c) + Get(b.lower, c)]
      /\ next.units = st.units /\ next.load = st.load + b.load
  BY SuccessorState
<1>3. /\ v.authority = st.authority \ (Removed(b) \ b.must_add)
      /\ v.hazards = st.hazards \ (Removed(b) \ b.must_add)
      /\ v.units = st.units /\ v.load = st.load + b.load - 0
      /\ v.resources = [c \in DOMAIN st.resources \cup DOMAIN b.lower |->
                           Get(st.resources, c) + Get(b.lower, c) + 0]
  BY DEF Removed, After
<1> HIDE DEF next, v
<1>4. ContractKept(v, action)
  BY <1>1
<1>5. v.authority \subseteq next.authority /\ v.hazards \subseteq next.hazards
  BY <1>2, <1>3
<1>6. v.load = next.load
  BY <1>2, <1>3 DEF KeepsTo, Declared
<1>7. ASSUME NEW c \in DOMAIN Contract.floors
      PROVE  FloorKept(next, c)
  <2>1. /\ c \in DOMAIN st.units /\ st.units[c] = Contract.floors[c].unit
        /\ v.resources[c] >= Contract.floors[c].quantity
    BY <1>3, <1>4, <1>7 DEF ContractKept
  <2>2. c \in DOMAIN next.resources /\ c \in DOMAIN st.resources
    BY <1>2, <2>1 DEF KeepsTo
  <2>3. Get(st.resources, c) \in Int /\ Get(b.lower, c) \in Int
    BY GetIsInt DEF KeepsTo, Declared
  <2>4. v.resources[c] = next.resources[c]
    BY <1>2, <1>3, <2>2, <2>3
  <2> QED
    BY <1>2, <2>1, <2>2, <2>4 DEF FloorKept, Get
<1>8. action.about.authority \subseteq next.authority /\ action.about.hazards \subseteq next.hazards
  BY <1>4, <1>5 DEF ContractKept
<1>9. next.load < FullLoad
  BY <1>4, <1>6 DEF ContractKept
<1> QED
  BY <1>7, <1>8, <1>9 DEF _safe_branch, next

(* What is known of an action that _bound_actions accepts. *)
LEMMA BoundAction ==
    ASSUME NEW g, NEW S, \A s \in S : Numeric(s), NEW st, NEW a \in _bound_actions(g, S, st)
    PROVE  /\ a.action.about.inputs \subseteq st.states
           /\ a.action.about.authority \subseteq st.authority
           /\ \A n \in BRANCHES :
                  /\ Declared(a.branches[n])
                  /\ a.after[n] = _successor(st, a.branches[n])
                  /\ _safe_branch(a.after[n], a.branches[n], a.action.about)
<1>1. PICK action \in Evidence5(S, "action") :
          /\ Reasons(g, S, st, action) = {}
          /\ a = [action |-> action, branches |-> Branches(g, S, action),
                  after |-> [n \in BRANCHES |-> _successor(st, Branches(g, S, action)[n])]]
  BY DEF _bound_actions
<1> DEFINE C == CapabilityOf(g, S, action)
<1>2. /\ When(C = {}, "independently_signed_capability_missing") = {}
      /\ When(~(action.about.inputs \subseteq st.states), "action_inputs_unavailable") = {}
      /\ When(~(action.about.authority \subseteq st.authority),
              "action_authority_unavailable") = {}
      /\ UNION {UNION {BranchReasons(st, action, c.about, n) : n \in BRANCHES} : c \in C} = {}
  BY <1>1, Zenon DEF Reasons
<1>3. /\ C # {} /\ action.about.inputs \subseteq st.states
      /\ action.about.authority \subseteq st.authority
  BY <1>2 DEF When
<1>4. PICK c \in C : Branches(g, S, action) = c.about.branches
  BY <1>3 DEF Branches
<1>5. ASSUME NEW n \in BRANCHES
      PROVE  /\ Declared(c.about.branches[n])
             /\ _safe_branch(_successor(st, c.about.branches[n]), c.about.branches[n],
                             action.about)
  <2>1. BranchReasons(st, action, c.about, n) = {}
    BY <1>2, <1>4, <1>5
  <2>2. n \in DOMAIN c.about.branches
    BY <2>1 DEF BranchReasons
  <2>3. When(~_safe_branch(_successor(st, c.about.branches[n]), c.about.branches[n],
                           action.about), "unsafe_branch") = {}
    BY <2>1, <2>2, Zenon DEF BranchReasons
  <2>4. c \in S /\ c.record = "evidence" /\ c.evidence = "adapter_capability"
    BY <1>4 DEF CapabilityOf, Evidence5, Of
  <2>5. Declared(c.about.branches[n])
    BY <2>2, <2>4 DEF Numeric, Declared
  <2> QED
    BY <2>3, <2>5 DEF When
<1>6. /\ a.action = action /\ a.branches = c.about.branches
      /\ \A n \in BRANCHES : a.after[n] = _successor(st, c.about.branches[n])
  BY <1>1, <1>4
<1> QED
  BY <1>3, <1>5, <1>6

\* A node that is met in a world that keeps to the projection the node was planned for.
Met(g, S, s) ==
    \E st : IsState(st) /\ KeepsTo(s[2], st) /\ s[1].action \in _bound_actions(g, S, st)

(* A node met so can be taken, and the contract holds after each of its outcomes. *)
LEMMA MetIsSound ==
    ASSUME NEW g, NEW S, \A s \in S : Numeric(s), NEW s, Met(g, S, s)
    PROVE  Sound(s[1], s[2])
<1> DEFINE a == s[1].action
<1>1. PICK st : IsState(st) /\ KeepsTo(s[2], st) /\ a \in _bound_actions(g, S, st)
  BY DEF Met
<1> HIDE DEF a
<1>2. /\ a.action.about.inputs \subseteq st.states
      /\ a.action.about.authority \subseteq st.authority
      /\ \A n \in BRANCHES :
             /\ Declared(a.branches[n])
             /\ a.after[n] = _successor(st, a.branches[n])
             /\ _safe_branch(a.after[n], a.branches[n], a.action.about)
  BY <1>1, BoundAction
<1>3. ASSUME NEW n \in BRANCHES, NEW v \in Worlds(s[2], a.branches[n])
      PROVE  ContractKept(v, a.action)
  <2>1. KeepsTo(v, _successor(st, a.branches[n]))
    BY <1>1, <1>2, <1>3, WorldsKeepTo
  <2> QED
    BY <1>2, <1>3, <2>1, SafeInWorlds
<1>4. a.action.about.inputs \subseteq s[2].states /\ a.action.about.authority \subseteq s[2].authority
  BY <1>1, <1>2 DEF KeepsTo
<1> QED
  BY <1>3, <1>4 DEF Sound, a

(* What is met one step further is met so too: the children of a node are planned for the *)
(* projection of its outcome.                                                             *)
LEMMA FurtherIsMet ==
    ASSUME NEW g, NEW S, \A s \in S : Numeric(s), NEW met, \A s \in met : Met(g, S, s)
    PROVE  \A s \in Further(g, S, met) : Met(g, S, s)
<1> SUFFICES ASSUME NEW r \in met, NEW n \in BRANCHES,
                    NEW s \in _tree(g, S, r[1], n).children
                                  \X Worlds(r[2], r[1].action.branches[n])
             PROVE  Met(g, S, s)
  BY DEF Further
<1> DEFINE a == r[1].action
           next == Nondominated(_bound_actions(g, S, a.after[n]))
<1>1. PICK st : IsState(st) /\ KeepsTo(r[2], st) /\ a \in _bound_actions(g, S, st)
  BY DEF Met
<1>2. s[1] \in _tree(g, S, r[1], n).children /\ s[2] \in Worlds(r[2], a.branches[n])
  OBVIOUS
<1>3. PICK child \in FirstOf(g, next, Contract.width) : s[1].action = child
  BY <1>2 DEF _tree
<1>4. child \in _bound_actions(g, S, a.after[n])
  BY <1>3 DEF FirstOf, Nondominated
<1> HIDE DEF a, next
<1>5. \A m \in BRANCHES :
          /\ Declared(a.branches[m])
          /\ a.after[m] = _successor(st, a.branches[m])
          /\ _safe_branch(a.after[m], a.branches[m], a.action.about)
  BY <1>1, BoundAction
<1>6. KeepsTo(s[2], a.after[n])
  BY <1>1, <1>2, <1>5, WorldsKeepTo
<1>7. IsState(_successor(st, a.branches[n]))
  BY <1>1, SuccessorState
<1> QED
  BY <1>3, <1>4, <1>5, <1>6, <1>7 DEF Met

(* A set of natural numbers that is not empty has a least one. *)
LEMMA LeastNumber ==
    ASSUME NEW T \in SUBSET Nat, T # {}
    PROVE  \E x \in T : \A y \in T : x <= y
<1> DEFINE R == OpToRel(<, Nat)
<1>1. IsWellFoundedOn(R, Nat)
  BY NatLessThanWellFounded
<1>2. \A x, y \in Nat : y < x => <<y, x>> \in R
  BY DEF OpToRel
<1> HIDE DEF R
<1>3. PICK x \in T : \A y \in T : ~(<<y, x>> \in R)
  BY <1>1, WFMin
<1>4. \A y \in T : x \in Nat /\ y \in Nat /\ ~(y < x)
  BY <1>2, <1>3
<1>5. \A y \in T : x <= y
  BY <1>4
<1> QED
  BY <1>5

(* What holds of 0, and of a number when it holds of the one before, holds up to the bound. *)
LEMMA UpTo ==
    ASSUME NEW N \in Nat, NEW S, 0 \in S,
           \A n \in 0 .. N : n > 0 /\ n - 1 \in S => n \in S
    PROVE  \A n \in 0 .. N : n \in S
<1> SUFFICES ASSUME NEW b \in (0 .. N) \ S
             PROVE  FALSE
  OBVIOUS
<1> DEFINE T == (0 .. N) \ S
<1>1. T \in SUBSET Nat /\ T # {}
  OBVIOUS
<1> HIDE DEF T
<1>2. PICK x \in T : \A y \in T : x <= y
  BY <1>1, LeastNumber
<1> QED
  BY <1>2 DEF T

\* What is met within so many steps.
Within(g, S, start, N, within) ==
    within = [d \in 0 .. N |-> IF d = 0 THEN start ELSE Further(g, S, within[d - 1])]

(* What is met is what its recursion computes, step by step. *)
LEMMA SituationsUnfold ==
    ASSUME NEW g, NEW S, NEW roots, NEW now
    PROVE  \E within : /\ Within(g, S, {<<node, now>> : node \in roots}, Contract.horizon, within)
                       /\ Situations(g, S, roots, now) = within[Contract.horizon]
<1> DEFINE N == Contract.horizon
           start == {<<node, now>> : node \in roots}
           Upto(m, f) == f = [d \in 0 .. m |-> IF d = 0 THEN start ELSE Further(g, S, f[d - 1])]
           D == {m \in 0 .. N : \E f : Upto(m, f)}
<1>0. N \in Nat
  BY ContractAssumption
<1> HIDE DEF start
<1>1. 0 \in D
  <2> DEFINE f == [d \in 0 .. 0 |-> start]
  <2>1. f = [d \in 0 .. 0 |-> IF d = 0 THEN start ELSE Further(g, S, f[d - 1])]
    OBVIOUS
  <2> HIDE DEF f
  <2>2. Upto(0, f)
    BY <2>1
  <2> QED
    BY <1>0, <2>2
<1>2. ASSUME NEW m \in 0 .. N, m > 0, m - 1 \in D
      PROVE  m \in D
  <2>1. PICK f : Upto(m - 1, f)
    BY <1>2
  <2> DEFINE h == [d \in 0 .. m |-> IF d = m THEN Further(g, S, f[m - 1]) ELSE f[d]]
  <2>2. \A d \in 0 .. m : h[d] = IF d = 0 THEN start ELSE Further(g, S, h[d - 1])
    BY <1>0, <1>2, <2>1
  <2>3. Upto(m, h)
    BY <2>2
  <2> QED
    BY <2>3
<1>3. N \in D
  <2> HIDE DEF D, N
  <2>1. \A m \in 0 .. N : m > 0 /\ m - 1 \in D => m \in D
    BY <1>2
  <2>2. \A m \in 0 .. N : m \in D
    BY <1>0, <1>1, <2>1, UpTo
  <2> QED
    BY <1>0, <2>2
<1>4. \E within : Within(g, S, start, N, within)
  BY <1>3 DEF Within
<1>5. Within(g, S, start, N, CHOOSE within : Within(g, S, start, N, within))
  BY <1>4
<1> QED
  BY <1>5 DEF Within, Situations, start

(* All that is met from the roots is met in a world that keeps to the projections. *)
LEMMA AllMet ==
    ASSUME NEW g, NEW S, \A s \in S : Numeric(s), NEW roots, NEW now, IsState(now),
           KeepsTo(now, now), \A node \in roots : node.action \in _bound_actions(g, S, now)
    PROVE  \A s \in Situations(g, S, roots, now) : Met(g, S, s)
<1> DEFINE start == {<<node, now>> : node \in roots}
           N == Contract.horizon
<1>1. PICK within : Within(g, S, start, N, within) /\ Situations(g, S, roots, now) = within[N]
  BY SituationsUnfold
<1>2. N \in Nat
  BY ContractAssumption
<1>3. \A s \in start : Met(g, S, s)
  BY DEF Met
<1> HIDE DEF start
<1>4. /\ within[0] = start
      /\ \A d \in 0 .. N : d > 0 => within[d] = Further(g, S, within[d - 1])
  BY <1>1, <1>2 DEF Within
<1> DEFINE D == {d \in 0 .. N : \A s \in within[d] : Met(g, S, s)}
<1>5. 0 \in D
  BY <1>2, <1>3, <1>4
<1>6. ASSUME NEW d \in 0 .. N, d > 0, d - 1 \in D
      PROVE  d \in D
  <2>1. \A s \in within[d - 1] : Met(g, S, s)
    BY <1>6
  <2>2. \A s \in Further(g, S, within[d - 1]) : Met(g, S, s)
    BY <2>1, FurtherIsMet
  <2> QED
    BY <1>4, <1>6, <2>2
<1>7. N \in D
  <2> HIDE DEF D, N
  <2>1. \A d \in 0 .. N : d > 0 /\ d - 1 \in D => d \in D
    BY <1>6
  <2>2. \A d \in 0 .. N : d \in D
    BY <1>2, <1>5, <2>1, UpTo
  <2> QED
    BY <1>2, <2>2
<1> QED
  BY <1>1, <1>7 DEF D

(* An active attestation is one that principals sign, at a place in the ledger. *)
LEMMA ActiveIsGenuine ==
    ASSUME IsLedger(current), Audited(current), NEW s \in active_attestations_v5(current)
    PROVE  Numeric(s) /\ Since(current, s) \in Nat
<1>1. PICK e \in current.objects : e.kind = "principal-attestation" /\ e.digest[2] = s
  BY DEF active_attestations_v5
<1>2. Genuine(e)
  BY <1>1 DEF Audited, Vetted, Backed
<1>3. e.digest = Digest(s) /\ Numeric(s)
  BY <1>1, <1>2 DEF Genuine
<1>4. \A f \in current.objects : f.since \in Nat
  BY DEF IsLedger
<1>5. (CHOOSE f \in current.objects : f.digest = Digest(s)) \in current.objects
  BY <1>3
<1> QED
  BY <1>3, <1>4, <1>5 DEF Since

(* The state the planner starts from is a projection of itself, and what it holds of *)
(* authority and hazards is among its states.                                        *)
LEMMA InitialState ==
    ASSUME NEW g, \A s \in active_attestations_v5(g) : Numeric(s)
    PROVE  LET now == _initial_state(g)
           IN /\ IsState(now) /\ KeepsTo(now, now)
              /\ now.authority \subseteq now.states /\ now.hazards \subseteq now.states
<1> DEFINE S == active_attestations_v5(g)
           observed == Observed(g, S)
           Seen(c) == (CHOOSE s \in observed : s.about.coordinate = c).about
           coordinates == {s.about.coordinate : s \in observed}
           now == _initial_state(g)
<1>1. now = [states |-> Subjects({s \in Of(S, "state") : s.about.available}
                                 \cup Of(S, "authority") \cup Of(S, "hazard")),
             authority |-> Subjects(Of(S, "authority")),
             hazards |-> Subjects(Of(S, "hazard")),
             resources |-> [c \in coordinates |-> Seen(c).quantity],
             units |-> [c \in coordinates |-> Seen(c).unit],
             independence |-> Subjects(Of(S, "independence")),
             debt |-> {}, rollback |-> {}, load |-> 0, profile |-> "audited"]
  BY Zenon DEF _initial_state
<1>2. ASSUME NEW c \in coordinates
      PROVE  Seen(c).quantity \in Int
  <2> DEFINE s == CHOOSE s \in observed : s.about.coordinate = c
  <2>1. s \in observed
    BY <1>2
  <2>2. s \in S /\ s.record = "resource_observation"
    BY <2>1 DEF Observed, Of
  <2>3. Numeric(s)
    BY <2>2
  <2> HIDE DEF s
  <2>4. s.about.quantity \in Int
    BY <2>2, <2>3 DEF Numeric
  <2> QED
    BY <2>4 DEF s
<1> HIDE DEF S, observed, Seen, coordinates, now
<1>3. IsState(now)
  BY <1>1 DEF IsState, StateFields
<1>4. now.authority \subseteq now.states /\ now.hazards \subseteq now.states
  BY <1>1 DEF Subjects
<1>5. now.resources = [c \in coordinates |-> Seen(c).quantity]
  BY <1>1
<1>6. DOMAIN now.units = coordinates /\ now.load = 0
  BY <1>1
<1>7. KeepsTo(now, now)
  BY <1>2, <1>5, <1>6 DEF KeepsTo
<1> QED
  BY <1>3, <1>4, <1>7 DEF now

(* The plan of a generation; its roots and its primary action are accepted actions. *)
LEMMA PlanIs ==
    ASSUME NEW g
    PROVE  LET S == active_attestations_v5(g)
               bound == _bound_actions(g, S, _initial_state(g))
               plan == plan_v5(g)
           IN /\ plan.roots \subseteq bound /\ plan.primary \subseteq bound
              /\ \A a \in plan.primary : \A n \in BRANCHES :
                     Contract.targets \subseteq a.after[n].states
<1> DEFINE S == active_attestations_v5(g)
           bound == _bound_actions(g, S, _initial_state(g))
<1>1. plan_v5(g) = Choice(g, S, Nondominated(bound))
  BY DEF plan_v5
<1> HIDE DEF S, bound
<1> DEFINE A == Nondominated(bound)
           plan == Choice(g, S, A)
<1>2. A \subseteq bound
  BY DEF Nondominated
<1> HIDE DEF A
<1>3. /\ plan.roots \subseteq A /\ plan.primary \subseteq A
      /\ \A a \in plan.primary : \A n \in BRANCHES : Contract.targets \subseteq a.after[n].states
  BY DEF Choice, Overflow
<1> QED
  BY <1>1, <1>2, <1>3 DEF S, bound, A

(* An action is refused as unsafe, as explain_action_v5 says of an identifier, only when *)
(* some outcome its capability declares breaks the contract.                             *)
LEMMA RefusedBreaks ==
    ASSUME NEW g, NEW S, S = active_attestations_v5(g), NEW now, now = _initial_state(g),
           \A s \in S : Numeric(s) /\ Since(g, s) \in Nat, IsState(now), KeepsTo(now, now),
           now.authority \subseteq now.states, now.hazards \subseteq now.states,
           NEW plan, NEW id, "unsafe_branch" \in explain_action_v5(g, plan, id).rejection
    PROVE  \E s \in Evidence5(S, "action") : s.subject = id /\ Breaks(g, S, s, now)
<1> DEFINE refused == {s \in Evidence5(S, "action") :
                           s.subject = id /\ Reasons(g, S, now, s) # {}}
           first == CHOOSE s \in refused : \A t \in refused : Since(g, s) <= Since(g, t)
<1>1. refused # {} /\ "unsafe_branch" \in Reasons(g, S, now, first)
  BY DEF explain_action_v5
<1>2. first \in refused
  <2> DEFINE T == {Since(g, s) : s \in refused}
  <2>1. \A s \in refused : s \in S
    BY DEF Evidence5, Of
  <2>2. T \in SUBSET Nat /\ T # {}
    BY <1>1, <2>1
  <2> HIDE DEF T
  <2>3. PICK x \in T : \A y \in T : x <= y
    BY <2>2, LeastNumber
  <2>4. \E s \in refused : \A t \in refused : Since(g, s) <= Since(g, t)
    BY <2>3 DEF T
  <2> QED
    BY <2>4
<1> HIDE DEF first
<1>3. first \in Evidence5(S, "action") /\ first.subject = id
  BY <1>2
<1>4. \E c \in CapabilityOf(g, S, first), n \in BRANCHES :
          "unsafe_branch" \in BranchReasons(now, first, c.about, n)
  BY <1>1 DEF Reasons, When
<1>5. PICK c \in CapabilityOf(g, S, first), n \in BRANCHES :
          "unsafe_branch" \in BranchReasons(now, first, c.about, n)
  BY <1>4
<1> DEFINE b == c.about.branches[n]
<1>6. n \in DOMAIN c.about.branches /\ ~_safe_branch(_successor(now, b), b, first.about)
  BY <1>5 DEF BranchReasons, When
<1>7. c \in S /\ c.record = "evidence" /\ c.evidence = "adapter_capability"
  BY DEF CapabilityOf, Evidence5, Of
<1>8. Declared(b)
  BY <1>6, <1>7 DEF Numeric, Declared
<1> HIDE DEF b
<1>9. b.quality = Missing \/ \E v \in Worlds(now, b) : ~ContractKept(v, first)
  BY <1>6, <1>8, WorstWorld
<1>10. Breaks(g, S, first, now)
  BY <1>6, <1>9 DEF Breaks, b
<1> QED
  BY <1>3, <1>10

(* The plans of the local planner (planner_v5.py): whoever follows a policy finds what each *)
(* action needs and never breaks the contract, whatever the outcomes and however deep the   *)
(* policy goes; a primary action reaches the targets; and no action is refused as unsafe    *)
(* without an outcome that is.                                                              *)
THEOREM PoliciesHold == Spec => []PlanHolds
<1>1. LedgerInvariant /\ DoctorInvariant => PlanHolds
  <2> SUFFICES ASSUME LedgerInvariant, DoctorInvariant, Founded
               PROVE  LET plan == plan_v5(current)
                          S == active_attestations_v5(current)
                          now == _initial_state(current)
                      IN /\ \A s \in Situations(current, S, Roots(plan), now) : Sound(s[1], s[2])
                         /\ \A a \in plan.primary : \A n \in BRANCHES :
                                \A v \in Worlds(now, a.branches[n]) :
                                    Contract.targets \subseteq v.states
                         /\ \A id \in Subjects(Evidence5(S, "action")) :
                                "unsafe_branch" \in explain_action_v5(current, plan, id).rejection =>
                                    \E s \in Evidence5(S, "action") :
                                        s.subject = id /\ Breaks(current, S, s, now)
    BY Zenon DEF PlanHolds
  <2> DEFINE plan == plan_v5(current)
             S == active_attestations_v5(current)
             now == _initial_state(current)
  <2>1. IsLedger(current) /\ Audited(current)
    BY DEF LedgerInvariant, DoctorInvariant, Absent, Founded
  <2>2. \A s \in S : Numeric(s) /\ Since(current, s) \in Nat
    BY <2>1, ActiveIsGenuine
  <2>3. /\ IsState(now) /\ KeepsTo(now, now)
        /\ now.authority \subseteq now.states /\ now.hazards \subseteq now.states
    BY <2>2, InitialState
  <2>4. /\ plan.roots \subseteq _bound_actions(current, S, now)
        /\ plan.primary \subseteq _bound_actions(current, S, now)
        /\ \A a \in plan.primary : \A n \in BRANCHES :
               Contract.targets \subseteq a.after[n].states
    BY PlanIs
  <2>5. ASSUME NEW id, "unsafe_branch" \in explain_action_v5(current, plan, id).rejection
        PROVE  \E s \in Evidence5(S, "action") : s.subject = id /\ Breaks(current, S, s, now)
    BY <2>2, <2>3, <2>5, RefusedBreaks
  <2> HIDE DEF plan, S, now
  <2>6. \A node \in Roots(plan) : node.action \in _bound_actions(current, S, now)
    BY <2>4 DEF Roots
  <2>7. \A s \in Situations(current, S, Roots(plan), now) : Met(current, S, s)
    BY <2>2, <2>3, <2>6, AllMet
  <2>8. \A s \in Situations(current, S, Roots(plan), now) : Sound(s[1], s[2])
    BY <2>2, <2>7, MetIsSound
  <2>9. ASSUME NEW a \in plan.primary, NEW n \in BRANCHES, NEW v \in Worlds(now, a.branches[n])
        PROVE  Contract.targets \subseteq v.states
    <3> a \in _bound_actions(current, S, now) /\ \A s \in S : Numeric(s)
      BY <2>2, <2>4, <2>9
    <3>0. \A m \in BRANCHES :
              /\ Declared(a.branches[m])
              /\ a.after[m] = _successor(now, a.branches[m])
              /\ _safe_branch(a.after[m], a.branches[m], a.action.about)
      BY BoundAction
    <3>1. Declared(a.branches[n]) /\ a.after[n] = _successor(now, a.branches[n])
      BY <2>9, <3>0
    <3>2. KeepsTo(v, a.after[n])
      BY <2>3, <2>9, <3>1, WorldsKeepTo
    <3> QED
      BY <2>4, <2>9, <3>2 DEF KeepsTo
  <2> QED
    BY <2>5, <2>8, <2>9, Zenon DEF plan, S, now
<1> QED
  BY <1>1, LedgerInvariantHolds, DoctorInvariantHolds, PTL
=============================================================================
