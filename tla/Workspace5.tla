----------------------------- MODULE Workspace5 -----------------------------
(***************************************************************************)
(* A local v0.5 workspace (workspace_v5.py): the commands that add         *)
(* generations to it, and doctor.  A command reads the current manifest,   *)
(* decides, and commits against it; LocalGenerations shows that such a     *)
(* commit is an atomic compare-and-append, so a command is one step here   *)
(* unless it reads or commits twice.  A command that refuses changes       *)
(* nothing and is not a step.                                              *)
(*                                                                         *)
(* A digest is modelled by what it hashes: <<what, content>>.              *)
(***************************************************************************)
EXTENDS Trust5

CONSTANTS
    Raw,            \* raw artifacts
    Attestation,    \* signed principal-attestation documents offered for import
    SignedObject,   \* other signed documents offered for import
    Genesis,        \* the policies a workspace may be founded on, names of Policies
    Fingerprint,    \* the root key known out of band
    Key,
    Clock,          \* the keys that sign time receipts
    Time,
    Serial,
    MaxGenerations  \* bound: the longest history

\* Times are numbers, and a workspace is founded on a policy that exists.
ASSUME TimesAssumption ==
    /\ \A n \in DOMAIN Policies : \A k \in DOMAIN Policies[n].principals :
           Policies[n].principals[k].not_after \in Int
    /\ \A s \in Attestation \cup SignedObject : s.signed \in Int
    /\ Time \subseteq Int /\ Genesis \subseteq DOMAIN Policies

VARIABLES
    current,    \* the manifest CURRENT names, or Absent
    migrating   \* migrate_workspace_v5 is between its two commits

Absent == [number |-> 0]

Digest(s) == <<s.schema, s>>

contract == <<"contract", 0>>
registry == <<"registry", 0>>
GenerationId(g) == <<"generation", g.number>>
PolicyDigest(name) == <<"policy", name>>

ledger_entry(digest, kind, sources, policy) ==
    [digest |-> digest, kind |-> kind, sources |-> sources, policy |-> policy,
     lifecycle |-> "active", since |-> 1]

NoPolicy == ""

\* An entry for a signed statement, verified under the policy of g.
SignedEntry(g, s, kind, sources) == ledger_entry(Digest(s), kind, sources, g.policy)

\* The registered kinds whose objects are signed statements.
KIND_SCHEMAS ==
    {"genesis-policy-statement", "trust-quorum-decision", "trusted-time-receipt",
     "principal-attestation", "scientific-witness", "dataset-record",
     "analysis-executable-record", "acceleration-evidence", "adapter-capability",
     "execution-policy", "projection-approval", "coordination-event", "measurement-protocol",
     "registration-receipt", "protocol-amendment", "trial-result-certificate"}

Digests(E) == {e.digest : e \in E}

Active(g, kind) == {e \in g.objects : e.kind = kind /\ e.lifecycle = "active"}

\* What GenerationStoreV5.commit demands of the new ledger: no digest twice and no
\* source outside it.
Accepts(g, new) ==
    /\ Digests(new) \cap Digests(g.objects) = {}
    /\ Cardinality(Digests(new)) = Cardinality(new)
    /\ \A e \in new : e.sources \subseteq Digests(g.objects) \cup Digests(new)

\* Mutant: nothing is withdrawn.
WithdrawNothing(E, digests) == E

Withdraw(E, digests) ==
    {IF e.digest \in digests THEN [e EXCEPT !.lifecycle = "withdrawn"] ELSE e : e \in E}

\* The committed successor of g: one history event, entries withdrawn and added.
\* since keeps the order of the ledger: the generation that added an entry.
Successor(g, event, withdrawn, new) ==
    [g EXCEPT !.number = @ + 1, !.event = event,
              !.objects = Withdraw(@, withdrawn)
                          \cup {[e EXCEPT !.since = g.number + 1] : e \in new}]

Founded == current.number > 0

Room == Founded /\ current.number < MaxGenerations

Commit(event, withdrawn, new) ==
    /\ Room
    /\ Accepts(current, new)
    /\ current' = Successor(current, event, withdrawn, new)

policy == Policies[current.policy]

\* The trusted time of g: its receipt must verify under its policy.
_current_time(g) == verify_time_receipt(g.receipt, Policies[g.policy])

\* Mutant: the epoch of the manifest is believed.
TimeAssumed == Founded

TimeKnown == Founded /\ _current_time(current)

Receipt(key, at, serial, subject) ==
    [schema |-> "trusted-time-receipt", role |-> "timestamp", key |-> key, signed |-> at,
     sound |-> TRUE, event_time |-> at, serial |-> serial, subject |-> subject]

Init5 == current = Absent /\ migrating = FALSE

-----------------------------------------------------------------------------
GenesisStatement(name, at) ==
    [schema |-> "trust-policy", role |-> "workspace_root", key |-> Policies[name].root,
     signed |-> at, sound |-> TRUE, payload |-> name]

\* initialize_workspace_v5.
Found(name, receipt) ==
    LET genesis == GenesisStatement(name, receipt.event_time)
        p == PolicyDigest(name)
    IN /\ ~Founded
       /\ verify_time_receipt(receipt, Policies[name])
       /\ receipt.subject = contract
       /\ verify_genesis(name, genesis, Fingerprint, receipt.event_time)
       /\ current' = [number |-> 1, event |-> "workspace_initialized", policy |-> name,
                      receipt |-> receipt, epoch |-> receipt.event_time, quarantine |-> {},
                      objects |-> {ledger_entry(contract, "contract", {}, NoPolicy),
                                   ledger_entry(registry, "unit-registry", {}, NoPolicy),
                                   ledger_entry(p, "trust-policy", {}, NoPolicy),
                                   ledger_entry(Digest(genesis), "genesis-policy-statement",
                                                {p}, name),
                                   ledger_entry(Digest(receipt), "trusted-time-receipt",
                                                {contract}, name)}]

initialize_workspace_v5(name, receipt) == Found(name, receipt) /\ UNCHANGED migrating

\* migrate_workspace_v5 founds the workspace, then adds the legacy files in a
\* second generation; the process may die between the two.
MigrateFound(name, receipt) == Found(name, receipt) /\ migrating' = TRUE

MigrateLegacy(files) ==
    LET new == {[ledger_entry(<<"legacy", f>>, "legacy-manifest", {}, NoPolicy)
                    EXCEPT !.lifecycle = "quarantined"] : f \in files}
    IN /\ migrating
       /\ migrating' = FALSE
       /\ current.number = 1
       /\ current' = [Successor(current, "legacy_migrated", {}, new)
                         EXCEPT !.quarantine = @ \cup Digests(new)]

\* Killed, or another command committed in between.
MigrateFails == migrating /\ migrating' = FALSE /\ UNCHANGED current

import_raw_v5(r) ==
    /\ Commit("object_imported", {},
              {ledger_entry(<<"raw", r>>, "raw-artifact", {}, NoPolicy)})
    /\ UNCHANGED migrating

_validate_attestation(g, s) ==
    /\ verify_statement(s, Policies[g.policy], g.epoch)
    /\ s.schema = "principal-attestation"
    /\ s.source \in Digests(g.objects)
    /\ s.reproducible
    /\ s.valid_from <= g.epoch /\ g.epoch <= s.valid_until
    /\ s.active

\* Mutant: the signature is all that is checked.
ImportUnchecked(s) ==
    /\ TimeKnown
    /\ verify_statement(s, policy, current.epoch)
    /\ Commit("object_imported", {},
              {SignedEntry(current, s, "principal-attestation", {s.source})})
    /\ UNCHANGED migrating

import_attestation_v5(s) ==
    /\ TimeKnown
    /\ _validate_attestation(current, s)
    /\ Commit("object_imported", {},
              {SignedEntry(current, s, "principal-attestation", {s.source})})
    /\ UNCHANGED migrating

SIGNED_IMPORT_KINDS ==
    [s \in {"dataset-record", "analysis-executable-record", "typed-flow-profile",
            "evidence-tier", "adapter-capability", "execution-policy"} |->
        CASE s = "typed-flow-profile" -> "scientific-witness"
          [] s = "evidence-tier" -> "acceleration-evidence"
          [] OTHER -> s]

\* The signed object names digests in its payload: those in the ledger are
\* its sources.  A flow profile also enters the ledger bare.
import_signed_object_v5(s) ==
    LET sources == s.names \cap Digests(current.objects)
    IN /\ TimeKnown
       /\ s.schema \in DOMAIN SIGNED_IMPORT_KINDS
       /\ verify_statement(s, policy, current.epoch)
       /\ s.schema \in {"dataset-record", "analysis-executable-record"} => sources # {}
       /\ Commit("object_imported", {},
                 {SignedEntry(current, s, SIGNED_IMPORT_KINDS[s.schema], sources)}
                 \cup IF s.schema = "typed-flow-profile"
                      THEN {ledger_entry(<<"profile", s.payload>>, "typed-flow-profile",
                                         {Digest(s)}, current.policy)}
                      ELSE {})
       /\ UNCHANGED migrating

\* Both the time and the serial number must grow.
Monotonic(receipt) ==
    /\ receipt.event_time > current.receipt.event_time
    /\ receipt.serial > current.receipt.serial

advance_time_v5(receipt) ==
    /\ TimeKnown
    /\ verify_time_receipt(receipt, policy)
    /\ receipt.subject = GenerationId(current)
    /\ Monotonic(receipt)
    /\ Room
    /\ LET new == {SignedEntry(current, receipt, "trusted-time-receipt", {})}
       IN /\ Accepts(current, new)
          /\ current' = [Successor(current, "time_advanced", {}, new)
                            EXCEPT !.receipt = receipt, !.epoch = receipt.event_time]
    /\ UNCHANGED migrating

\* The three statements of a trust-update quorum, by the key signing for each role.
Quorum(signers, name, at) ==
    {[schema |-> "trust-quorum-decision", role |-> role, key |-> signers[role], signed |-> at,
      sound |-> TRUE,
      payload |-> [decision |-> "trust_update", subject |-> name, sequence |-> policy.seq]]
     : role \in QUORUM_ROLES["trust_update"]}

\* The successor policy is judged under the old one, at the time of the new receipt.
update_trust_policy_v5(name, receipt, signers) ==
    LET S == Quorum(signers, name, receipt.event_time)
        p == PolicyDigest(name)
    IN /\ TimeKnown
       /\ validate_policy(Policies[name])
       /\ Policies[name].seq = policy.seq + 1
       /\ Policies[name].previous = current.policy
       /\ verify_time_receipt(receipt, policy)
       /\ receipt.subject = p
       /\ verify_role_quorum(S, policy, "trust_update", receipt.event_time, name)
       /\ Room
       /\ LET new == {ledger_entry(p, "trust-policy", {Digest(s) : s \in S}, NoPolicy),
                      SignedEntry(current, receipt, "trusted-time-receipt", {p})}
                     \cup {SignedEntry(current, s, "trust-quorum-decision",
                                       {p, Digest(receipt)}) : s \in S}
          IN /\ Accepts(current, new)
             /\ current' = [Successor(current, "trust_updated",
                                      {PolicyDigest(current.policy)}, new)
                               EXCEPT !.policy = name, !.receipt = receipt,
                                      !.epoch = receipt.event_time]
       /\ UNCHANGED migrating

-----------------------------------------------------------------------------
\* The entries whose statements _current_time and active_attestations_v5 accept.
active_attestations_v5(g) ==
    IF _current_time(g)
    THEN {s \in {e.digest[2] : e \in {e \in g.objects : e.kind = "principal-attestation"}} :
              _validate_attestation(g, s)}
    ELSE {}

\* Kinds whose objects carry an identifier their author chose.  Receipts and pending
\* projections are looked at too, but theirs are made from digests and do not repeat.
primary_fields ==
    {"principal-attestation", "coordination-session", "measurement-protocol",
     "protocol-amendment", "dataset-record", "analysis-executable-record",
     "trial-result-certificate", "projection-approval"}

\* The errors of a full doctor_v5, each with the digest it is about.  Withdrawn
\* entries are audited like the others.
doctor_v5(g) ==
    {<<"signed_ledger_object_invalid", e.digest>> : e \in {e \in g.objects :
        /\ e.kind \in KIND_SCHEMAS
        /\ _current_time(g)
        /\ ~verify_statement(e.digest[2], Policies[e.policy], g.epoch)}}
    \cup {<<"duplicate_semantic_identifier", e.digest>> : e \in {e \in g.objects :
        /\ e.kind \in primary_fields
        /\ \E f \in g.objects \ {e} : f.kind = e.kind /\ f.digest[2].id = e.digest[2].id}}
    \cup {<<"ledger_source_reference_missing", e.digest>> : e \in {e \in g.objects :
        ~(e.sources \subseteq Digests(g.objects))}}
    \cup {<<"attestation_source_chain_incomplete", e.digest>> : e \in {e \in g.objects :
        e.kind = "principal-attestation" /\ e.digest[2].source \notin e.sources}}
    \cup {<<"typed_flow_signed_projection_mismatch", e.digest>> : e \in {e \in g.objects :
        /\ e.kind = "typed-flow-profile"
        /\ ~\E d \in e.sources :
               d[1] = "typed-flow-profile" /\ d[2].payload = e.digest[2]}}
    \cup {<<"receipt_source_chain_incomplete", e.digest>> : e \in {e \in g.objects :
        /\ e.kind = "action-receipt"
        /\ ~(({e.digest[2].raw} \cup e.digest[2].pending) \subseteq e.sources)}}
    \cup {<<"authoritative_time_receipt_missing_or_invalid", Digest(g.receipt)>> : x \in
        IF _current_time(g) THEN {} ELSE {0}}
    \cup {<<"attestation_not_source_backed", e.digest>> : e \in {e \in g.objects :
        e.kind = "principal-attestation" /\ e.digest[2] \notin active_attestations_v5(g)}}
    \cup {<<"quarantine_reference_missing", d>> : d \in g.quarantine \ Digests(g.objects)}

execution_allowed(g) == doctor_v5(g) = {} /\ _current_time(g) /\ g.quarantine = {}
=============================================================================
