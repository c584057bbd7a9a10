-------------------------- MODULE LocalWorkspace5 ---------------------------
(***************************************************************************)
(* The commands of the local v0.5 workspace together, and what must hold   *)
(* of the workspace they share.                                            *)
(***************************************************************************)
EXTENDS Inspect5

CONSTANTS
    Legacy,     \* files of an older workspace
    Signers     \* who signs a trust update, by role

vars == <<current, migrating, runs, launched>>

Init == Init5 /\ InitExecution

Receipts(subject) == {Receipt(k, t, n, subject) : k \in Clock, t \in Time, n \in Serial}

Founding ==
    \E name \in Genesis, receipt \in Receipts(contract) :
        \/ initialize_workspace_v5(name, receipt)
        \/ MigrateFound(name, receipt)

Importing ==
    \/ \E r \in Raw : import_raw_v5(r)
    \/ \E s \in Attestation : import_attestation_v5(s)
    \/ \E s \in SignedObject : import_signed_object_v5(s)

Advancing ==
    \E receipt \in Receipts(GenerationId(current)) : advance_time_v5(receipt)

Updating ==
    \E name \in DOMAIN Policies :
        \E receipt \in Receipts(PolicyDigest(name)),
           signers \in Signers :
               update_trust_policy_v5(name, receipt, signers)

Migrating == MigrateLegacy(Legacy) \/ MigrateFails

Running ==
    \E p \in Process :
        \/ \E a \in (IF Founded THEN Plannable(current) ELSE {}) : PlanAction(p, a)
        \/ LaunchAdapter(p)
        \/ \E x \in Output : AdapterEnds(p, x)
        \/ RecordRun(p)
        \/ RunAbandoned(p)

Approving ==
    \E key \in Key : \E entry \in (IF Founded THEN pending_projections_v5(current) ELSE {}) :
        approve_projection_v5(entry, key)

Coordinating ==
    \/ \E plan \in Plan : coordination_init_v5(plan)
    \/ \E id \in {plan.id : plan \in Plan} :
           \/ \E key \in Key, o \in Opening : coordination_commit_v5(id, key, o)
           \/ \E key \in Key, o \in Opening : coordination_reveal_v5(id, key, o)
           \/ \E capacity \in BOOLEAN : coordination_route_v5(id, capacity)
           \/ \E reason \in {"all_verified", "cancelled"} :
                  coordination_terminate_v5(id, reason)

Measuring ==
    \/ \E protocol \in Protocol, key \in Key :
           \E receipt \in Receipts(Digest(protocol)) :
               import_protocol_v5(protocol, key, receipt)
    \/ \E amendment \in Amendment :
           \E receipt \in Receipts(Digest(amendment)) : import_amendment_v5(amendment, receipt)
    \/ \E r \in Result : import_result_v5(r)

Next ==
    \/ (Founding \/ Importing \/ Advancing \/ Updating \/ Migrating
            \/ Coordinating \/ Measuring) /\ UNCHANGED <<runs, launched>>
    \/ Running
    \/ Approving

Spec == Init /\ [][Next]_vars

-----------------------------------------------------------------------------
Objects(kind) == {e \in current.objects : e.kind = kind}

\* The errors of doctor_v5 are such as time brings: it never misses a source, and a
\* signature it rejects is one whose key has expired by now, or that is ahead of a time
\* that went back.  An attestation it rejects has expired, is judged by a newer policy than
\* it was imported under, or was promoted from an adapter's output.
ErrorsExplained(errors) ==
    \A x \in errors : \E e \in current.objects :
        /\ e.digest = x[2]
        /\ \/ x[1] = "signed_ledger_object_invalid"
                  /\ LET until == Policies[e.policy].principals[e.digest[2].key].not_after
                     IN current.epoch > until \/ current.epoch < e.digest[2].signed
           \/ x[1] = "duplicate_semantic_identifier"
           \/ x[1] = "authoritative_time_receipt_missing_or_invalid"
                  /\ current.event # "time_advanced" /\ current.number > 1
           \/ x[1] = "attestation_not_source_backed"
                  /\ \/ e.policy # current.policy
                     \/ \E d \in e.sources : d[1] = "pending"
                     \/ ~_validate_attestation([current EXCEPT !.policy = e.policy], e.digest[2])
                            /\ \E f \in Objects("trusted-time-receipt") : f.since > e.since

\* What is recorded as signed was valid when it was signed.
SignedThen ==
    \A e \in current.objects :
        e.kind \in KIND_SCHEMAS => inspect_signed_object_v5(e.digest[2], e.policy)

\* doctor_v5 audits what the commands let in: its errors are such as time brings, what was
\* signed still passes inspect_signed_object_v5 though doctor may reject it by now, and
\* whatever keeps the workspace from running an adapter has an entry among its repairs.
DoctorExplained ==
    Founded =>
        /\ SignedThen
        /\ \A errors \in {doctor_v5(current)} :
               /\ ErrorsExplained(errors)
               /\ errors = {} /\ current.quarantine = {} => _current_time(current)

\* Whatever is recorded, one policy is in force; it descends from the founding policy one
\* sequence number at a time, each successor decided by three disjoint principals of its
\* predecessor.
PolicyChain ==
    Founded =>
        /\ {e.digest : e \in Active(current, "trust-policy")} = {PolicyDigest(current.policy)}
        /\ \A e \in Objects("trust-policy") :
               LET p == Policies[e.digest[2]]
                   decided == {f.digest[2] : f \in {f \in Objects("trust-quorum-decision") :
                                                       f.digest \in e.sources}}
               IN e.since > 1 =>
                   /\ \E f \in Objects("trust-policy") :
                          /\ f.digest = PolicyDigest(p.previous)
                          /\ f.since < e.since /\ f.lifecycle = "withdrawn"
                          /\ p.seq = Policies[p.previous].seq + 1
                   /\ Cardinality({s.key : s \in decided}) = 3
                   /\ Disjoint(decided, Policies[p.previous])

\* A policy under which the current time receipt does not verify is never left: the time
\* can no longer be advanced nor the policy replaced, and what is imported with a check
\* against the trusted time is refused.  Nor does anything leave the quarantine, whatever
\* the repairs propose: a workspace with one quarantined object runs no adapter again.
LockOutIsFinal ==
    [][Founded =>
          /\ current.quarantine \subseteq current'.quarantine
          /\ ~_current_time(current) =>
                /\ ~_current_time(current')
                /\ {e \in current'.objects : e.kind \in {"principal-attestation", "scientific-witness"}
                        /\ \A d \in e.sources : d[1] # "pending"} \subseteq current.objects]_vars

\* However many processes run adapters on a generation, at most one of the runs is
\* recorded, in the very next generation, and it was launched on that one, where action
\* and capability were attested by two principals.
RecordedOnce ==
    \A e \in Objects("action-receipt") :
        LET receipt == e.digest[2]
        IN /\ e.since = receipt.before + 1
           /\ \E p \in Process : <<p, receipt.before>> \in launched
           /\ \A d \in receipt.pending : d[2].capability \in Digests(current.objects)
           /\ \A f \in Objects("action-receipt") \ {e} : f.digest[2].before # receipt.before

\* The approvals an object was promoted on.  An attestation may name any object as its
\* source, but only a promoted object has an approval and what it approves among them.
PromotedOn(e) ==
    {a \in Objects("projection-approval") :
        /\ e.kind \in {"promoted-projection", "principal-attestation"}
        /\ a.digest \in e.sources /\ a.digest[2].projection \in e.sources}

\* A promoted object comes from one pending projection, which is spent by it, after a
\* verifier who is not the author of the capability approved it.
PromotedOnce ==
    /\ \A e \in Objects("promoted-projection") : PromotedOn(e) # {}
    /\ \A e \in current.objects : \A a \in PromotedOn(e) :
           LET d == a.digest[2].projection
           IN /\ \E f \in Objects("pending-projection") :
                     f.digest = d /\ f.lifecycle = "withdrawn"
              /\ a.digest[2].key # d[2].capability[2].key
              /\ d[2].projected = e.digest
              /\ \A f \in current.objects \ {e} : \A b \in PromotedOn(f) :
                     b.digest[2].projection # d

\* From start to end a run counts once: of the runs that race on one generation one is
\* recorded (run_action_v5 compares CURRENT before it commits), and what it projected is
\* promoted once, by a second party (approve_projection_v5).
RunsCountOnce == Founded => RecordedOnce /\ PromotedOnce

\* Nobody reveals before everybody has committed, a reveal opens the commitment of the
\* same participant, and nothing is verified or integrated before everybody has revealed.
RevealsAfterCommits ==
    Founded => \A e \in Objects("coordination-session") :
        LET session == e.digest[2]
            all == session.participants
        IN /\ session.reveals # {} => Participants(session.commitments) = all
           /\ \A r \in session.reveals : \E c \in session.commitments :
                  c.participant = r.participant /\ c.opening = r.opening
           /\ session.state \in {"VERIFY", "INTEGRATE"} => Participants(session.reveals) = all
           /\ session.reason = "all_verified" =>
                  session.capacity /\ Participants(session.reveals) = all

\* The verdict that the result is compatible with acceleration is backed by a randomized,
\* registered protocol, all its amendments and a preserved floor; the author of the protocol
\* neither registered nor evaluated it, and evaluator, quality verifier and time service are
\* three principals.
CompatibleEarned ==
    Founded /\ acceleration_status_v5(current) = "external_acceleration_bundle_compatible" =>
        \E r \in _objects(current, "trial-result-certificate"),
           s \in _objects(current, "acceleration-evidence") :
               LET p == r.protocol[2]
               IN /\ s.result = Digest(r)
                  /\ p.tier = "randomized" /\ r.lower >= p.minimum /\ r.quality >= p.floor
                  /\ r.chain = Amendments(current, Digest(p))
                  /\ p.key \notin {p.registration_key, r.key}
                  /\ Cardinality({r.key, s.key, current.receipt.key}) = 3
=============================================================================
