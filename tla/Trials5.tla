------------------------------ MODULE Trials5 -------------------------------
(***************************************************************************)
(* Registered measurement protocols, their amendments and results in the   *)
(* local v0.5 workspace (trials_v5.py).  One primary outcome, to increase, *)
(* and one quality floor stand for the bundles of outcomes and floors.     *)
(***************************************************************************)
EXTENDS Workspace5

CONSTANTS
    Protocol,   \* signed measurement-protocol statements
    Amendment,  \* signed protocol-amendment statements
    Result      \* signed trial-result-certificate statements

ASSUME TrialTimesAssumption ==
    \A s \in Protocol \cup Amendment \cup Result : s.signed \in Int

NoDigest == <<"none", 0>>

TIER_BY_DESIGN == {"randomized", "quasi_experimental", "observational", "descriptive"}

Registration(key, protocol, receipt) ==
    [schema |-> "registration-receipt", role |-> "registration", key |-> key,
     signed |-> receipt.event_time, sound |-> TRUE, protocol |-> Digest(protocol),
     receipt |-> Digest(receipt), registered_at |-> receipt.event_time]

\* Author, registrar and time service are three principals, and the receipt of the
\* protocol is older than its time zero.
_verify_protocol_bundle(protocol, registration, receipt) ==
    /\ \A s \in {protocol, registration} : verify_statement(s, policy, receipt.event_time)
    /\ Expect(protocol, "measurement-protocol", "protocol_author")
    /\ Expect(registration, "registration-receipt", "registration")
    /\ verify_time_receipt(receipt, policy)
    /\ receipt.subject = Digest(protocol)
    /\ Disjoint({protocol, registration, receipt}, policy)
    /\ registration.protocol = Digest(protocol)
    /\ registration.receipt = Digest(receipt)
    /\ registration.registered_at = receipt.event_time
    /\ registration.key = protocol.registration_key
    /\ protocol.evaluator_key # protocol.key
    /\ receipt.event_time < protocol.time_zero
    /\ protocol.time_zero < protocol.observation_end

import_protocol_v5(protocol, key, receipt) ==
    LET registration == Registration(key, protocol, receipt)
        d == Digest(protocol)
        all == {SignedEntry(current, receipt, "trusted-time-receipt", {d}),
                SignedEntry(current, registration, "registration-receipt",
                            {d, Digest(receipt)}),
                SignedEntry(current, protocol, "measurement-protocol",
                            {Digest(registration), Digest(receipt)})}
    IN /\ Founded
       /\ _verify_protocol_bundle(protocol, registration, receipt)
       /\ d \notin Digests(current.objects)
       /\ Commit("protocol_imported", {},
                 {e \in all : e.digest \notin Digests(current.objects)})
       /\ UNCHANGED migrating

_objects(g, kind) == {e.digest[2] : e \in Active(g, kind)}

\* The amendment states when it takes effect; that time is compared with time zero.
import_amendment_v5(amendment, receipt) ==
    /\ Founded
    /\ verify_time_receipt(receipt, policy)
    /\ receipt.subject = Digest(amendment)
    /\ verify_statement(amendment, policy, receipt.event_time)
    /\ Expect(amendment, "protocol-amendment", "protocol_author")
    /\ \E p \in _objects(current, "measurement-protocol") :
           amendment.protocol = Digest(p) /\ amendment.effective_at < p.time_zero
    /\ \/ amendment.previous = NoDigest
       \/ \E a \in _objects(current, "protocol-amendment") : amendment.previous = Digest(a)
    /\ Commit("amendment_imported", {},
              {SignedEntry(current, receipt, "trusted-time-receipt", {Digest(amendment)}),
               SignedEntry(current, amendment, "protocol-amendment",
                           {amendment.protocol, Digest(receipt)}
                           \cup ({amendment.previous} \ {NoDigest}))})
    /\ UNCHANGED migrating

Amendments(g, protocol) ==
    {a \in _objects(g, "protocol-amendment") : a.protocol = protocol}

\* With two protocols of one identifier the newer one answers for both.
Bound5(g, id) ==
    LET S == {e \in Active(g, "measurement-protocol") : e.digest[2].id = id}
    IN {e.digest[2] : e \in {e \in S : \A f \in S : f.since <= e.since}}

_validate_result(g, r) ==
    /\ verify_statement(r, Policies[g.policy], g.epoch)
    /\ Expect(r, "trial-result-certificate", "evaluator")
    /\ \E p \in Bound5(g, r.protocol_id) :
           /\ r.protocol = Digest(p)
           /\ r.id = p.primary
           /\ r.key = p.evaluator_key
           /\ r.dataset = p.dataset
           /\ r.executable = p.executable
           /\ p.time_zero <= r.started /\ r.ended <= p.observation_end
    /\ r.dataset \in Digests(Active(g, "dataset-record"))
    /\ r.executable \in Digests(Active(g, "analysis-executable-record"))
    /\ r.started < r.ended /\ r.ended <= r.completed
    /\ r.completed <= r.signed /\ r.signed <= g.epoch
    /\ r.lower <= r.upper
    /\ r.chain = Amendments(g, r.protocol)

Unreported(r) ==
    \A s \in _objects(current, "trial-result-certificate") : s.protocol_id # r.protocol_id

import_result_v5(r) ==
    /\ Founded
    /\ _validate_result(current, r)
    /\ Unreported(r)
    /\ Commit("trial_result_imported", {},
              {SignedEntry(current, r, "trial-result-certificate",
                           {r.protocol, r.dataset, r.executable})})
    /\ UNCHANGED migrating

_floors_preserved(p, r) == r.quality >= p.floor

\* Mutant: evidence about any result is taken.
VouchedSomewhere(g, r) ==
    \E s \in _objects(g, "acceleration-evidence") :
        s.preserved /\ verify_statement(s, Policies[g.policy], g.epoch)

\* A randomized result counts only with the one statement of a quality and safety
\* verifier about it, disjoint from evaluator and time service.
Vouched(g, r) ==
    LET matching == {s \in _objects(g, "acceleration-evidence") :
                        s.result = Digest(r) /\ s.preserved}
    IN /\ Cardinality(matching) = 1
       /\ \A s \in matching :
              /\ verify_statement(s, Policies[g.policy], g.epoch)
              /\ Expect(s, "evidence-tier", "quality_safety_verifier")
              /\ Disjoint({r, s, g.receipt}, Policies[g.policy])

acceleration_status_v5(g) ==
    LET results == _objects(g, "trial-result-certificate")
        Contradicts(r) ==
            \/ ~_validate_result(g, r)
            \/ \E p \in Bound5(g, r.protocol_id) : ~_floors_preserved(p, r)
        Compatible(r) ==
            \E p \in Bound5(g, r.protocol_id) :
                r.lower >= p.minimum /\ p.tier = "randomized" /\ Vouched(g, r)
    IN CASE _objects(g, "measurement-protocol") = {} -> "unmeasured"
         [] _objects(g, "measurement-protocol") # {} /\ results = {} ->
                "registered_not_observed"
         [] results # {} /\ (\E r \in results : Contradicts(r)) ->
                "external_quality_or_safety_contradiction"
         [] results # {} /\ (\A r \in results : ~Contradicts(r))
                /\ (\E r \in results : Compatible(r)) ->
                "external_acceleration_bundle_compatible"
         [] OTHER -> "externally_observed_inconclusive"
=============================================================================
