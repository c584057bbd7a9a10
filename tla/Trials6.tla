------------------------------- MODULE Trials6 -------------------------------
(***************************************************************************)
(* The assessment of one registered trial, assess_trial of v6/trials.py,   *)
(* over the authoritative documents of a workspace as they accumulate.     *)
(* The digest of a document is a number, 0 being none; effects and         *)
(* thresholds are integers.                                                *)
(***************************************************************************)
EXTENDS Integers, Sequences, FiniteSets

CONSTANTS
    Trial6,         \* the measurement protocol
    TrialDocument   \* artifact records, decisions, amendments and results

VARIABLE trial_objects  \* the authoritative documents

Outcomes == DOMAIN Trial6.outcomes

protocol_integrity(p) ==
    /\ p.author # p.registrar /\ p.evaluator # p.quality_verifier
    /\ p.observation_complete_at > p.time_zero

result_integrity(r) == r.issued_at > r.observation_completed_at

artifact_record_time_order(a) == a.recorded_at >= a.committed_at

\* Documents are validated when they are read; times and thresholds are numbers, and a
\* digest names one document.
ASSUME TrialAssumption ==
    /\ protocol_integrity(Trial6)
    /\ Trial6.time_zero \in Int
    /\ \A o \in Outcomes : Trial6.outcomes[o].floor \in Int
    /\ \A d \in TrialDocument :
           /\ d.kind = "trial-result" =>
                  /\ result_integrity(d) /\ d.issued_at \in Int
                  /\ \A o \in DOMAIN d.effects : d.effects[o].quality \in Int
           /\ d.kind = "trial-artifact-record" => artifact_record_time_order(d)
           /\ d.kind = "quorum-decision" => d.decided_at \in Int
           /\ d.kind = "protocol-amendment" =>
                  /\ d.sequence \in Nat /\ d.id \in Nat /\ d.amended_at \in Int
                  /\ \A e \in TrialDocument :
                         e.kind = "protocol-amendment" /\ e.id = d.id => e = d

TIER_ORDER ==
    [unmeasured |-> 0, descriptive |-> 1, observational |-> 2, quasi_experimental |-> 3,
     randomized |-> 4]

OfKind(O, kind) == {d \in O : d.kind = kind}

_decisions(O, type, subject) ==
    {d \in OfKind(O, "quorum-decision") : d.type = type /\ d.subject = subject}

\* The record of one type the protocol names, when it is there.
_artifact(O, type) ==
    {a \in OfKind(O, "trial-artifact-record") : a.id = Trial6.records[type] /\ a.type = type}

ArtifactBlocked(O) ==
    \E type \in DOMAIN Trial6.records :
        \A a \in _artifact(O, type) : a.protocol # Trial6.name \/ ~a.signed \/ ~a.stored

ArtifactLate(O) ==
    \E type \in DOMAIN Trial6.records : \E a \in _artifact(O, type) :
        a.committed_at >= Trial6.time_zero

Registrations(O) == _decisions(O, "protocol_registration", Trial6.id)

RegisteredLate(O) ==
    /\ Cardinality(Registrations(O)) = 1
    /\ \E d \in Registrations(O) : d.decided_at >= Trial6.time_zero

Amendments6(O) == {a \in OfKind(O, "protocol-amendment") : a.protocol = Trial6.id}

\* The place of an amendment in the order of sequence numbers, then digests.
Place(O, a) ==
    Cardinality({b \in Amendments6(O) :
                    \/ b.sequence < a.sequence
                    \/ b.sequence = a.sequence /\ b.id <= a.id})

Before(O, a) == {b \in Amendments6(O) : Place(O, b) = Place(O, a) - 1}

\* The chain of amendments has a fork, a gap or a link to something else.
AmendmentsTangled(O) ==
    \E a \in Amendments6(O) :
        \/ a.sequence # Place(O, a)
        \/ a.prior # (IF Place(O, a) = 1 THEN 0 ELSE (CHOOSE b \in Before(O, a) : TRUE).id)

AmendmentForked(O) ==
    \E a, b \in Amendments6(O) : a # b /\ a.sequence = b.sequence

AmendedLate(O) ==
    \E a \in Amendments6(O) :
        LET decisions == _decisions(O, "protocol_amendment", a.id)
        IN \/ a.amended_at >= Trial6.time_zero
           \/ /\ Cardinality(decisions) = 1
              /\ \E d \in decisions :
                     d.decided_at < a.amended_at \/ d.decided_at >= Trial6.time_zero

AmendmentBlocked(O) ==
    \E a \in Amendments6(O) :
        Cardinality(_decisions(O, "protocol_amendment", a.id)) # 1 \/ ~a.signed

Results6(O) == {r \in OfKind(O, "trial-result") : r.protocol = Trial6.id}

Primary(O) == {r \in Results6(O) : r.name = Trial6.primary}

ResultBlocked(O, r) ==
    \/ r.evaluator # Trial6.evaluator \/ r.quality_verifier # Trial6.quality_verifier
    \/ ~r.signed
    \/ Cardinality(_decisions(O, "acceleration_compatibility", r.id)) # 1
    \/ r.records # Trial6.records

ResultDeviates(O, r) ==
    LET decisions == _decisions(O, "acceleration_compatibility", r.id)
    IN \/ Cardinality(decisions) = 1 /\ \E d \in decisions : d.decided_at < r.issued_at
       \/ r.issued_at <= r.observation_completed_at
       \/ r.observation_completed_at < Trial6.observation_complete_at
       \/ DOMAIN r.effects # Outcomes
       \/ \E o \in Outcomes \cap DOMAIN r.effects : r.effects[o].lower > r.effects[o].upper

BelowFloor(r) ==
    \E o \in Outcomes \cap DOMAIN r.effects : r.effects[o].quality < Trial6.outcomes[o].floor

Favorable(r) ==
    /\ r.name = Trial6.primary
    /\ \A o \in Outcomes :
           /\ o \in DOMAIN r.effects
           /\ r.effects[o].lower <= r.effects[o].upper
           /\ IF Trial6.outcomes[o].direction = "higher"
              THEN r.effects[o].lower >= Trial6.outcomes[o].minimum
              ELSE r.effects[o].upper <= Trial6.outcomes[o].minimum

\* The contradictions a later document may still resolve, and the others.
Deviation(O) ==
    \/ ArtifactLate(O) \/ RegisteredLate(O) \/ AmendedLate(O) \/ AmendmentForked(O)
    \/ Primary(O) # Results6(O) \/ Cardinality(Primary(O)) > 1
    \/ \E r \in Results6(O) : ResultDeviates(O, r)

Contradicted(O) ==
    \/ Deviation(O) \/ AmendmentsTangled(O)
    \/ Results6(O) # {} /\ Primary(O) = {}
    \/ \E r \in Results6(O) : BelowFloor(r)

Blocked(O) ==
    \/ ~Trial6.signed
    \/ ArtifactBlocked(O)
    \/ Cardinality(Registrations(O)) # 1
    \/ AmendmentBlocked(O)
    \/ \E r \in Results6(O) : ResultBlocked(O, r)

\* The strongest design of a favourable result.
Tier(O) ==
    LET designs == {r.design : r \in {x \in Results6(O) : Favorable(x)}} \cup {"unmeasured"}
    IN CHOOSE t \in designs : \A u \in designs : TIER_ORDER[u] <= TIER_ORDER[t]

\* Mutant: blockers do not matter once a result is favourable.
assess_lenient(O) ==
    CASE Results6(O) = {} -> IF Blocked(O) THEN "unmeasured" ELSE "registered_not_observed"
      [] Results6(O) # {} /\ Contradicted(O) ->
             IF \E r \in Results6(O) : BelowFloor(r)
             THEN "external_quality_or_safety_contradiction" ELSE "protocol_deviation"
      [] OTHER -> IF Tier(O) = "unmeasured" THEN "externally_observed_inconclusive" ELSE Tier(O)

assess_trial(O) ==
    CASE Results6(O) = {} -> IF Blocked(O) THEN "unmeasured" ELSE "registered_not_observed"
      [] Results6(O) # {} /\ Contradicted(O) ->
             IF \E r \in Results6(O) : BelowFloor(r)
             THEN "external_quality_or_safety_contradiction" ELSE "protocol_deviation"
      [] OTHER ->
             IF Blocked(O) \/ Tier(O) = "unmeasured"
             THEN "externally_observed_inconclusive" ELSE Tier(O)

TrialInit == trial_objects = {}

\* A document becomes authoritative.
AdmitDocument(d) ==
    /\ d \notin trial_objects
    /\ trial_objects' = trial_objects \cup {d}

TrialNext == \E d \in TrialDocument : AdmitDocument(d)

TrialSpec == TrialInit /\ [][TrialNext]_trial_objects

-----------------------------------------------------------------------------
\* A trial is reported as compatible with acceleration only if everything it rests on was
\* fixed beforehand: one registration and all amendments before time zero, each decided
\* once; one result, of the registered evaluator, on the registered data, issued after
\* the observation ended and decided after that, and no outcome below its floor.
CompatibleWasRegistered ==
    assess_trial(trial_objects) \in DOMAIN TIER_ORDER \ {"unmeasured"} =>
        /\ \E d \in trial_objects :
               /\ d.kind = "quorum-decision" /\ d.type = "protocol_registration"
               /\ d.subject = Trial6.id /\ d.decided_at < Trial6.time_zero
               /\ \A e \in trial_objects :
                      e.kind = "quorum-decision" /\ e.type = d.type /\ e.subject = d.subject => e = d
        /\ \E r \in trial_objects :
               /\ r.kind = "trial-result" /\ r.protocol = Trial6.id /\ r.name = Trial6.primary
               /\ r.evaluator = Trial6.evaluator /\ r.records = Trial6.records
               /\ \A s \in trial_objects :
                      s.kind = "trial-result" /\ s.protocol = Trial6.id => s = r
               /\ \A o \in DOMAIN Trial6.outcomes : r.effects[o].quality >= Trial6.outcomes[o].floor
               /\ \E d \in trial_objects :
                      d.kind = "quorum-decision" /\ d.subject = r.id /\ d.decided_at >= r.issued_at
        /\ \A a \in trial_objects : a.kind = "protocol-amendment" /\ a.protocol = Trial6.id =>
               /\ a.amended_at < Trial6.time_zero
               /\ a.sequence > 1 => \E b \in trial_objects :
                      b.kind = "protocol-amendment" /\ b.id = a.prior /\ b.sequence = a.sequence - 1
=============================================================================
