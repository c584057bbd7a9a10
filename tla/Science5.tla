------------------------------- MODULE Science5 -------------------------------
(***************************************************************************)
(* The scientific audit of the local v0.5 workspace (science_v5.py) and    *)
(* its cut sets (structural_v5.py).  What is audited is a record           *)
(*   contract, policy, epoch, doctor, rejected, registry,                  *)
(*   objects : entries [digest, kind, active, key, value] of the manifest, *)
(*   statements : attestations [digest, source, kind, subject, key, ...]   *)
(* Digests are names, and rationals are whole numbers.                     *)
(***************************************************************************)
EXTENDS Integers, SequencesExt, FiniteSetsExt

MANDATORY_DIMENSIONS ==
    {"provenance_integrity", "trust_quorum", "temporal_integrity", "structural_reachability",
     "causal_formation", "dimensional_consistency", "exact_self_maintenance",
     "finite_horizon_resource_persistence", "target_bound_generative_catalysis",
     "verification_capacity", "effective_independence", "coordination_protocol_integrity",
     "perturbation_robustness"}

MAX_PERTURBATIONS == 256

_result(holds) == IF holds THEN "satisfied" ELSE "violated"
Kind(s, kind) == {d \in s.statements : d.kind = kind}
Evidence(s, type) == {d \in Kind(s, "evidence") : d.type = type}
Amount(f, x) == IF x \in DOMAIN f THEN f[x] ELSE 0

WitnessTypes == {"formation_sequence_witness", "organization_witness", "rate_feasibility_witness",
                 "siphon_coverage_witness", "typed_flow_profile"}
AnalysisKinds == {"analysis-snapshot", "scientific-witness", "typed-flow-profile", "perturbation-result"}

\* Everything in the workspace but the witnesses, which name it.
analysis_snapshot_digest_v5(s) ==
    LET witnesses == UNION {Evidence(s, t) : t \in WitnessTypes}
        digests == {d.digest : d \in witnesses}
    IN [contract |-> s.contract, policy |-> s.policy, epoch |-> s.epoch,
        ledger |-> {<<e.digest, e.kind, e.active>> : e \in {e \in s.objects :
                       e.kind \notin AnalysisKinds /\ e.digest \notin digests \cup {d.source : d \in witnesses}}},
        attestations |-> {d.digest : d \in s.statements} \ digests]

-----------------------------------------------------------------------------
(* Reachability.                                                           *)

Repeated(s) == \E d, e \in Kind(s, "transformation") : d # e /\ d.subject = e.subject

Available(s, kind) == {d.subject : d \in {d \in Kind(s, kind) : d.available}}

_network(s) ==
    [available |-> Available(s, "state") \cup {d.subject : d \in Kind(s, "authority") \cup Kind(s, "evidence")},
     transformations |-> [t \in {d.subject : d \in Kind(s, "transformation")} |->
                             CHOOSE d \in Kind(s, "transformation") : d.subject = t],
     catalysts |-> Available(s, "catalyst"), inhibitors |-> Available(s, "inhibitor")]

_enabled(edge, available, catalysts, inhibitors) ==
    /\ edge.inputs \cup edge.authority_refs \cup edge.evidence_refs \subseteq available
    /\ edge.inhibitors \cap inhibitors = {}
    /\ edge.uncatalyzed <=> edge.clauses = {}
    /\ \A clause \in edge.clauses : clause \cap catalysts # {}

\* Every round fires what adds something; a catalyst comes with a product that is new.
_closure(net) ==
    LET T == net.transformations
        Firing(at) == {t \in DOMAIN T : /\ _enabled(T[t], at.available, at.catalysts, net.inhibitors)
                                        /\ ~(T[t].outputs \subseteq at.available)}
        round[n \in 0..Cardinality(DOMAIN T)] ==
           IF n = 0 THEN [available |-> net.available, catalysts |-> net.catalysts, used |-> {}, growing |-> 0]
           ELSE LET at == round[n - 1]
                    F == Firing(at)
                IN [available |-> at.available \cup UNION {T[t].outputs : t \in F},
                    catalysts |-> at.catalysts \cup UNION {T[t].produced_catalysts : t \in F},
                    used |-> at.used \cup F, growing |-> at.growing + (IF F = {} THEN 0 ELSE 1)]
        last == round[Cardinality(DOMAIN T)]
    IN [available |-> last.available, used |-> last.used,
        layers |-> [x \in last.available |-> Min({n \in DOMAIN round : x \in round[n].available})],
        operations |-> (last.growing + 1) * Cardinality(DOMAIN T)]

-----------------------------------------------------------------------------
(* Organization and flows.                                                 *)

\* A witness that names a transformation the audit does not have raises a KeyError.
Unfounded(s, T) ==
    LET witnesses == Evidence(s, "organization_witness")
    IN Cardinality(witnesses) = 1 /\ \E w \in witnesses : ~(w.refs \subseteq DOMAIN T)

_organization(s, T, snapshot) ==
    LET witnesses == Evidence(s, "organization_witness")
        w == CHOOSE w \in witnesses : TRUE
        Balance(c) == MapThenSumSet(LAMBDA t : w.flux[t] * Amount(T[t].flows, c), w.refs)
    IN IF witnesses = {} THEN "unknown"
       ELSE _result(/\ Cardinality(witnesses) = 1
                    /\ w.snapshot = snapshot /\ w.refs # {}
                    /\ s.contract.targets \subseteq UNION {T[t].outputs : t \in w.refs}
                    /\ DOMAIN w.flux = w.refs /\ \A t \in w.refs : w.flux[t] > 0
                    /\ \A c \in UNION {DOMAIN T[t].flows : t \in w.refs} : Balance(c) >= 0)

\* What a step of the plan adds to a coordinate: its actions, and the supply of its duration.
FlowDelta(p, n, c) ==
    MapThenSumSet(LAMBDA t : p.counts[n][t] * Amount(p.transformations[t], c), DOMAIN p.counts[n])
    + Amount(p.supplies[n], c) * p.duration

Covered(p, siphon) ==
    \E c \in siphon.coordinates :
       CASE siphon.coverage = "initially_marked" -> c \in DOMAIN p.coordinates /\ p.coordinates[c].initial > 0
         [] siphon.coverage = "boundary_fed" -> \E n \in DOMAIN p.supplies : Amount(p.supplies[n], c) > 0
         [] siphon.coverage = "replenished" ->
               \E t \in DOMAIN p.transformations : Amount(p.transformations[t], c) > 0

\* The floors are kept after every step; whether they hold before the first is not asked.
validate_typed_flow_profile(p, registry, live, snapshot) ==
    /\ p.snapshot = snapshot /\ p.registry = registry
    /\ p.horizon = Len(p.counts) /\ p.horizon = Len(p.supplies)
    /\ p.duration > 0 /\ p.time_unit \in registry.units
    /\ \A c \in DOMAIN p.coordinates : p.coordinates[c].unit \in registry.units
    /\ \A n \in 1..p.horizon :
          /\ DOMAIN p.supplies[n] \subseteq DOMAIN p.coordinates
          /\ \A t \in DOMAIN p.counts[n] : /\ t \in DOMAIN p.transformations /\ p.counts[n][t] >= 0
                                           /\ DOMAIN p.transformations[t] \subseteq DOMAIN p.coordinates
    /\ \A c \in DOMAIN p.coordinates :
          LET marking[n \in 0..p.horizon] ==
                IF n = 0 THEN p.coordinates[c].initial ELSE marking[n - 1] + FlowDelta(p, n, c)
          IN \A n \in 1..p.horizon : marking[n] >= p.coordinates[c].protected_floor
    /\ \A siphon \in p.fed_siphons :
          siphon.source_refs # {} /\ siphon.source_refs \subseteq live /\ Covered(p, siphon)

TypedFlow(s, snapshot) ==
    LET profiles == {e.value : e \in {e \in s.objects : e.kind = "typed-flow-profile" /\ e.active}}
    IN IF profiles = {} THEN "unknown"
       ELSE _result(/\ Cardinality(profiles) = 1
                    /\ \A p \in profiles : validate_typed_flow_profile(
                           p, s.registry, {d.subject : d \in s.statements}, snapshot))

-----------------------------------------------------------------------------
(* Verifiers, independence, the quorum of a policy update, and sessions.   *)

\* Stages feed each other in the order of their names.
_verification(s) ==
    LET stages == SetToSortSeq(Kind(s, "verifier"), LAMBDA d, e : d.subject < e.subject)
        routed[n \in 0..Len(stages)] ==
           IF n = 0 THEN 0 ELSE Max({stages[n].arrival_upper, routed[n - 1]}) * stages[n].amplification
    IN IF stages = <<>> THEN "unknown"
       ELSE _result(\A n \in DOMAIN stages : LET d == stages[n] IN
               /\ d.source_record # d.subject_digest
               /\ d.source_record \in {x.subject_digest : x \in s.statements}
               /\ Max({d.arrival_upper, routed[n - 1]}) < d.service_lower
               /\ d.source_refs \subseteq {x.subject : x \in s.statements})

\* Groups that share a domain, directly or through others, are one component.
Merge(components, group) ==
    LET touching == {c \in components : c \cap group # {}}
    IN (components \ touching) \cup {group \cup UNION touching}

Components(records) == FoldSet(LAMBDA d, components : Merge(components, d.domains), {}, records)

NoObserver == <<>>

_independence(s, minimum) ==
    LET records == Kind(s, "independence")
        exposed == {d.artifact : d \in {d \in Kind(s, "exposure") : d.before_commitment}}
        effective == Max({0, Cardinality(Components(records)) - Cardinality(exposed)})
    IN IF effective >= minimum /\ \A d \in records : d.observer \notin {NoObserver, d.digest} /\ d.committed
       THEN "satisfied" ELSE IF records = {} THEN "unknown" ELSE "violated"

_quorum_feasible(policy) ==
    LET For(role) == {p \in policy : ~p.revoked /\ role \in p.roles}
        Apart(p, q) == p.principal # q.principal /\ p.key # q.key /\ p.infrastructure \cap q.infrastructure = {}
    IN _result(\E root \in For("workspace_root"), auditor \in For("trust_auditor"), timestamp \in For("timestamp") :
                  Apart(root, auditor) /\ Apart(root, timestamp) /\ Apart(auditor, timestamp))

_coordination(s) ==
    LET sessions == {e.value : e \in {e \in s.objects : e.kind = "coordination-session" /\ e.active}}
    IN IF sessions = {} THEN "unknown"
       ELSE _result(\A x \in sessions : x.state = "TERMINATED" /\ x.capacity_satisfied /\ x.commitments = x.reveals)

-----------------------------------------------------------------------------
(* The profile.                                                            *)

Unjudged == [d \in MANDATORY_DIMENSIONS |-> "unknown"]

Exceeded(s) == _closure(_network(s)).operations > s.contract.operations

\* No profile: two transformations of one name leave a variable unbound, which nothing catches;
\* a witness of a transformation that is not there fails the audit.
Raises(s) == Repeated(s) \/ (~Exceeded(s) /\ Unfounded(s, _network(s).transformations))

\* What does not take the structure.
Trust5(s) ==
    [Unjudged EXCEPT
        !["provenance_integrity"] = _result(s.doctor /\ s.rejected = {}),
        !["trust_quorum"] = _quorum_feasible(s.policy),
        !["temporal_integrity"] = IF s.epoch THEN "satisfied" ELSE "unknown"]

Profile5(s, T, formed, flow) ==
    LET reached == s.contract.targets \subseteq formed.available
        Layer(x) == Amount(formed.layers, x)
        prior == \A t \in formed.used : \A x \in T[t].inputs, y \in T[t].outputs : Layer(x) < Layer(y)
    IN [Trust5(s) EXCEPT
            !["structural_reachability"] = _result(reached),
            !["causal_formation"] = _result(reached /\ prior),
            !["exact_self_maintenance"] = _organization(s, T, analysis_snapshot_digest_v5(s)),
            !["dimensional_consistency"] = flow,
            !["finite_horizon_resource_persistence"] = flow,
            !["target_bound_generative_catalysis"] =
                _result(formed.used # {} /\ \A t \in formed.used : T[t].uncatalyzed \/ T[t].clauses # {}),
            !["verification_capacity"] = _verification(s),
            !["effective_independence"] = _independence(s, s.contract.minimum),
            !["coordination_protocol_integrity"] = _coordination(s)]

\* All dimensions but robustness; nothing structural is judged when the budget ends.
Judged(s) ==
    IF Exceeded(s) THEN Trust5(s)
    ELSE Profile5(s, _network(s).transformations, _closure(_network(s)),
                  TypedFlow(s, analysis_snapshot_digest_v5(s)))

\* Statements go by subject or key, entries of the manifest by key only, and the policy stays.
Without(s, scenario) ==
    [s EXCEPT !.statements = {d \in @ : d.subject \notin scenario.subjects /\ d.key \notin scenario.keys},
              !.objects = {e \in @ : e.key \notin scenario.keys}, !.rejected = {}]

Suites(s) == {d \in Evidence(s, "perturbation_suite") : d.subject \in s.contract.suites}

Complete(suite) ==
    /\ suite.scenarios # {} /\ Cardinality(suite.scenarios) <= MAX_PERTURBATIONS
    /\ MANDATORY_DIMENSIONS \ {"perturbation_robustness"} \subseteq suite.acceptance

Scenarios(s) ==
    IF s.contract.suites = {} \/ Cardinality(Suites(s)) # Cardinality(s.contract.suites) THEN {}
    ELSE UNION {suite.scenarios : suite \in {d \in Suites(s) : Complete(d)}}

Replayed(s) == {[scenario |-> x, profile |-> Judged(Without(s, x))] : x \in Scenarios(s)}

\* What could not be judged after a scenario weighs more than what failed.
Robustness5(s, replayed) ==
    LET asked == MANDATORY_DIMENSIONS \ {"perturbation_robustness"}
    IN IF \E r \in replayed : \E d \in asked : r.profile[d] = "unknown" THEN "unknown"
       ELSE _result(/\ Scenarios(s) # {} /\ \A suite \in Suites(s) : Complete(suite)
                    /\ \A r \in replayed : \A d \in asked : r.profile[d] = "satisfied")

Audit5(s, profile, replayed) ==
    [status |-> "ok", profile |-> [profile EXCEPT !["perturbation_robustness"] = Robustness5(s, replayed)],
     results |-> replayed]

science_audit_v5(s) ==
    IF Raises(s) \/ (~Exceeded(s) /\ \E x \in Scenarios(s) : Raises(Without(s, x)))
    THEN [status |-> "failed", profile |-> Unjudged, results |-> {}]
    ELSE IF Exceeded(s) THEN [status |-> "ok", profile |-> Judged(s), results |-> {}]
    ELSE Audit5(s, Judged(s), Replayed(s))

\* What is replayed is the audit of every suite of the contract, whichever suite was asked for.
perturbation_replay_v5(s, suite) ==
    IF \E d \in Evidence(s, "perturbation_suite") : d.subject = suite
    THEN [status |-> "ok", results |-> science_audit_v5(s).results]
    ELSE [status |-> "failed", results |-> {}]

-----------------------------------------------------------------------------
(* Cut sets, in the order of size and then of names.                       *)

StructuralClosure(initial, T, removed) ==
    LET after[n \in 0..Cardinality(DOMAIN T)] ==
          IF n = 0 THEN initial
          ELSE after[n - 1] \cup UNION {T[t].outputs : t \in {t \in DOMAIN T \ removed : T[t].inputs \subseteq after[n - 1]}}
    IN after[Cardinality(DOMAIN T)]

Before(C, D) == Cardinality(C) < Cardinality(D) \/ (Cardinality(C) = Cardinality(D) /\ C # D
                                                   /\ Min((C \ D) \cup (D \ C)) \in C)

bounded_minimal_cut_sets(initial, T, targets, maximum, budget) ==
    LET candidates == {C \in SUBSET DOMAIN T : Cardinality(C) \in 1..maximum}
        Tried(C) == Cardinality({D \in candidates : Before(D, C)}) < budget
        found[k \in 0..maximum] ==
           IF k = 0 THEN {}
           ELSE found[k - 1] \cup {C \in candidates : /\ Cardinality(C) = k /\ Tried(C)
                                                      /\ \A B \in found[k - 1] : ~(B \subseteq C)
                                                      /\ ~(targets \subseteq StructuralClosure(initial, T, C))}
    IN [cuts |-> found[maximum], complete |-> \A C \in candidates : Tried(C)]
=============================================================================
