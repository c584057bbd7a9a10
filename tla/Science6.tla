------------------------------ MODULE Science6 ------------------------------
(***************************************************************************)
(* The audit kernel of v6/science.py: the operational profile of a         *)
(* snapshot, dimension by dimension, and the replay of its perturbations   *)
(* on reduced snapshots.                                                   *)
(*                                                                         *)
(* A store is a function from digests to documents. A document is a record *)
(* of its kind, its home (tenant and workspace), whether its digest is     *)
(* intact, its lifecycle, and what its kind says. Quantities, rates and    *)
(* instants are integers. A dimension is its status; the wording of the    *)
(* blockers is left out.                                                   *)
(***************************************************************************)
EXTENDS Structural6

CONSTANT
    Endless       \* later than every withdrawal

MANDATORY_DIMENSIONS ==
    {"provenance_integrity", "trust_quorum", "temporal_integrity", "structural_reachability",
     "causal_formation", "dimensional_consistency", "exact_self_maintenance",
     "finite_horizon_resource_persistence", "target_bound_generative_catalysis",
     "verification_capacity", "effective_independence", "coordination_protocol_integrity",
     "perturbation_robustness"}

_result(satisfied) == IF satisfied THEN "satisfied" ELSE "violated"

-----------------------------------------------------------------------------
(* What the document models accept.                                        *)

ordered(l) == l.from < l.until /\ l.withdrawn >= l.from
Within(window, l) == window[1] < window[2] /\ window[1] >= l.from /\ window[2] <= l.until
OrderedRates(d) == 0 <= d.lower /\ d.lower <= d.upper

observation_integrity(d) == d.quantity >= 0
supply_integrity(d) == OrderedRates(d) /\ Within(d.window, d.lifecycle)
catalytic_semantics(d) ==
    /\ d.uncatalyzed => d.clauses = <<>>
    /\ DOMAIN d.inputs \cup DOMAIN d.outputs # {}
verifier_integrity(d) ==
    d.window[1] < d.window[2] /\ d.arrival >= 0 /\ d.service > 0 /\ d.amplification >= 0
rate_integrity(d) == OrderedRates(d) /\ Within(d.window, d.lifecycle)
service_curve_integrity(d) == curve_integrity(d.points) /\ Within(d.window, d.lifecycle)
exposure_integrity(d) == \A e \in d.events : e.at <= d.complete_through
changes_snapshot(s) ==
    /\ \/ s.objects \cup s.replacements \cup s.witnesses \cup s.advance # {}
       \/ \E field \in DOMAIN s.remove : s.remove[field] # {}
    /\ s.objects \cap (s.replacements \cup s.witnesses) = {} /\ s.replacements \cap s.witnesses = {}

WellFormed(d) ==
    /\ ordered(d.lifecycle)
    /\ d.kind = "resource" => observation_integrity(d)
    /\ d.kind = "supply" => supply_integrity(d)
    /\ d.kind = "transformation" => catalytic_semantics(d)
    /\ d.kind = "stage" => verifier_integrity(d)
    /\ d.kind = "rate" => rate_integrity(d)
    /\ d.kind = "curve" => service_curve_integrity(d)
    /\ d.kind = "ledger" => exposure_integrity(d)
    /\ d.kind = "suite" => \A k \in DOMAIN d.scenarios : changes_snapshot(d.scenarios[k])

-----------------------------------------------------------------------------
(* Provenance, time and trust.                                             *)

_live(d, at) == d.lifecycle.from <= at /\ at <= d.lifecycle.until /\ at < d.lifecycle.withdrawn

_typed(objects, kind) == {x \in DOMAIN objects : objects[x].kind = kind}
LiveOf(objects, kind, at) == {objects[x] : x \in {y \in _typed(objects, kind) : _live(objects[y], at)}}

\* The basis leaves out the witnesses, which name it.
analysis_basis_digest(s) == [s EXCEPT !.witnesses = {}, !.basis = "none"]

Referenced(s) == s.objects \cup s.witnesses \cup {s.contract, s.policy, s.time, s.registry}

_typed_identity(d) == <<d.kind, d.id>>
Identified ==
    {"state", "resource", "supply", "transformation", "authority", "evidence", "stage", "rate",
     "independence"}

Trusted(s, store) ==
    {x \in Referenced(s) \cap DOMAIN store : store[x].intact /\ store[x].home = s.home}

BoundToContract(s, store) ==
    /\ s.contract \in DOMAIN store
    /\ LET c == store[s.contract]
       IN /\ c.kind = "contract"
          /\ c.targets = s.targets /\ c.floors = s.floors
          /\ c.required = s.required /\ c.minimum = s.minimum

_provenance(s, store) ==
    LET live == Trusted(s, store)
        named == {x \in live : store[x].kind \in Identified}
    IN _result(
         /\ live = Referenced(s)
         /\ \A x, y \in named : _typed_identity(store[x]) = _typed_identity(store[y]) => x = y
         /\ MANDATORY_DIMENSIONS \subseteq s.required
         /\ BoundToContract(s, store)
         /\ s.basis = analysis_basis_digest(s))

\* The instant of the audit: the one asked for, or the time receipt's own, within the
\* receipt's validity.
_temporal(s, objects, evaluation_at) ==
    IF s.time \notin DOMAIN objects THEN {}
    ELSE LET r == objects[s.time]
         IN IF r.kind # "time" THEN {}
            ELSE {at \in IF evaluation_at = {} THEN {r.issued_at} ELSE evaluation_at :
                    r.issued_at <= at /\ at <= r.valid_until}

_trust(s, objects) ==
    _result(/\ s.policy \in DOMAIN objects
            /\ objects[s.policy].kind = "policy" /\ objects[s.policy].valid
            /\ _typed(objects, "decision") # {})

-----------------------------------------------------------------------------
(* Reachability, formation and self-maintenance.                           *)

Ids(docs) == {d.id : d \in docs}

_available_sets(objects, at) ==
    LET states == {d \in LiveOf(objects, "state", at) : d.available}
        stocks == {d \in LiveOf(objects, "resource", at) : d.quantity > 0}
        evidence == Ids(LiveOf(objects, "evidence", at))
        authority == Ids(LiveOf(objects, "authority", at))
    IN [available |-> Ids(states) \cup Ids(stocks) \cup evidence \cup authority,
        food |-> Ids({d \in states : d.food}) \cup Ids(stocks),
        evidence |-> evidence, authority |-> authority]

_transformations(objects, at) ==
    LET live == LiveOf(objects, "transformation", at)
    IN [i \in Ids(live) |-> CHOOSE d \in live : d.id = i]

\* All declared inputs count here, also those of quantity zero.
RECURSIVE DeclaredClosure(_, _)
DeclaredClosure(available, network) ==
    LET enabled == {i \in DOMAIN network : DOMAIN network[i].inputs \subseteq available}
        more == available \cup UNION {DOMAIN network[i].outputs : i \in enabled}
    IN IF more = available THEN available ELSE DeclaredClosure(more, network)

_structural(s, objects, at) ==
    _result(s.targets \subseteq
            DeclaredClosure(_available_sets(objects, at).available, _transformations(objects, at)))

Bound(s, objects, kind) == {x \in _typed(objects, kind) : objects[x].snapshot = s.basis}

_organization_witness(s, objects) ==
    LET witnesses == Bound(s, objects, "organization")
    IN IF Cardinality(witnesses) = 1 THEN {objects[x] : x \in witnesses} ELSE {}

_catalyst_satisfied(t, available) == Catalyzed(t, available)

\* Layer by layer: what a layer makes is there for the next; returns what is available
\* in the end.
RECURSIVE Formed(_, _, _, _)
Formed(sets, available, remaining, network) ==
    LET enabled == {i \in remaining :
                      /\ DOMAIN network[i].inputs \subseteq available
                      /\ Authorized(network[i], sets.evidence, sets.authority)
                      /\ network[i].inhibitors \cap available = {}
                      /\ _catalyst_satisfied(network[i], available)}
    IN IF enabled = {} THEN available
       ELSE Formed(sets, available \cup UNION {DOMAIN network[i].outputs : i \in enabled},
                   remaining \ enabled, network)

_formation(s, objects, at) ==
    LET network == _transformations(objects, at)
        sets == _available_sets(objects, at)
        Status(w) == _result(/\ w.transformations \subseteq DOMAIN network
                             /\ s.targets \subseteq Formed(sets, sets.available, w.transformations, network))
        witness == _organization_witness(s, objects)
    IN IF witness = {} THEN "unknown" ELSE CHOOSE x \in {Status(w) : w \in witness} : TRUE

\* The net production of a coordinate by transformations at given counts.
Balance(network, counts, c) ==
    MapThenSumSet(LAMBDA i : counts[i] * (Quantity(network[i].outputs, c) - Quantity(network[i].inputs, c)),
                  DOMAIN counts \cap DOMAIN network)

_organization(s, objects, at) ==
    LET network == _transformations(objects, at)
        Status(w) == _result(
            /\ w.targets = s.targets
            /\ w.transformations = DOMAIN w.fluxes
            /\ w.transformations \subseteq DOMAIN network
            /\ \A i \in w.transformations : w.fluxes[i] > 0
            /\ \A c \in Coordinates(network) : Balance(network, w.fluxes, c) >= 0
            /\ s.targets \subseteq UNION {_flows(network[i]).produced : i \in w.transformations})
        witness == _organization_witness(s, objects)
    IN IF witness = {} THEN "unknown" ELSE CHOOSE x \in {Status(w) : w \in witness} : TRUE

RafStatus(s, w, live, raf) ==
    IF ~raf.exhaustive THEN "unknown_due_to_budget"
    ELSE _result(
      /\ w.transformations \subseteq DOMAIN live \cap UNION Range(raf.generative_layers)
      /\ w.transformations \cap DOMAIN live \subseteq UNION raf.maximal_rafs
      /\ w.transformations \cap DOMAIN live # {} => raf.full_set_is_raf
      /\ s.targets \subseteq raf.generalized_closure \cap raf.generative_closure
      /\ UNION Range(raf.generative_layers) # {})

RafOfWitness(s, w, live, sets) ==
    RafStatus(s, w, live,
              exact_generalized_generative_raf([i \in w.transformations \cap DOMAIN live |-> live[i]],
                                               sets.food, sets.evidence, sets.authority))

_raf(s, objects, at) ==
    LET witness == _organization_witness(s, objects)
    IN IF witness = {} THEN "unknown"
       ELSE CHOOSE x \in {RafOfWitness(s, w, _transformations(objects, at), _available_sets(objects, at)) :
                          w \in witness} : TRUE

-----------------------------------------------------------------------------
(* Units, persistence and verification.                                    *)

_unit_dimensions(u) == {<<x, u.dimensions[x]>> : x \in {y \in DOMAIN u.dimensions : u.dimensions[y] # 0}}

_expected_rate_dimensions(u, time) ==
    LET bases == DOMAIN u.dimensions \cup DOMAIN time.dimensions
        power(b) == Quantity(u.dimensions, b) - Quantity(time.dimensions, b)
    IN {<<b, power(b)>> : b \in {c \in bases : power(c) # 0}}

RateOf(rate, unit, time, units) ==
    /\ {rate, unit, time} \subseteq DOMAIN units
    /\ _unit_dimensions(units[rate]) = _expected_rate_dimensions(units[unit], units[time])

\* A rate or a curve has its source among the live evidence.
Sourced(d, objects, at) ==
    d.source \in DOMAIN objects /\ objects[d.source].kind = "evidence" /\ _live(objects[d.source], at)

\* A supply's coordinate and units are looked up, its coordinate's unit is taken to be there.
LookupRaises(s, objects) ==
    LET r == objects[s.registry]
    IN /\ s.registry \in DOMAIN objects /\ r.kind = "registry" /\ r.time_unit \in DOMAIN r.units
       /\ \E d \in {objects[x] : x \in _typed(objects, "supply")} :
             /\ d.coordinate \in DOMAIN r.coordinate_units /\ d.unit \in DOMAIN r.units
             /\ r.coordinate_units[d.coordinate] \notin DOMAIN r.units

\* Where no lookup raises.
_dimensions(s, objects, at) ==
    LET r == objects[s.registry]
        All(kind) == {objects[x] : x \in _typed(objects, kind)}
    IN IF s.registry \notin DOMAIN objects \/ r.kind # "registry" THEN "violated"
       ELSE _result(
         /\ \A u \in DOMAIN r.units : r.units[u].scale > 0
         /\ {r.time_unit, r.action_unit} \cup Range(r.coordinate_units) \subseteq DOMAIN r.units
         /\ \A d \in All("resource") :
               d.id \in DOMAIN r.coordinate_units /\ r.coordinate_units[d.id] = d.unit
         /\ \A d \in All("supply") :
               /\ d.coordinate \in DOMAIN r.coordinate_units
               /\ RateOf(d.unit, r.coordinate_units[d.coordinate], r.time_unit, r.units)
               /\ 0 <= d.lower /\ d.lower <= d.upper
         /\ \A d \in All("transformation") :
               /\ DOMAIN d.inputs \cup DOMAIN d.outputs \subseteq DOMAIN r.coordinate_units
               /\ \A c \in DOMAIN d.inputs : d.inputs[c] >= 0
               /\ \A c \in DOMAIN d.outputs \ DOMAIN d.inputs : d.outputs[c] >= 0
         /\ \A d \in All("rate") :
               Sourced(d, objects, at) /\ RateOf(d.unit, r.action_unit, r.time_unit, r.units)
         /\ \A d \in All("curve") :
               Sourced(d, objects, at) /\ d.time_unit = r.time_unit /\ d.work_unit \in DOMAIN r.units)

\* What a step of the plan adds to a coordinate.
StepDelta(step, network, supplies, c) ==
    Balance(network, step.actions, c)
    + MapThenSumSet(LAMBDA i : IF supplies[i].coordinate = c THEN step.supplies[i] ELSE 0,
                    DOMAIN step.supplies \cap DOMAIN supplies)

\* Rates are per duration; a count is within its rate when the product is.
StepPossible(step, duration, network, rates, supplies) ==
    /\ \A i \in DOMAIN step.actions :
          /\ i \in DOMAIN network /\ i \in DOMAIN rates
          /\ step.actions[i] >= 0
          /\ duration > 0 => /\ rates[i].lower * duration <= step.actions[i]
                             /\ step.actions[i] <= rates[i].upper * duration
    /\ \A i \in DOMAIN step.supplies :
          /\ i \in DOMAIN supplies
          /\ 0 <= step.supplies[i] /\ step.supplies[i] <= supplies[i].upper * duration

ById(docs) == [i \in Ids(docs) |-> CHOOSE d \in docs : d.id = i]

_persistence(s, objects, at) ==
    LET plans == {objects[x] : x \in Bound(s, objects, "persistence")}
        plan == CHOOSE p \in plans : TRUE
        network == _transformations(objects, at)
        rates == ById(LiveOf(objects, "rate", at))
        supplies == ById(LiveOf(objects, "supply", at))
        stocks == ById(LiveOf(objects, "resource", at))
        initial(c) == IF c \in DOMAIN stocks THEN stocks[c].quantity ELSE 0
        marking[c \in DOMAIN s.floors, n \in 0..Len(plan.steps)] ==
            IF n = 0 THEN initial(c)
            ELSE marking[c, n - 1] + StepDelta(plan.steps[n], network, supplies, c)
        siphons == enumerate_minimal_siphons(network, Coordinates(network))
        marked == Ids({d \in LiveOf(objects, "resource", at) : d.quantity > 0})
                  \cup (Ids({d \in LiveOf(objects, "state", at) : d.available}) \ DOMAIN stocks)
        fed == {supplies[i].coordinate : i \in {j \in DOMAIN supplies : supplies[j].lower > 0}}
    IN IF Cardinality(Bound(s, objects, "persistence")) # 1 THEN "unknown"
       ELSE IF ~siphons.exhaustive THEN "unknown_due_to_budget"
       ELSE _result(
         /\ plan.duration > 0
         /\ \A n \in DOMAIN plan.steps :
               /\ StepPossible(plan.steps[n], plan.duration, network, rates, supplies)
               /\ \A c \in DOMAIN s.floors : marking[c, n] >= s.floors[c]
         /\ unfed_siphons(siphons.values, marked, fed) = {})

AllServed(bounds) == bounds.exhaustive /\ bounds.delay # {}

CurveOf(curves, type) == (CHOOSE d \in curves : d.type = type).points

\* A stage's curves come in pairs on one basis, and its service reaches all arrivals.
CurvesServed(mine) ==
    /\ Cardinality(mine) = 2 /\ {d.type : d \in mine} = {"arrival-upper", "service-lower"}
    /\ \A c, d \in mine : <<c.time_unit, c.work_unit, c.window>> = <<d.time_unit, d.work_unit, d.window>>
    /\ AllServed(deterministic_curve_bounds(CurveOf(mine, "arrival-upper"), CurveOf(mine, "service-lower")))

_verification(objects, at) ==
    LET stages == LiveOf(objects, "stage", at)
        rates == LiveOf(objects, "rate", at)
        curves == LiveOf(objects, "curve", at)
    IN IF stages = {} THEN "unknown"
       ELSE _result(
         /\ \A d, e \in stages : d.window = e.window /\ d.unit = e.unit
         /\ \A d \in stages : d.arrival * d.amplification < d.service
         /\ Ids(rates) \subseteq DOMAIN _transformations(objects, at)
         /\ \A d, e \in rates : d.window = e.window /\ d.unit = e.unit
         /\ \A stage \in {d.stage : d \in curves} :
               stage \in Ids(stages) /\ CurvesServed({d \in curves : d.stage = stage}))

-----------------------------------------------------------------------------
(* Independence.                                                           *)

Shared(c, d) ==
    \/ c.principal = d.principal \/ c.key = d.key \/ c.infrastructure = d.infrastructure
    \/ c.lineage = d.lineage \/ c.correlation = d.correlation

_independence(s, objects, at) ==
    LET domains == LiveOf(objects, "independence", at)
        ledgers == {objects[x] : x \in _typed(objects, "ledger")}
        ledger == CHOOSE l \in ledgers : TRUE
        exposed == {e \in ledger.events : {e.from, e.to} \subseteq Ids(domains)}
        edges == {{c.id, d.id} : <<c, d>> \in {p \in domains \X domains : Shared(p[1], p[2])}}
                 \cup {{e.from, e.to} : e \in {f \in exposed : f.pre_commit}}
        classes == UnionFind({{i} : i \in Ids(domains)}, edges)
    IN IF Cardinality(_typed(objects, "ledger")) # 1 \/ domains = {} THEN "unknown"
       ELSE IF ledger.complete_through < at THEN "unknown"
       ELSE _result(exposed = ledger.events /\ Cardinality(classes) >= s.minimum)

\* validate_coordination is in Coordination6; here a session carries its verdict.
_coordination(objects) ==
    LET sessions == {objects[x].status : x \in _typed(objects, "session")}
    IN IF sessions = {} THEN "unknown" ELSE _result(sessions = {"satisfied"})

-----------------------------------------------------------------------------
(* Reduction. A scenario removes what its selectors match: for each one a  *)
(* document has, the values of that document the selector may name.        *)

Catalysts(t) == UNION Range(t.clauses)
Incident(t) == DOMAIN t.inputs \cup DOMAIN t.outputs

\* Nothing is matched by a selector that is not in the domain.
Named(d) ==
    CASE d.kind = "policy" ->
           [principal |-> {p.principal : p \in d.principals}, key |-> {p.key : p \in d.principals},
            infrastructure |-> {p.infrastructure : p \in d.principals}]
      [] d.kind = "envelope" -> [source_system |-> {d.system}]
      [] d.kind = "state" -> [state |-> {d.id}, catalyst |-> {d.id}, inhibitor |-> {d.id}]
      [] d.kind = "resource" -> [coordinate |-> {d.id}]
      [] d.kind = "supply" -> [supply |-> {d.id}, coordinate |-> {d.coordinate}]
      [] d.kind = "rate" -> [rate |-> {d.id}]
      [] d.kind = "stage" -> [stage |-> {d.id}, independence |-> {d.domain}]
      [] d.kind = "independence" ->
           [independence |-> {d.id}, infrastructure |-> {d.infrastructure},
            principal |-> {d.principal}, key |-> {d.key}]
      [] d.kind = "session" -> [session |-> {d.id}]
      [] d.kind = "transformation" ->
           [transformation |-> {d.id}, rate |-> {d.id},
            state |-> Incident(d) \cup Catalysts(d) \cup d.inhibitors, coordinate |-> Incident(d),
            inhibitor |-> d.inhibitors \cup DOMAIN d.outputs,
            catalyst |-> Catalysts(d) \cup DOMAIN d.outputs]
      [] OTHER -> <<>>

Selected(named, remove, field) == IF field \in DOMAIN named THEN named[field] \cap remove[field] ELSE {}
Matched(d, remove, field) == Selected(Named(d), remove, field)

\* Mutant: a removed state only takes the transformations that consume it.
RemovedAsInput(d, remove) ==
    \/ Matched(d, remove, "transformation") # {}
    \/ DOMAIN d.inputs \cap (remove["state"] \cup remove["coordinate"]) # {}

\* Losing a catalyst or an inhibitor takes the transformations that make it; one that needs
\* the catalyst goes when no clause is left untouched, one that was inhibited stays.
TransformationRemoved(d, remove) ==
    \/ \E field \in {"transformation", "state", "coordinate"} : Matched(d, remove, field) # {}
    \/ DOMAIN d.outputs \cap (remove["inhibitor"] \cup remove["catalyst"]) # {}
    \/ /\ Matched(d, remove, "catalyst") # {}
       /\ \A k \in DOMAIN d.clauses : d.clauses[k] \cap remove["catalyst"] # {}

SelectedForRemoval(d, remove) ==
    IF d.kind = "transformation" THEN TransformationRemoved(d, remove)
    ELSE \E field \in DOMAIN Named(d) : Matched(d, remove, field) # {}

_semantic_removal_digests(baseline, remove) ==
    LET chosen == {x \in DOMAIN baseline : SelectedForRemoval(baseline[x], remove)}
        raw == {baseline[x].raw : x \in {y \in chosen : baseline[y].kind = "envelope"}}
    IN chosen \cup {x \in _typed(baseline, "evidence") : baseline[x].raw \in raw}

WitnessKinds == {"organization", "persistence", "suite"}

ReplacementsUsable(s, store, scenario) ==
    \A x \in scenario.replacements \cup scenario.witnesses :
       /\ x \in DOMAIN store /\ store[x].intact /\ store[x].home = s.home
       /\ (x \in scenario.witnesses) = (store[x].kind \in WitnessKinds)

TimeUsable(s, store, scenario) ==
    \A x \in scenario.advance :
       /\ {x, s.time} \subseteq DOMAIN store
       /\ store[x].kind = "time" /\ store[x].intact /\ store[x].home = s.home
       /\ store[s.time].kind = "time" /\ store[s.time].issued_at < store[x].issued_at

Restricted(store, digests) == [x \in DOMAIN store \cap digests |-> store[x]]

AllMatched(baseline, scenario) ==
    \A field \in DOMAIN scenario.remove : \A v \in scenario.remove[field] :
       \E x \in DOMAIN baseline : v \in Matched(baseline[x], scenario.remove, field)

Rebased(s) == [s EXCEPT !.basis = analysis_basis_digest(s)]

Without(s, removed, scenario) ==
    [s EXCEPT !.objects = (@ \ removed) \cup scenario.replacements,
              !.witnesses = (@ \ removed) \cup scenario.witnesses,
              !.time = IF scenario.advance = {} THEN @ ELSE CHOOSE x \in scenario.advance : TRUE]

Reduced(reduced, kept, witnesses) ==
    IF \A x \in witnesses : kept[x].snapshot = reduced.basis
    THEN {[snapshot |-> reduced, objects |-> kept]} ELSE {}

Removed(s, store, scenario, removed) ==
    Reduced(Rebased(Without(s, removed, scenario)), Restricted(store, DOMAIN store \ removed), scenario.witnesses)

\* The reduced snapshot and its store, or nothing when the scenario does not fit.
reduce_snapshot(s, store, scenario) ==
    IF /\ scenario.objects \subseteq Referenced(s)
       /\ AllMatched(Restricted(store, Referenced(s)), scenario)
       /\ ReplacementsUsable(s, store, scenario)
       /\ TimeUsable(s, store, scenario)
    THEN Removed(s, store, scenario,
                 scenario.objects \cup _semantic_removal_digests(Restricted(store, Referenced(s)), scenario.remove))
    ELSE {}

-----------------------------------------------------------------------------
(* The audit. Its budget is how many kernel runs, the snapshot's and then  *)
(* one for each scenario, complete before operations or time are used up.  *)

Known(provenance, instant, status) == IF provenance = "satisfied" /\ instant # {} THEN status ELSE "unknown"

\* Every dimension but robustness: unknown where there is nothing sound to judge.
DimensionsAt(s, objects, provenance, instant, at) ==
    [provenance_integrity |-> provenance,
     trust_quorum |-> _trust(s, objects),
     temporal_integrity |-> _result(instant # {}),
     structural_reachability |-> Known(provenance, instant, _structural(s, objects, at)),
     causal_formation |-> Known(provenance, instant, _formation(s, objects, at)),
     dimensional_consistency |-> Known(provenance, instant, _dimensions(s, objects, at)),
     exact_self_maintenance |-> Known(provenance, instant, _organization(s, objects, at)),
     finite_horizon_resource_persistence |-> Known(provenance, instant, _persistence(s, objects, at)),
     target_bound_generative_catalysis |-> Known(provenance, instant, _raf(s, objects, at)),
     verification_capacity |-> Known(provenance, instant, _verification(objects, at)),
     effective_independence |-> Known(provenance, instant, _independence(s, objects, at)),
     coordination_protocol_integrity |-> Known(provenance, instant, _coordination(objects))]

Kernel(s, store, evaluation_at) ==
    LET objects == Restricted(store, Trusted(s, store))
        instant == _temporal(s, objects, evaluation_at)
    IN DimensionsAt(s, objects, _provenance(s, store), instant, CHOOSE t \in instant : TRUE)

\* A kernel run that judges the dimensions ends with their exception, and the audit with it.
KernelRaises(s, store, evaluation_at) ==
    LET objects == Restricted(store, Trusted(s, store))
    IN LookupRaises(s, objects) /\ _provenance(s, store) = "satisfied" /\ _temporal(s, objects, evaluation_at) # {}

CompatibleProfile(dimensions, required) ==
    [dimensions |-> dimensions,
     compatible |-> \A name \in MANDATORY_DIMENSIONS \cap required : dimensions[name] = "satisfied",
     solution_class |-> "exact"]

Profile(dimensions, robustness, s) ==
    CompatibleProfile(dimensions @@ [perturbation_robustness |-> robustness], s.required)

_budget_unknown ==
    [dimensions |-> [name \in MANDATORY_DIMENSIONS |-> "unknown_due_to_budget"],
     compatible |-> FALSE, solution_class |-> "incomplete"]

Satisfied(dimensions, names) == \A name \in names : name \in DOMAIN dimensions /\ dimensions[name] = "satisfied"

\* A scenario holds when every required dimension of its reduction is satisfied. One whose
\* kernel run is cut off has none.
ScenarioHolds(s, store, suite, k, budget) ==
    \E r \in reduce_snapshot(s, store, suite.scenarios[k]) :
       k <= budget /\ Satisfied(Kernel(r.snapshot, r.objects, {}), suite.required \ {"perturbation_robustness"})

\* The budget is looked at again before every scenario, not after the last one.
Exhausted(s, store, suite, budget) ==
    \E k \in 1..Len(suite.scenarios) - 1 : k > budget /\ reduce_snapshot(s, store, suite.scenarios[k]) # {}

replay_perturbations(s, store, suite, budget) ==
    _result(/\ suite.snapshot = s.basis
            /\ s.required \ {"perturbation_robustness"} \subseteq suite.required
            /\ \A k \in DOMAIN suite.scenarios : ScenarioHolds(s, store, suite, k, budget))

\* With the dimensions of the kernel and the suites bound to the snapshot.
Robustness6(s, store, dimensions, suites, budget) ==
    IF \/ dimensions.provenance_integrity # "satisfied" \/ dimensions.temporal_integrity # "satisfied"
       \/ Cardinality(suites) # 1
    THEN Profile(dimensions, "unknown", s)
    ELSE CHOOSE p \in {IF Exhausted(s, store, store[x], budget) THEN _budget_unknown
                       ELSE Profile(dimensions, replay_perturbations(s, store, store[x], budget), s) : x \in suites} : TRUE

\* Which calls return nothing: the snapshot's own run raises, or that of a scenario of its suite.
AuditRaises(s, store, evaluation_at, budget) ==
    LET objects == Restricted(store, Trusted(s, store))
        suites == Bound(s, objects, "suite")
    IN \/ budget > 0 /\ KernelRaises(s, store, evaluation_at)
       \/ /\ Cardinality(suites) = 1
          /\ _provenance(s, store) = "satisfied" /\ _temporal(s, objects, evaluation_at) # {}
          /\ \E x \in suites : \E k \in DOMAIN store[x].scenarios :
                \E r \in reduce_snapshot(s, store, store[x].scenarios[k]) :
                   k < budget /\ KernelRaises(r.snapshot, r.objects, {})

\* What an audit that raised leaves its caller with.
NoProfile == [dimensions |-> <<>>, compatible |-> FALSE, solution_class |-> "none"]

audit_snapshot(s, store, evaluation_at, budget) ==
    IF budget = 0 THEN _budget_unknown
    ELSE IF AuditRaises(s, store, evaluation_at, budget) THEN NoProfile
    ELSE Robustness6(s, store, Kernel(s, store, evaluation_at),
                     Bound(s, Restricted(store, Trusted(s, store)), "suite"), budget - 1)
=============================================================================
