------------------------------ MODULE Planning6 ------------------------------
(***************************************************************************)
(* The contingent planner of v6/planning.py: actions with four outcomes    *)
(* over a control state that is audited again after every step.            *)
(*                                                                         *)
(* A blocker is the dimension it keeps from being satisfied. The bounds of *)
(* a branch are two functions: uppers (time, cost, verification load,      *)
(* erosion, concentration, exposure) add up, lowers (quality, safety)      *)
(* take the least. A digest of a document is the document.                 *)
(***************************************************************************)
EXTENDS Science6

CONSTANTS
    MAX_ELIGIBLE,    \* more candidates than this are not planned over
    BEAM_WIDTH,      \* candidates looked at after an outcome
    OutputSchemas    \* the names schema_digest knows

OutcomeNames == {"success", "partial", "failure", "timeout"}
UpperBounds == {"time", "cost", "verification", "independence", "correlation", "cut"}
LowerBounds == {"quality", "safety"}

-----------------------------------------------------------------------------
(* Documents.                                                              *)

interval_integrity(b) ==
    /\ DOMAIN b.lower = DOMAIN b.upper
    /\ \A c \in DOMAIN b.lower : b.lower[c] <= b.upper[c]
    /\ \A u \in UpperBounds : b.uppers[u] >= 0
    /\ b.hazards_added \cap b.hazards_removed = {}
    /\ (b.must_add \cup b.may_add) \cap (b.must_remove \cup b.may_remove) = {}

four_outcomes(capability) ==
    /\ DOMAIN capability.branches = OutcomeNames
    /\ capability.adapter # capability.verifier
    /\ capability.repeatable => capability.measure # <<>>

schema_digest(name) == <<"schema", name>>

-----------------------------------------------------------------------------
(* States.                                                                 *)

Blockers(profile) == {name \in DOMAIN profile.dimensions : profile.dimensions[name] # "satisfied"}

\* What the state says of the documents that are there.
Facets(objects) ==
    [authorities |-> _typed(objects, "authority"), stages |-> _typed(objects, "stage"),
     domains |-> _typed(objects, "independence"), sessions |-> _typed(objects, "session")]

_initial_state(s, objects, profile) ==
    LET live == Restricted(objects, Referenced(s))
        observed == {live[x] : x \in _typed(live, "resource")}
        certain == {c \in Ids(observed) : Cardinality({x \in _typed(live, "resource") : live[x].id = c}) = 1}
        marking == [c \in certain |-> (CHOOSE d \in observed : d.id = c).quantity]
    IN [snapshot |-> s, profile |-> profile, live |-> Referenced(s), resources |-> marking,
        trajectory |-> <<marking>>, floors |-> s.floors, blockers |-> Blockers(profile), addressed |-> {},
        debt |-> {}, rollback |-> {}, routes |-> {}, hazards |-> {}, facets |-> Facets(live),
        pending |-> _typed(live, "projection"), uppers |-> [u \in UpperBounds |-> 0], lowers |-> <<>>]

\* The resources after the least a branch leaves.
Marked(resources, b) ==
    [c \in DOMAIN resources \cup DOMAIN b.lower |-> Quantity(resources, c) + Quantity(b.lower, c)]

_resource_safe(state, b) ==
    \A c \in DOMAIN state.floors : Quantity(Marked(state.resources, b), c) >= state.floors[c]

_snapshot_for_live_state(baseline, live) ==
    LET placeholder == [baseline EXCEPT !.objects = @ \cap live, !.witnesses = @ \cap live]
    IN [placeholder EXCEPT !.basis = analysis_basis_digest(placeholder)]

Audited(state, snapshot, left, profile) ==
    [state EXCEPT !.snapshot = snapshot, !.profile = profile, !.blockers = @ \cup Blockers(profile),
                  !.facets = Facets(left)]

\* A blocker once there stays. The facets are read off all documents that are left, live or not.
\* An audit that raises would end the plan; the snapshots of the runs' plans have no such registry.
_recompute_scientific_state(state, baseline, objects) ==
    LET snapshot == _snapshot_for_live_state(baseline, state.live)
        left == Restricted(objects, DOMAIN objects \ (Referenced(baseline) \ state.live))
    IN Audited(state, snapshot, left, audit_snapshot(snapshot, left, {}, Endless))

\* Mutant: what may be removed is taken to stay.
EffectKept(state, b) ==
    LET marking == Marked(state.resources, b)
    IN [state EXCEPT !.live = @ \ b.must_remove,
                     !.resources = marking, !.trajectory = Append(@, marking),
                     !.addressed = @ \cup (b.resolves \cap state.blockers), !.routes = @ \cup b.routes,
                     !.hazards = (@ \ b.hazards_removed) \cup b.hazards_added]

\* All that may go is gone, nothing that is added is live before it is approved.
Effect(state, b) ==
    LET marking == Marked(state.resources, b)
    IN [state EXCEPT !.live = @ \ (b.must_remove \cup b.may_remove),
                     !.resources = marking, !.trajectory = Append(@, marking),
                     !.addressed = @ \cup (b.resolves \cap state.blockers),
                     !.debt = @ \cup b.debt, !.rollback = @ \cup b.rollback, !.routes = @ \cup b.routes,
                     !.pending = @ \cup b.must_add,
                     !.hazards = (@ \ b.hazards_removed) \cup b.hazards_added,
                     !.uppers = [u \in UpperBounds |-> @[u] + b.uppers[u]],
                     !.lowers = [l \in LowerBounds |-> IF @ = <<>> THEN b.lowers[l] ELSE Min({@[l], b.lowers[l]})]]

_successor(state, b, baseline, objects) == _recompute_scientific_state(Effect(state, b), baseline, objects)

_strict_progress(prior, after, measure) ==
    \/ measure = <<"blocker_frontier">> /\ prior.addressed \subseteq after.addressed /\ prior.addressed # after.addressed
    \/ measure = <<"evidence_routes">> /\ prior.routes \subseteq after.routes /\ prior.routes # after.routes
    \/ /\ Len(measure) = 2 /\ measure[1] = "resource"
       /\ Quantity(after.resources, measure[2]) > Quantity(prior.resources, measure[2])

-----------------------------------------------------------------------------
(* Actions.                                                                *)

SafeBranch(state, action, capability, b) ==
    /\ action.protected \cap (b.must_remove \cup b.may_remove) = {}
    /\ action.prohibited \cap b.hazards_added = {}
    /\ _resource_safe(state, b)
    /\ capability.repeatable => _strict_progress(state, Effect(state, b), capability.measure)

\* Passes when there is no reason to reject.
_hard_filter(state, action, capabilities) ==
    /\ action.capability \in capabilities
    /\ action.required \subseteq state.live
    /\ action.prohibited \cap state.hazards = {}
    /\ action.capability.schema \in OutputSchemas
    /\ action.capability.schema_digest = schema_digest(action.capability.schema)
    /\ \A o \in OutcomeNames : SafeBranch(state, action, action.capability, action.capability.branches[o])

\* Two actions with one key are the same but for their names.
_semantic_key(action) == <<action.required, action.protected, action.prohibited, action.capability>>

_worst_coordinates(capability) ==
    LET B == Range(capability.branches)
    IN [resolved |-> {x \in UNION {b.resolves : b \in B} : \A b \in B : x \in b.resolves},
        evidence |-> {x \in UNION {b.routes : b \in B} : \A b \in B : x \in b.routes},
        uppers |-> [u \in UpperBounds |-> Max({b.uppers[u] : b \in B})],
        lowers |-> [l \in LowerBounds |-> Min({b.lowers[l] : b \in B})],
        resources |-> [c \in UNION {DOMAIN b.lower : b \in B} |-> Min({Quantity(b.lower, c) : b \in B})],
        owed |-> <<UNION {b.debt : b \in B}, UNION {b.rollback : b \in B}, UNION {b.hazards_added : b \in B}>>]

_dominates(left, right) ==
    LET a == _worst_coordinates(left)
        b == _worst_coordinates(right)
        C == DOMAIN a.resources \cup DOMAIN b.resources
    IN /\ b.resolved \subseteq a.resolved /\ b.evidence \subseteq a.evidence
       /\ \A u \in UpperBounds : a.uppers[u] <= b.uppers[u]
       /\ \A l \in LowerBounds : a.lowers[l] >= b.lowers[l]
       /\ \A c \in C : Quantity(a.resources, c) >= Quantity(b.resources, c)
       /\ \A k \in 1..3 : a.owed[k] \subseteq b.owed[k]
       /\ \/ [a EXCEPT !.resources = <<>>] # [b EXCEPT !.resources = <<>>]
          \/ \E c \in C : Quantity(a.resources, c) > Quantity(b.resources, c)

_eligible_at_state(state, candidates) ==
    SelectSeq(candidates, LAMBDA a : _hard_filter(state, a, {a.capability}))

_route_goal_satisfied(state) == state.blockers # {} /\ state.blockers \subseteq state.addressed

_branch_makes_guaranteed_progress(prior, after) ==
    /\ prior.addressed \subseteq after.addressed /\ prior.addressed # after.addressed
    /\ after.routes # {}

Strongs(nodes) == SelectSeq(nodes, LAMBDA t : t.strong)

Continue(after, action, candidates) ==
    LET all == _eligible_at_state(after, candidates)
    IN SelectSeq(SubSeq(all, 1, Min({BEAM_WIDTH, Len(all)})), LAMBDA a : a.id # action.id \/ a.capability.repeatable)

\* What an outcome leads to: strong, or not, with the first strong node of those that go on.
Child(state, after, branch, horizon, next) ==
    IF ~(_resource_safe(state, branch) /\ _branch_makes_guaranteed_progress(state, after))
    THEN [strong |-> FALSE, node |-> {}]
    ELSE IF _route_goal_satisfied(after) THEN [strong |-> TRUE, node |-> {}]
    ELSE IF horizon <= 1 THEN [strong |-> FALSE, node |-> {}]
    ELSE [strong |-> next # <<>>, node |-> IF next = <<>> THEN {} ELSE {Head(next)}]

Node(state, action, fresh, child) ==
    [state |-> state, action |-> action,
     strong |-> fresh /\ \A o \in OutcomeNames : child[o].strong,
     branches |-> [o \in OutcomeNames |-> child[o].node]]

\* A node: its action and, for every outcome, the node to go on from, or nothing. The first strong
\* candidate is taken; an action does not follow itself unless it is repeatable.
RECURSIVE _strong_tree(_, _, _, _, _, _, _)
_strong_tree(state, action, candidates, horizon, path, baseline, objects) ==
    LET key == <<state, action.id>>
        branches == action.capability.branches
        Trees(after, next) ==
            [k \in DOMAIN next |->
               _strong_tree(after, next[k], candidates, horizon - 1, path \cup {key}, baseline, objects)]
        Reached(b, after) == Child(state, after, b, horizon, Strongs(Trees(after, Continue(after, action, candidates))))
        Outcome(o) == Reached(branches[o], _successor(state, branches[o], baseline, objects))
    IN Node(state, action, key \notin path,
            [o \in OutcomeNames |-> Outcome(o)])

PlanResult(status, code, class, policies) ==
    [status |-> status, code |-> code, solution_class |-> class, policies |-> policies]

\* The last of several actions that are the same goes; capabilities is the sequence of the documents given.
Eligible(state, actions, capabilities) ==
    LET once == {c \in Range(capabilities) : Cardinality({k \in DOMAIN capabilities : capabilities[k] = c}) = 1}
        passed == SelectSeq(actions, LAMBDA a : _hard_filter(state, a, once))
    IN SelectSeq(passed, LAMBDA a : ~\E b \in Range(passed) : b.id < a.id /\ _semantic_key(b) = _semantic_key(a))

Nondominated(eligible) ==
    SelectSeq(eligible, LAMBDA a : ~\E b \in Range(eligible) : b # a /\ _dominates(b.capability, a.capability))

\* The policies given are the primary one, or up to three alternatives.
Planned6(candidates, strong, class) ==
    IF candidates = <<>> THEN PlanResult("blocked", "no_branch_safe_action", "exact", <<>>)
    ELSE IF strong = <<>> THEN PlanResult("blocked", "no_strong_policy_within_horizon", class, <<>>)
    ELSE IF Len(candidates) = 1 THEN PlanResult("ok", "primary_strong_policy", class, strong)
    ELSE PlanResult("ok", "incomparable_safe_alternatives", class, SubSeq(strong, 1, Min({3, Len(strong)})))

Searched(state, candidates, s, objects, horizon) ==
    IF Len(candidates) > MAX_ELIGIBLE THEN PlanResult("unknown", "candidate_set_overflow_unknown", "incomplete", <<>>)
    ELSE Planned6(candidates,
                  Strongs([k \in DOMAIN candidates |->
                             _strong_tree(state, candidates[k], candidates, horizon, {}, s, objects)]),
                  IF horizon = 1 THEN "exact" ELSE "approximate")

plan_actions(s, objects, profile, actions, capabilities, horizon) ==
    LET state == _initial_state(s, objects, profile)
    IN IF horizon \notin 1..3 THEN PlanResult("error", "planning_horizon_invalid", "none", <<>>)
       ELSE IF state.blockers = {} THEN PlanResult("ok", "no_intervention_required", "exact", <<>>)
       ELSE Searched(state, Nondominated(Eligible(state, actions, capabilities)), s, objects, horizon)

-----------------------------------------------------------------------------
(* The intervention analysis (v6/intervention.py): the structural analyses *)
(* of one snapshot, and the portfolio of actions that are safe and not     *)
(* dominated, each with what it guarantees whatever its outcome.           *)

Unknown == "unknown_due_to_budget"

\* Nothing was found out: no usable time, or the budget ran out.
_unknown_bundle(blockers) ==
    [siphons |-> [status |-> Unknown, minimal |-> {}, unfed |-> {}],
     flux |-> [status |-> Unknown, coupling |-> {}],
     cuts |-> [status |-> Unknown, cuts |-> {}, enablements |-> {}],
     prefix |-> [status |-> Unknown, events |-> {}],
     portfolio |-> [status |-> Unknown, blockers |-> blockers, candidates |-> {}]]

PortfolioCandidate(state, action) ==
    LET worst == _worst_coordinates(action.capability)
    IN [action |-> action, routes |-> worst.evidence, resolves |-> worst.resolved \cap state.blockers,
        delta |-> worst.resources, uppers |-> worst.uppers, lowers |-> worst.lowers, owed |-> worst.owed]

\* A capability given twice counts once here.
_portfolio(s, objects, profile, actions, capabilities) ==
    LET state == _initial_state(s, objects, profile)
        nondominated == Nondominated(Eligible(state, actions, Sq!SetToSeq(capabilities)))
        candidates == {PortfolioCandidate(state, nondominated[k]) : k \in DOMAIN nondominated}
    IN IF Len(nondominated) > MAX_ELIGIBLE
       THEN [status |-> Unknown, blockers |-> state.blockers, candidates |-> {}]
       ELSE [status |-> IF candidates # {} \/ state.blockers = {} THEN "satisfied" ELSE "violated",
             blockers |-> state.blockers, candidates |-> candidates]

Exhausting(exhaustive) == IF exhaustive THEN "satisfied" ELSE Unknown

SiphonReport(siphons, unfed) ==
    [status |-> IF siphons.exhaustive /\ unfed # {} THEN "violated" ELSE Exhausting(siphons.exhaustive),
     minimal |-> siphons.values, unfed |-> unfed]

\* The cut sets count as complete only when the siphons and the enablement sets are too.
CutReport(siphons, cuts, enablements) ==
    [status |-> Exhausting(siphons.exhaustive /\ cuts.exhaustive /\ enablements.exhaustive),
     cuts |-> cuts.values, enablements |-> enablements.values]

PrefixReport(prefix) == [status |-> Exhausting(~prefix.full), events |-> Range(prefix.events)]

\* What a supply feeds, at the time of the snapshot.
Supplied(objects, at) == {d.coordinate : d \in {e \in LiveOf(objects, "supply", at) : e.lower > 0}}

Analysed(available, supplied, targets, network, portfolio) ==
    LET siphons == enumerate_minimal_siphons(network, Coordinates(network))
    IN [siphons |-> SiphonReport(siphons, unfed_siphons(siphons.values, available, supplied)),
        flux |-> [status |-> "satisfied", coupling |-> exact_flux_coupling(network)],
        cuts |-> CutReport(siphons, enumerate_minimal_cut_sets(available, targets, network),
                           enumerate_minimal_enablement_sets(available, targets, network)),
        prefix |-> PrefixReport(bounded_occurrence_prefix(available, network)),
        portfolio |-> portfolio]

\* exceeded: the operations the analyses are allowed ran out.
analyze_interventions(s, objects, profile, actions, capabilities, exceeded) ==
    LET instant == _temporal(s, objects, {})
        at == CHOOSE t \in instant : TRUE
    IN IF instant = {} \/ exceeded THEN _unknown_bundle(Blockers(profile))
       ELSE Analysed(_available_sets(objects, at).available, Supplied(objects, at), s.targets,
                     _transformations(objects, at),
                     _portfolio(s, objects, profile, actions, capabilities))
=============================================================================
