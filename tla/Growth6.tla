------------------------------- MODULE Growth6 -------------------------------
(***************************************************************************)
(* The growth game of v6/growth.py and the capability frontier of          *)
(* v6/growth_frontier.py: a ledger of capacities, resources, work,         *)
(* reservations and premises that an action changes by one of its          *)
(* successors, which the adversary picks.                                  *)
(*                                                                         *)
(* A contract is a record; quantities and instants are integers and ratios *)
(* fractions. Work is a function from its names, a checkpoint one from its *)
(* instant, an activation one from the action it enables. A step that      *)
(* raises GrowthError gives the empty set, any other the singleton of its  *)
(* result. A digest of a state or an effect is the state or the effect.    *)
(* There is no frontier, or one: a set. The limits on states, expansions   *)
(* and policies do as the one on depth does: the search is incomplete.     *)
(***************************************************************************)
EXTENDS Planning6

CAPACITIES == {"task", "research", "verification"}
CHARGE_CATEGORIES ==
    {"generation", "verification", "repair", "calibration", "communication", "comparison", "evidence",
     "joint-activity", "investment", "planner"}

\* Pointwise sum.
Summed(f, g) == [k \in DOMAIN f \cup DOMAIN g |-> Quantity(f, k) + Quantity(g, k)]
Total(f) == MapThenSumSet(LAMBDA k : f[k], DOMAIN f)
\* What all categories take of a resource.
Charged(charges, k) == MapThenSumSet(LAMBDA x : Quantity(charges[x], k), DOMAIN charges)

_intervals(values, nonnegative) ==
    \A k \in DOMAIN values : values[k][1] <= values[k][2] /\ (nonnegative => values[k][1] >= 0)
_nonnegative(values) == \A k \in DOMAIN values : values[k] >= 0

ActionOf(objects, recipe) == objects[recipe.action]
CapabilityOf(objects, recipe) == objects[objects[recipe.action].capability]

-----------------------------------------------------------------------------
(* Contracts and states.                                                   *)

ValidEffect(c, e, branch) ==
    LET total == [k \in UNION {DOMAIN e.charges[x] : x \in DOMAIN e.charges} |-> Charged(e.charges, k)]
    IN /\ e.models \subseteq c.models
       /\ 0 < e.duration /\ e.duration <= branch.uppers["time"]
       /\ DOMAIN e.delta \cup DOMAIN e.quality \cup DOMAIN e.coverage \subseteq DOMAIN c.domains
       /\ _intervals(e.delta, FALSE)
       /\ DOMAIN e.charges \subseteq CHARGE_CATEGORIES
       /\ \A x \in DOMAIN e.charges : _nonnegative(e.charges[x])
       /\ DOMAIN total \cup DOMAIN branch.lower \subseteq Range(c.cost_order)
       /\ \A k \in DOMAIN total \cup DOMAIN branch.lower :
             Quantity(branch.lower, k) <= -Quantity(total, k) /\ -Quantity(total, k) <= Quantity(branch.upper, k)
       /\ c.monetary \subseteq Range(c.cost_order)
       /\ branch.uppers["cost"] <= MapThenSumSet(LAMBDA k : Quantity(total, k), c.monetary)
       /\ branch.debt \cup branch.rollback \subseteq DOMAIN e.debt_added
       /\ branch.uppers["verification"] >=
             MapThenSumSet(LAMBDA w : e.arrivals[w].remaining,
                           {w \in DOMAIN e.arrivals : e.arrivals[w].stage = "verification"})

ValidRecipe(c, objects, recipe) ==
    /\ recipe.action \in DOMAIN objects /\ ActionOf(objects, recipe).kind = "action"
    /\ ActionOf(objects, recipe).capability \in DOMAIN objects /\ CapabilityOf(objects, recipe).kind = "capability"
    /\ CapabilityOf(objects, recipe).schema_digest = schema_digest(CapabilityOf(objects, recipe).schema)
    /\ 0 <= recipe.earliest /\ recipe.earliest < recipe.expires
    /\ DOMAIN recipe.minimum \subseteq DOMAIN c.domains /\ _nonnegative(recipe.minimum)
    /\ {e.outcome : e \in recipe.successors} = OutcomeNames
    /\ \A d, e \in recipe.successors : d.id = e.id => d = e
    /\ c.models \subseteq UNION {e.models : e \in recipe.successors}
    /\ \A e \in recipe.successors : ValidEffect(c, e, CapabilityOf(objects, recipe).branches[e.outcome])

Reserved(s, resource, at) ==
    LET held == SelectSeq(s.reservations, LAMBDA r : r.resource = resource /\ r.until > at)
    IN MapThenSumSet(LAMBDA k : held[k].quantity, DOMAIN held)

InStage(work, stage) ==
    MapThenSumSet(LAMBDA w : work[w].remaining, {w \in DOMAIN work : work[w].stage = stage})

WorkChecked(c, work, limits, elapsed) ==
    /\ \A w \in DOMAIN work :
          /\ work[w].stage \in DOMAIN c.domains /\ work[w].remaining >= 0
          /\ work[w].remaining = 0 \/ work[w].deadline > elapsed
    /\ \A stage \in {work[w].stage : w \in DOMAIN work} : InStage(work, stage) <= limits[stage]

check_state(c, s) ==
    /\ DOMAIN s.capacities = DOMAIN c.domains /\ DOMAIN s.quality = DOMAIN c.domains
    /\ DOMAIN s.coverage = DOMAIN c.domains /\ DOMAIN s.resources = Range(c.cost_order)
    /\ _intervals(s.capacities, TRUE)
    /\ 0 <= s.elapsed /\ s.elapsed <= c.deadline /\ s.models \subseteq c.models
    /\ \A k \in DOMAIN c.domains :
          /\ s.capacities[k][1] >= c.domains[k].service
          /\ c.domains[k].quality <= s.quality[k] /\ s.quality[k] <= c.whole
          /\ c.domains[k].coverage <= s.coverage[k] /\ s.coverage[k] <= c.whole
    /\ \A k \in DOMAIN s.resources : s.resources[k] >= Quantity(c.floors, k)
    /\ DOMAIN s.queue \cap DOMAIN s.obligations = {}
    /\ WorkChecked(c, s.queue, c.queue_limits, s.elapsed)
    /\ WorkChecked(c, s.obligations, c.debt_limits, s.elapsed)
    /\ \A k \in DOMAIN s.reservations :
          s.reservations[k].resource \in DOMAIN c.shared /\ s.reservations[k].quantity >= 0
    /\ \A k \in DOMAIN c.shared :
          Reserved(s, k, s.elapsed)
          + MapThenSumSet(LAMBDA d : c.coefficients[k][d] * s.capacities[d][2], DOMAIN c.coefficients[k]) <= c.shared[k]
    /\ \A t \in DOMAIN s.checkpoints :
          0 <= t /\ t <= s.elapsed /\ DOMAIN s.checkpoints[t] = DOMAIN c.domains /\ _intervals(s.checkpoints[t], TRUE)

Factors(f) == Below(Whole(1), f["task"]) /\ Below(Whole(1), f["research"])

validate_contract(c, objects) ==
    /\ {c.snapshot, c.registry} \subseteq DOMAIN objects
    /\ objects[c.snapshot].kind = "snapshot" /\ objects[c.registry].kind = "registry"
    /\ objects[c.snapshot].registry = c.registry
    /\ CAPACITIES \subseteq DOMAIN c.domains
    /\ Cardinality(Range(c.cost_order)) = Len(c.cost_order)
    /\ DOMAIN c.floors \cup DOMAIN c.charge \subseteq Range(c.cost_order)
    /\ DOMAIN c.shared = DOMAIN c.coefficients
    /\ DOMAIN c.queue_limits = DOMAIN c.domains /\ DOMAIN c.debt_limits = DOMAIN c.domains
    /\ \A k \in DOMAIN c.domains :
          /\ c.domains[k].target > 0 /\ c.domains[k].service > 0
          /\ 0 <= c.domains[k].quality /\ c.domains[k].quality <= c.whole
          /\ 0 <= c.domains[k].coverage /\ c.domains[k].coverage <= c.whole
          /\ k \in DOMAIN objects[c.registry].coordinate_units
          /\ objects[c.registry].coordinate_units[k] = c.domains[k].unit
          /\ c.domains[k].unit \in DOMAIN objects[c.registry].units
    /\ \A k \in Range(c.cost_order) :
          /\ k \in DOMAIN objects[c.registry].coordinate_units
          /\ objects[c.registry].coordinate_units[k] = c.units[k]
          /\ c.units[k] \in DOMAIN objects[c.registry].units
    /\ objects[c.registry].time_unit \in DOMAIN objects[c.registry].units
    /\ objects[c.registry].units[objects[c.registry].time_unit].dimensions = "time" :> 1
    /\ \A u \in DOMAIN objects[c.registry].units : objects[c.registry].units[u].scale > 0
    /\ c.deadline > 0 /\ c.horizon > 0 /\ c.joint_until >= c.deadline /\ c.duration >= 0
    /\ Factors(c.factors) /\ Below(Whole(0), c.margin)
    /\ \A w \in c.windows :
          0 <= w.start /\ w.start < w.end /\ w.end <= c.deadline /\ Factors(w.factors)
    /\ \A f \in {c.shared, c.floors, c.queue_limits, c.debt_limits, c.charge} : _nonnegative(f)
    /\ \A k \in DOMAIN c.coefficients :
          DOMAIN c.coefficients[k] \subseteq DOMAIN c.domains /\ _nonnegative(c.coefficients[k])
    /\ \A k \in DOMAIN c.catalogue : ValidRecipe(c, objects, c.catalogue[k])
    /\ \A j, k \in DOMAIN c.catalogue :
          ActionOf(objects, c.catalogue[j]).id = ActionOf(objects, c.catalogue[k]).id => j = k
    /\ \A x, y \in c.comparators : x.id = y.id => x = y
    /\ check_state(c, c.initial)

-----------------------------------------------------------------------------
(* The frontier: which actions are enabled, and by what. An activation has *)
(* a rule, a producer, one of the producer's successors, a depth and an    *)
(* instant.                                                                *)

DepthOf(lineage) == Max({lineage[x].depth : x \in DOMAIN lineage} \cup {0})

seed(s, f) == [s EXCEPT !.enabled = f.initial, !.lineage = f.carried, !.depth = DepthOf(f.carried)]

\* Every activation follows a rule, from an action that was enabled before it.
check_frontier_state(s, f) ==
    LET given == f.initial \ DOMAIN f.carried
    IN /\ \A x \in DOMAIN f.carried : x \in DOMAIN s.lineage /\ s.lineage[x] = f.carried[x]
       /\ given \cap DOMAIN s.lineage = {} /\ s.enabled = given \cup DOMAIN s.lineage
       /\ \A x \in DOMAIN s.lineage :
             LET event == s.lineage[x]
                 parent == {s.lineage[p] : p \in {event.producer} \cap DOMAIN s.lineage}
             IN /\ event.rule \in DOMAIN f.rules
                /\ x \in f.rules[event.rule].activates
                /\ event.producer = f.rules[event.rule].producer
                /\ event.successor = f.rules[event.rule].successor
                /\ event.producer \in given \/ parent # {}
                /\ event.depth = 1 + Max({p.depth : p \in parent} \cup {0})
                /\ event.time <= s.elapsed
                /\ \A p \in parent : p.time < event.time
       /\ s.depth = DepthOf(s.lineage) /\ s.depth <= f.max_depth

ValidBinding(c, objects, recipe, b) ==
    /\ {b.action, b.capability, b.policy} \subseteq DOMAIN objects
    /\ objects[b.action].kind = "action" /\ objects[b.capability].kind = "capability"
    /\ objects[b.policy].kind = "execution"
    /\ recipe.action = b.action /\ objects[b.action].capability = b.capability
    /\ objects[b.capability].schema_digest = b.schema_digest /\ objects[b.capability].policy = b.policy
    /\ objects[b.capability].image \in objects[b.policy].images

validate_frontier(c, objects, f) ==
    LET recipes == [i \in {ActionOf(objects, r).id : r \in Range(c.catalogue)} |->
                      CHOOSE r \in Range(c.catalogue) : ActionOf(objects, r).id = i]
    IN /\ f.initial \cap f.latent = {} /\ f.initial \cup f.latent = DOMAIN recipes
       /\ DOMAIN f.bindings = DOMAIN recipes
       /\ f.max_depth <= c.max_decisions
       /\ \A i \in DOMAIN f.bindings : ValidBinding(c, objects, recipes[i], f.bindings[i])
       /\ \A x \in DOMAIN f.rules :
             LET rule == f.rules[x]
             IN /\ rule.producer \in DOMAIN recipes
                /\ rule.successor \in {e.id : e \in recipes[rule.producer].successors}
                /\ rule.activates \subseteq DOMAIN recipes
                /\ \A d \in rule.capabilities : d \in DOMAIN objects /\ objects[d].kind = "capability"
                /\ rule.models \subseteq c.models
                /\ DOMAIN rule.capacities \subseteq DOMAIN c.domains /\ _nonnegative(rule.capacities)
                /\ DOMAIN rule.resources \subseteq Range(c.cost_order) /\ _nonnegative(rule.resources)
                /\ 0 <= rule.from /\ rule.from < rule.expires /\ rule.expires <= c.deadline
       /\ DOMAIN f.carried \subseteq f.initial
       /\ check_frontier_state(seed(c.initial, f), f)

Scale(c, objects) == objects[c.registry].units[objects[c.registry].time_unit].scale

\* From start to end in model time, counted from the origin in the registry's scale.
_lifecycle(c, objects, l, start, end) ==
    /\ start * Scale(c, objects) >= l.from - c.origin
    /\ end * Scale(c, objects) <= l.until - c.origin
    /\ end * Scale(c, objects) < l.withdrawn - c.origin

LivesThrough(c, objects, digest, start, end) ==
    digest \in DOMAIN objects /\ "lifecycle" \in DOMAIN objects[digest] =>
       _lifecycle(c, objects, objects[digest].lifecycle, start, end)

BindingLive(c, objects, s, binding, recipe, end) ==
    LET required == {binding.action, binding.capability, binding.policy} \cup objects[binding.action].required
    IN /\ s.elapsed < recipe.expires /\ end <= recipe.expires
       /\ required \subseteq s.live
       /\ _lifecycle(c, objects, binding.lifecycle, s.elapsed, end)
       /\ \A d \in required : LivesThrough(c, objects, d, s.elapsed, end)

_binding_live(c, objects, f, s, id, end) ==
    BindingLive(c, objects, s, f.bindings[id],
                CHOOSE r \in Range(c.catalogue) : r.action = f.bindings[id].action, end)

_conditions(rule, s, end) ==
    /\ rule.from <= s.elapsed /\ end <= rule.expires
    /\ s.models \subseteq rule.models
    /\ rule.capabilities \subseteq s.live
    /\ \A k \in rule.evidence : k \in DOMAIN s.evidence /\ s.evidence[k] >= end
    /\ \A k \in DOMAIN rule.capacities : s.capacities[k][1] >= rule.capacities[k]
    /\ \A k \in DOMAIN rule.resources : s.resources[k] >= rule.resources[k]

\* Mutant: an action once enabled stays usable whatever became of the premises of its rule.
UsableOnceEnabled(c, objects, f, s, id, end) ==
    check_frontier_state(s, f) /\ id \in s.enabled /\ _binding_live(c, objects, f, s, id, end)

\* The premises of all the activations that led to the action hold until the end.
RECURSIVE PremisesLive(_, _, _, _, _, _)
PremisesLive(c, objects, f, s, id, end) ==
    id \in DOMAIN s.lineage =>
       /\ _binding_live(c, objects, f, s, f.rules[s.lineage[id].rule].producer, end)
       /\ _conditions(f.rules[s.lineage[id].rule], s, end)
       /\ \A d \in f.rules[s.lineage[id].rule].capabilities : objects[d].kind = "capability"
       /\ PremisesLive(c, objects, f, s, s.lineage[id].producer, end)

check_use(c, objects, f, s, id, end) ==
    /\ check_frontier_state(s, f)
    /\ id \in s.enabled
    /\ _binding_live(c, objects, f, s, id, end)
    /\ PremisesLive(c, objects, f, s, id, end)

\* The rules that a successor sets off, all judged by the ledger after it; the first by name
\* enables an action.
RulesFor(f, after, producer, effect) ==
    {x \in DOMAIN f.rules : /\ f.rules[x].producer = producer /\ f.rules[x].successor = effect.id
                            /\ _conditions(f.rules[x], after, after.elapsed)}

Activated(c, objects, f, before, after, producer, effect, rules, depth) ==
    LET targets == UNION {f.rules[x].activates : x \in rules} \ before.enabled
        lineage == before.lineage @@
                   [t \in targets |-> [rule |-> Min({x \in rules : t \in f.rules[x].activates}),
                                       producer |-> producer, successor |-> effect.id,
                                       depth |-> depth, time |-> after.elapsed]]
    IN IF /\ targets # {} => depth <= f.max_depth
          /\ \A t \in targets : _binding_live(c, objects, f, after, t, after.elapsed)
       THEN {[after EXCEPT !.enabled = before.enabled \cup targets, !.lineage = lineage, !.depth = DepthOf(lineage)]}
       ELSE {}

activate(c, objects, f, before, after, producer, effect) ==
    IF ~check_use(c, objects, f, before, producer, after.elapsed) THEN {}
    ELSE Activated(c, objects, f, before, after, producer, effect, RulesFor(f, after, producer, effect),
                   1 + Max({before.lineage[x].depth : x \in {producer} \cap DOMAIN before.lineage} \cup {0}))

-----------------------------------------------------------------------------
(* Steps of the game.                                                      *)

\* The result, if it may be.
Checked(c, s) == IF check_state(c, s) THEN {s} ELSE {}

Boundaries(c) == {w.start : w \in c.windows} \cup {w.end : w \in c.windows}

Category(c) == IF c.boundary = "shared-budget" THEN "planner" ELSE "external-planner"

\* The planner is paid for before the first step, from the same budget or from another one.
Paid(c, s) ==
    LET before == IF Category(c) \in DOMAIN s.charges THEN s.charges[Category(c)] ELSE <<>>
        charge == IF c.boundary = "shared-budget" THEN c.charge ELSE <<>>
    IN [s EXCEPT !.charges = (Category(c) :> [k \in DOMAIN c.charge |-> Quantity(before, k) + c.charge[k]]) @@ @,
                 !.resources = [k \in DOMAIN @ |-> @[k] - Quantity(charge, k)],
                 !.spent = Summed(@, charge),
                 !.elapsed = @ + c.duration,
                 !.checkpoints = @ @@ [t \in {s.elapsed} \cup {b \in Boundaries(c) :
                                          s.elapsed <= b /\ b <= s.elapsed + c.duration} |-> s.capacities]]


initial_state(c, frontier) ==
    {IF frontier = {} THEN s ELSE seed(s, CHOOSE f \in frontier : TRUE) : s \in Checked(c, Paid(c, c.initial))}

Premised(names, values, at) == \A x \in names : x \in DOMAIN values /\ values[x] > at

applicable(c, objects, frontier, s, recipe) ==
    LET action == ActionOf(objects, recipe)
    IN /\ s.models # {}
       /\ \A f \in frontier : check_use(c, objects, f, s, action.id, s.elapsed)
       /\ CapabilityOf(objects, recipe).repeatable \/ action.id \notin s.used
       /\ recipe.earliest <= s.elapsed /\ s.elapsed < recipe.expires
       /\ action.required \subseteq s.live
       /\ action.prohibited \cap s.hazards = {}
       /\ Premised(recipe.evidence, s.evidence, s.elapsed) /\ Premised(recipe.assumptions, s.assumptions, s.elapsed)
       /\ \A k \in DOMAIN recipe.minimum : s.capacities[k][1] >= recipe.minimum[k]

successors(s, recipe) == {e \in recipe.successors : s.models \cap e.models # {}}

\* What a step takes for granted holds until its end, and the old capacities are still offered
\* next to what it reserves and the work that arrives.
StepAllowed(c, objects, s, recipe, e, end) ==
    LET action == ActionOf(objects, recipe)
        kept == SelectSeq(s.reservations, LAMBDA r : r.until > s.elapsed)
        work == s.queue @@ e.arrivals @@ s.obligations @@ e.debt_added
        Used(stage) == MapThenSumSet(LAMBDA w : e.completed[w], {w \in DOMAIN e.completed : work[w].stage = stage})
    IN /\ end <= recipe.expires /\ end <= c.deadline
       /\ \A x \in recipe.evidence : s.evidence[x] >= end
       /\ \A x \in recipe.assumptions : s.assumptions[x] >= end
       /\ \A k \in DOMAIN e.reservations : e.reservations[k].until >= end
       /\ check_state(c, [s EXCEPT !.reservations = kept \o e.reservations])
       /\ DOMAIN s.queue \cap DOMAIN e.arrivals = {} /\ DOMAIN s.obligations \cap DOMAIN e.debt_added = {}
       /\ check_state(c, [s EXCEPT !.queue = @ @@ e.arrivals, !.obligations = @ @@ e.debt_added])
       /\ DOMAIN e.completed \subseteq DOMAIN work
       /\ _nonnegative(e.offered) /\ DOMAIN e.offered \subseteq DOMAIN c.domains
       /\ \A w \in DOMAIN e.completed :
             /\ 0 <= e.completed[w] /\ e.completed[w] <= work[w].remaining
             /\ e.completed[w] = 0 \/ work[w].deadline >= end
       /\ \A stage \in DOMAIN c.domains :
             /\ Used(stage) <= Quantity(e.offered, stage)
             /\ Quantity(e.offered, stage) <= s.capacities[stage][1] * e.duration
       /\ \A d \in action.required : d \in DOMAIN objects /\ LivesThrough(c, objects, d, s.elapsed, end)

Remaining(work, completed) ==
    [w \in {x \in DOMAIN work : work[x].remaining > Quantity(completed, x)} |->
       [work[w] EXCEPT !.remaining = @ - Quantity(completed, w)]]

DoneIn(work, completed, stage) ==
    MapThenSumSet(LAMBDA w : completed[w], {w \in DOMAIN completed \cap DOMAIN work : work[w].stage = stage})

Kept(premises, removed, added, end) ==
    added @@ [x \in {y \in DOMAIN premises : y \notin removed /\ premises[y] >= end} |-> premises[x]]

Grown(capacities, delta) ==
    [k \in DOMAIN capacities |->
       IF k \in DOMAIN delta THEN <<capacities[k][1] + delta[k][1], capacities[k][2] + delta[k][2]>> ELSE capacities[k]]

\* Every charge of every category leaves the resources once. Credit is there at the end of the
\* step, so a window that ends then sees it and one that ended before does not.
After(c, s, e, branch, capability, action, end, capacities) ==
    LET queue == s.queue @@ e.arrivals
        debts == s.obligations @@ e.debt_added
        taken == [k \in DOMAIN s.resources |-> Charged(e.charges, k)]
    IN [s EXCEPT
          !.capacities = capacities,
          !.quality = e.quality @@ @, !.coverage = e.coverage @@ @,
          !.resources = [k \in DOMAIN @ |-> @[k] - taken[k]], !.spent = Summed(@, taken),
          !.charges = [x \in DOMAIN @ \cup DOMAIN e.charges |->
                         IF x \notin DOMAIN @ THEN e.charges[x]
                         ELSE IF x \in DOMAIN e.charges THEN Summed(@[x], e.charges[x]) ELSE @[x]],
          !.reservations = SelectSeq(@ \o e.reservations, LAMBDA r : r.until > end),
          !.queue = Remaining(queue, e.completed), !.obligations = Remaining(debts, e.completed),
          !.elapsed = end,
          !.checkpoints = @ @@ [t \in {b \in Boundaries(c) : s.elapsed < b /\ b <= end} |->
                                  IF t = end THEN capacities ELSE s.capacities],
          !.evidence = Kept(@, e.evidence_removed, e.evidence_added, end),
          !.assumptions = Kept(@, e.assumptions_removed, e.assumptions_added, end),
          !.used = IF capability.repeatable THEN @ ELSE @ \cup {action.id},
          !.pending = (@ \ e.resolved) \cup e.pending \cup branch.must_add \cup branch.may_add,
          !.live = @ \ (branch.must_remove \cup branch.may_remove),
          !.hazards = (@ \ branch.hazards_removed) \cup branch.hazards_added,
          !.offered = Summed(@, [k \in DOMAIN c.domains |-> Quantity(e.offered, k)]),
          !.completed = Summed(@, [k \in DOMAIN c.domains |-> DoneIn(queue @@ debts, e.completed, k)]),
          !.attribution = IF @ = e.attribution THEN @ ELSE "attribution-unresolved"]

\* Capacity is credited only when no blocking work is left.
ResultAllowed(c, action, branch, e, result) ==
    /\ (\E k \in DOMAIN e.delta : e.delta[k][1] > 0) =>
          (DOMAIN result.queue \cup DOMAIN result.obligations) \cap c.blocking = {}
    /\ (branch.must_remove \cup branch.may_remove) \cap action.protected = {}
    /\ result.hazards \cap action.prohibited = {}
    /\ check_state(c, result)

Stepped(c, objects, frontier, s, action, branch, e, result) ==
    IF ~ResultAllowed(c, action, branch, e, result) THEN {}
    ELSE IF frontier = {} THEN {result}
    ELSE UNION {activate(c, objects, f, s, result, action.id, e) : f \in frontier}

StepTo(c, objects, frontier, s, recipe, e, branch, end) ==
    Stepped(c, objects, frontier, s, ActionOf(objects, recipe), branch, e,
            After(c, s, e, branch, CapabilityOf(objects, recipe), ActionOf(objects, recipe), end,
                  Grown(s.capacities, e.delta)))

transition(c, objects, frontier, s, recipe, e) ==
    IF /\ applicable(c, objects, frontier, s, recipe)
       /\ e \in successors(s, recipe)
       /\ StepAllowed(c, objects, s, recipe, e, s.elapsed + e.duration)
    THEN StepTo(c, objects, frontier, s, recipe, e, CapabilityOf(objects, recipe).branches[e.outcome],
                s.elapsed + e.duration)
    ELSE {}

-----------------------------------------------------------------------------
(* Search. A search has the interactions it excludes, the endpoint it is   *)
(* for (or none), and the comparisons an entry must beat. A candidate is a *)
(* tree: at each node the state, the action (0 at a leaf), whether growth  *)
(* is entered there, and for each successor its effect and node.           *)

attainment(c, s, bound) ==
    Least(Fraction(s.capacities["task"][bound], c.domains["task"].target),
          Fraction(s.capacities["research"][bound], c.domains["research"].target))
Lower == 1
Upper == 2

\* Both capacities are at least a factor times the most they were before.
Multiplied(s, before, factors) ==
    \A k \in {"task", "research"} : AtMost(Times(Whole(before[k][2]), factors[k]), Whole(s.capacities[k][1]))

block_supported(s, w) ==
    w.start \in DOMAIN s.checkpoints /\ s.elapsed = w.end /\ Multiplied(s, s.checkpoints[w.start], w.factors)

Clear(c, s) ==
    /\ \A k \in c.entry_evidence : k \in DOMAIN s.evidence /\ s.evidence[k] >= s.elapsed
    /\ s.pending = {}
    /\ (DOMAIN s.queue \cup DOMAIN s.obligations) \cap c.blocking = {}

Beats(c, s, comparisons) ==
    \A x \in comparisons : x.complete /\ \E u \in x.upper : Below(Plus(u, c.margin), attainment(c, s, Lower))

entry_allowed(c, s, comparisons) ==
    LET here == {x \in comparisons : x.endpoint = s.elapsed}
    IN /\ AtMost(Whole(1), attainment(c, s, Lower))
       /\ \E w \in c.windows : block_supported(s, w)
       /\ Clear(c, s)
       /\ Cardinality(here) = Cardinality(c.comparators) /\ Beats(c, s, here)

terminal(c, endpoint, s, entry) ==
    IF endpoint # {} THEN s.elapsed \in endpoint
    ELSE \E e \in entry : s.elapsed = e.time + c.horizon /\ Multiplied(s, e.capacities, c.factors)

Leaf(s) == [state |-> s, action |-> 0, entry |-> FALSE, branches |-> <<>>, effects |-> <<>>]

TreeOf(s, id, entry, effects, children) ==
    [state |-> s, action |-> id, entry |-> entry,
     branches |-> [x \in DOMAIN effects |-> children[x].node], effects |-> effects]

ById6(effects) == [x \in {e.id : e \in effects} |-> CHOOSE e \in effects : e.id = x]
Count(children) == 1 + MapThenSumSet(LAMBDA x : children[x].count, DOMAIN children)

\* The recipes in the order of their names, without those of an excluded interaction.
Recipes(c, objects, excluded) ==
    {r \in Range(c.catalogue) : r.interactions \cap excluded = {}}

Stop(c, endpoint, entry) ==
    IF endpoint # {} THEN CHOOSE t \in endpoint : TRUE
    ELSE IF entry # {} THEN (CHOOSE e \in entry : TRUE).time + c.horizon ELSE c.deadline

\* Backward induction for the best worst attainment at the endpoint. A result has the solution,
\* if any, and whether the limits left the search whole.
Scalar(lower, upper, node, count) == [lower |-> lower, upper |-> upper, node |-> node, count |-> count]
Found(best, complete) == [best |-> best, complete |-> complete]

Lowest(S) == CHOOSE x \in S : \A y \in S : AtMost(x, y)

\* The successors looked at, in order: none after one that has no solution.
Explored(effects, some) == {x \in DOMAIN effects : \A y \in DOMAIN effects : y < x => some[y]}

\* The choice of a recipe when all its successors have solutions.
Chosen(c, s, id, effects, results, whole) ==
    LET children == [x \in DOMAIN effects |-> CHOOSE r \in results[x].best : TRUE]
    IN IF \E x \in DOMAIN effects : results[x].best = {} THEN Found({}, whole)
       ELSE IF Count(children) > c.limits.nodes THEN Found({}, FALSE)
       ELSE Found({Scalar(Lowest({children[x].lower : x \in DOMAIN effects}),
                          Lowest({children[x].upper : x \in DOMAIN effects}),
                          TreeOf(s, id, FALSE, effects, children), Count(children))}, whole)

ChosenOf(c, s, id, effects, results) ==
    IF effects = <<>> THEN Found({}, TRUE)
    ELSE Chosen(c, s, id, effects, results,
                \A x \in Explored(effects, [y \in DOMAIN effects |-> results[y].best # {}]) : results[x].complete)

\* Ties go to the first name; the upper bound is the best of all choices'.
Best(choices, complete) ==
    LET all == UNION {x.best : x \in choices}
        best == CHOOSE p \in all : \A q \in all :
                   Below(q.lower, p.lower) \/ (q.lower = p.lower /\ p.node.action <= q.node.action)
    IN IF all = {} THEN Found({}, complete)
       ELSE Found({[best EXCEPT !.upper = Greatest({p.upper : p \in all})]}, complete)

RECURSIVE scalar(_, _, _, _, _, _, _)
ScalarAfter(c, objects, frontier, excluded, endpoint, next, depth) ==
    IF next = {} THEN Found({}, TRUE)
    ELSE scalar(c, objects, frontier, excluded, endpoint, CHOOSE t \in next : TRUE, depth)

ScalarChoice(c, objects, frontier, excluded, endpoint, s, depth, r, effects) ==
    ChosenOf(c, s, ActionOf(objects, r).id, effects,
             [x \in DOMAIN effects |->
                ScalarAfter(c, objects, frontier, excluded, endpoint,
                            transition(c, objects, frontier, s, r, effects[x]), depth + 1)])

BestOf(choices) == Best(choices, \A x \in choices : x.complete)

scalar(c, objects, frontier, excluded, endpoint, s, depth) ==
    IF s.elapsed = endpoint
    THEN Found({Scalar(attainment(c, s, Lower), attainment(c, s, Upper), Leaf(s), 1)}, TRUE)
    ELSE IF s.elapsed > endpoint \/ depth >= c.max_decisions THEN Found({}, TRUE)
    ELSE IF depth >= c.limits.depth THEN Found({}, FALSE)
    ELSE BestOf({ScalarChoice(c, objects, frontier, excluded, endpoint, s, depth, r, ById6(successors(s, r))) :
                 r \in {q \in Recipes(c, objects, excluded) : applicable(c, objects, frontier, s, q)}})

\* All policies: one for every way to go on after each successor.
Candidate(node, terminals, entries, count) ==
    [node |-> node, terminals |-> terminals, entries |-> entries, count |-> count]
Enumerated(options, complete) == [options |-> options, complete |-> complete]

Composed(s, id, entered, effects, children) ==
    Candidate(TreeOf(s, id, entered, effects, children),
              UNION {children[x].terminals : x \in DOMAIN children},
              UNION {children[x].entries : x \in DOMAIN children}, Count(children))

\* The functions that pick a member of each set.
Picks(sets) == {p \in [DOMAIN sets -> UNION Range(sets)] : \A x \in DOMAIN sets : p[x] \in sets[x]}

Bounded6(c, all, whole) ==
    Enumerated({p \in all : p.count <= c.limits.nodes}, whole /\ \A p \in all : p.count <= c.limits.nodes)

Products(c, s, id, entered, effects, results) ==
    IF effects = <<>> THEN Enumerated({}, TRUE)
    ELSE Bounded6(c, {Composed(s, id, entered, effects, p) :
                        p \in Picks([x \in DOMAIN effects |-> results[x].options])},
                  \A x \in Explored(effects, [y \in DOMAIN effects |-> results[y].options # {}]) : results[x].complete)

EntriesAt(c, endpoint, comparisons, s, entry) ==
    {entry} \cup IF entry = {} /\ endpoint = {} /\ entry_allowed(c, s, comparisons)
                 THEN {{[time |-> s.elapsed, capacities |-> s.capacities]}} ELSE {}

JoinedAll(all) == Enumerated(UNION {x.options : x \in all}, \A x \in all : x.complete)

RECURSIVE enumerate(_, _, _, _, _, _, _, _)
EnumerateAfter(c, objects, frontier, endpoint, comparisons, next, depth, entry) ==
    IF next = {} \/ \E t \in next : t.elapsed > Stop(c, endpoint, entry) THEN Enumerated({}, TRUE)
    ELSE enumerate(c, objects, frontier, endpoint, comparisons, CHOOSE t \in next : TRUE, depth, entry)

EnumerateOption(c, objects, frontier, endpoint, comparisons, s, depth, r, effects, entered, entry) ==
    Products(c, s, ActionOf(objects, r).id, entered, effects,
             [x \in DOMAIN effects |->
                EnumerateAfter(c, objects, frontier, endpoint, comparisons,
                               transition(c, objects, frontier, s, r, effects[x]), depth + 1, entry)])

enumerate(c, objects, frontier, endpoint, comparisons, s, depth, entry) ==
    IF terminal(c, endpoint, s, entry)
    THEN Enumerated({Candidate(Leaf(s), {s}, {e.time : e \in entry}, 1)}, TRUE)
    ELSE IF s.elapsed >= Stop(c, endpoint, entry) \/ depth >= c.max_decisions THEN Enumerated({}, TRUE)
    ELSE IF depth >= c.limits.depth THEN Enumerated({}, FALSE)
    ELSE JoinedAll({EnumerateOption(c, objects, frontier, endpoint, comparisons, s, depth, r, ById6(successors(s, r)),
                                    entry = {} /\ chosen # {}, chosen) :
                    r \in {q \in Recipes(c, objects, {}) : applicable(c, objects, frontier, s, q)},
                    chosen \in EntriesAt(c, endpoint, comparisons, s, entry)})

objective(c, p) ==
    [entry |-> Max(p.entries),
     attainment |-> CHOOSE a \in {attainment(c, s, Lower) : s \in p.terminals} :
                       \A s \in p.terminals : AtMost(a, attainment(c, s, Lower)),
     cost |-> [k \in Range(c.cost_order) |-> Max({Quantity(s.spent, k) : s \in p.terminals})],
     debt |-> [k \in DOMAIN c.domains |-> Max({InStage(s.obligations, k) : s \in p.terminals})],
     duration |-> Max({s.elapsed : s \in p.terminals})]

\* The order of the objective: earliest entry, most attained, least cost in the declared order, least
\* debt, shortest, and then the name of the first action.
Order6(c, o, p) ==
    <<Whole(o.entry), Minus(Whole(0), o.attainment)>>
    \o [k \in DOMAIN c.cost_order |-> Whole(o.cost[c.cost_order[k]])]
    \o [k \in DOMAIN c.domain_order |-> Whole(o.debt[c.domain_order[k]])]
    \o <<Whole(o.duration), Whole(p.node.action)>>

objective_key(c, p) == Order6(c, objective(c, p), p)

Precedes(left, right) ==
    \E k \in DOMAIN left : Below(left[k], right[k]) /\ \A j \in 1..k - 1 : left[j] = right[j]

First6(c, options) ==
    CHOOSE p \in options : \A q \in options : ~Precedes(objective_key(c, q), objective_key(c, p))

-----------------------------------------------------------------------------
(* What a policy owes to the frontier. Its branches meet activations, and  *)
(* uses of actions that were activated before; where in the policy an      *)
(* activation is first used is left out.                                   *)

NewlyActivated(before, after) ==
    {[what |-> "activated", action |-> x, producer |-> after.lineage[x].producer, depth |-> after.lineage[x].depth] :
       x \in DOMAIN after.lineage \ DOMAIN before.lineage}

UseOf(s, node, r, continuation) ==
    {[what |-> "used", action |-> x, continuation |-> continuation,
      verifies |-> \E e \in successors(s, r) : "verification" \in DOMAIN e.delta /\ e.delta["verification"][1] > 0] :
       x \in {node.action} \cap DOMAIN s.lineage}

RECURSIVE Met(_, _, _, _, _, _)
MetBy(c, objects, f, node, s, r, continuation) ==
    UseOf(s, node, r, continuation)
    \cup UNION {NewlyActivated(s, t) \cup Met(c, objects, f, node.branches[e.id], t, continuation) :
                <<e, t>> \in UNION {{e} \X transition(c, objects, {f}, s, r, e) : e \in successors(s, r)}}

Met(c, objects, f, node, s, continuation) ==
    UNION {MetBy(c, objects, f, node, s, r, continuation \/ node.entry) :
           r \in {q \in Range(c.catalogue) : ActionOf(objects, q).id = node.action}}

Summary(met, f) ==
    LET used == {x.action : x \in {y \in met : y.what = "used"}}
        carried == {f.carried[x] : x \in DOMAIN f.carried}
        activated == {x \in met : x.what = "activated"}
    IN [enabled |-> {x.action : x \in activated}, used |-> used,
        depth |-> Max({0} \cup {x.depth : x \in activated \cup carried}),
        continuation |-> \E x \in met : x.what = "used" /\ x.continuation,
        recursive |-> \E x \in activated \cup carried : x.producer \in used,
        verifies |-> \E x \in met : x.what = "used" /\ x.verifies]

diagnostics(c, objects, f, policy, start) ==
    Summary(UNION {Met(c, objects, f, node, start, FALSE) : node \in policy}, f)

-----------------------------------------------------------------------------
(* Comparisons, plans and the checker.                                     *)

\* The best of each restricted class at each end of a window, from the same start.
Comparison(x, endpoint, found) ==
    [id |-> x.id, endpoint |-> endpoint, complete |-> found.complete,
     lower |-> {b.lower : b \in found.best},
     upper |-> IF found.complete THEN {b.upper : b \in found.best} ELSE {}]

compare(c, objects, frontier, start) ==
    {Comparison(x, t, IF start.models = {} THEN Found({}, TRUE)
                      ELSE scalar(c, objects, frontier, x.excluded, t, start, 0)) :
       x \in c.comparators, t \in {w.end : w \in c.windows}}

Joint(node, parts) ==
    IF \E x \in DOMAIN parts : parts[x] = {} THEN {}
    ELSE {Candidate(node, UNION {q.terminals : q \in UNION Range(parts)}, UNION {q.entries : q \in UNION Range(parts)},
                    1 + MapThenSumSet(LAMBDA x : (CHOOSE q \in parts[x] : TRUE).count, DOMAIN parts))}

\* The walk of the checker: the nodes it counts, and the terminals and entries it meets, or nothing.
RECURSIVE Walk(_, _, _, _, _, _, _, _, _)
WalkRecipe(c, objects, frontier, endpoint, comparisons, node, s, depth, entry, r) ==
    Joint(node, [x \in DOMAIN node.branches |->
                   UNION {Walk(c, objects, frontier, endpoint, comparisons, node.branches[x], t, depth + 1, entry) :
                          t \in transition(c, objects, frontier, s, r, node.effects[x])}])

WalkEntered(c, objects, frontier, endpoint, comparisons, node, s, depth, entry) ==
    IF node.action = 0
    THEN IF node.branches = <<>> /\ terminal(c, endpoint, s, entry)
         THEN {Candidate(node, {s}, {e.time : e \in entry}, 1)} ELSE {}
    ELSE UNION {WalkRecipe(c, objects, frontier, endpoint, comparisons, node, s, depth, entry, r) :
                r \in {q \in Range(c.catalogue) :
                         /\ ActionOf(objects, q).id = node.action /\ node.effects = ById6(successors(s, q))
                         /\ DOMAIN node.branches = DOMAIN node.effects /\ node.effects # <<>>}}

Walk(c, objects, frontier, endpoint, comparisons, node, s, depth, entry) ==
    IF /\ depth <= c.max_decisions /\ check_state(c, s) /\ s.models # {} /\ node.state = s
       /\ node.entry => entry = {} /\ entry_allowed(c, s, comparisons)
    THEN WalkEntered(c, objects, frontier, endpoint, comparisons, node, s, depth,
                     IF node.entry THEN {[time |-> s.elapsed, capacities |-> s.capacities]} ELSE entry)
    ELSE {}

check_tree(c, objects, frontier, endpoint, comparisons, node, start, entry) ==
    {p \in Walk(c, objects, frontier, endpoint, comparisons, node, start, 0, entry) : p.count <= c.limits.nodes}

Plan6(code, class, policy, fallback, comparisons, objective6, owed) ==
    [code |-> code, solution_class |-> class, policy |-> policy, fallback |-> fallback,
     comparisons |-> comparisons, objective |-> objective6, diagnostics |-> owed]

PlanCode(start, complete, best) ==
    IF start.models = {} THEN "growth_inconsistent_models"
    ELSE IF ~complete THEN "growth_unknown_due_to_budget"
    ELSE IF best # {} THEN "growth_model_policy_found" ELSE "growth_no_guaranteed_entry"

\* A policy is given out only when the checker finds the same objective; without one a policy that is
\* safe until the deadline may be.
PlanOf(c, objects, frontier, start, comparisons, best, complete, fallback) ==
    IF /\ \A p \in best : \E q \in check_tree(c, objects, frontier, {}, comparisons, p.node, start, {}) :
             objective(c, q) = objective(c, p)
       /\ \A p \in fallback : check_tree(c, objects, frontier, {c.deadline}, {}, p.node, start, {}) # {}
    THEN {Plan6(PlanCode(start, complete, best), IF complete THEN "exact" ELSE "incomplete",
                {p.node : p \in best}, {p.node : p \in fallback}, comparisons, {objective(c, p) : p \in best},
                {diagnostics(c, objects, f, {p.node : p \in best}, start) : f \in frontier})}
    ELSE {}

PlanFrom(c, objects, frontier, start, comparisons, found) ==
    PlanOf(c, objects, frontier, start, comparisons, IF found.options = {} THEN {} ELSE {First6(c, found.options)},
           found.complete /\ \A x \in comparisons : x.complete,
           IF found.options # {} \/ start.models = {} THEN {}
           ELSE scalar(c, objects, frontier, {}, c.deadline, start, 0).best)

PlanWith(c, objects, frontier, start, comparisons) ==
    PlanFrom(c, objects, frontier, start, comparisons,
             IF start.models = {} THEN Enumerated({}, TRUE)
             ELSE enumerate(c, objects, frontier, {}, comparisons, start, 0, {}))

plan_growth(c, objects, frontier) ==
    IF validate_contract(c, objects) /\ \A f \in frontier : validate_frontier(c, objects, f)
    THEN UNION {PlanWith(c, objects, frontier, start, compare(c, objects, frontier, start)) :
                start \in initial_state(c, frontier)}
    ELSE {}

\* A plan is good for the contract, the objects and the frontier it was made for, and is checked anew.
check_plan(c, objects, frontier, plan) ==
    /\ validate_contract(c, objects) /\ \A f \in frontier : validate_frontier(c, objects, f)
    /\ \E start \in initial_state(c, frontier) :
          /\ plan.comparisons = compare(c, objects, frontier, start)
          /\ \E node \in plan.policy :
                \E q \in check_tree(c, objects, frontier, {}, plan.comparisons, node, start, {}) :
                   plan.objective = {objective(c, q)}
          /\ plan.diagnostics = {diagnostics(c, objects, f, plan.policy, start) : f \in frontier}
=============================================================================
