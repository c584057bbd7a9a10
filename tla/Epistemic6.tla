----------------------------- MODULE Epistemic6 -----------------------------
(***************************************************************************)
(* Growth under a hidden model: v6/epistemic.py, epistemic_planning.py,    *)
(* epistemic_checking.py, epistemic_evidence.py and information_value.py.  *)
(*                                                                         *)
(* A support is the set of hypotheses that the symbols seen so far leave   *)
(* open: a model, a ledger, the entry (a set of at most one) and the       *)
(* number of steps. A domain is a record: contract, objects, frontier,     *)
(* epistemic contract, the map of the observations, and what is excluded.  *)
(* An error of the code is a result without a support; one that comes of a *)
(* limit ("limit") leaves a search incomplete, any other refuses the step. *)
(* The limits are those on depth, history and support.                     *)
(***************************************************************************)
EXTENDS GrowthEvidence6

COST_CATEGORIES == {"construction", "search", "checking", "transport", "maintenance", "application"}

Hypothesis(model, state, entry, steps) == [model |-> model, state |-> state, entry |-> entry, steps |-> steps]

\* The rows a kernel must have: a model, an action and one of its successors in that model.
KernelRows(c) ==
    UNION {UNION {{<<m, r.action, e.id>> : m \in e.models} : e \in r.successors} : r \in Range(c.catalogue)}

ValidEvent(c, event) ==
    /\ event.duration >= 0 /\ DOMAIN event.charges \subseteq COST_CATEGORIES
    /\ \A x \in DOMAIN event.charges :
          DOMAIN event.charges[x] \subseteq Range(c.cost_order) /\ _nonnegative(event.charges[x])

\* Domain._validate
ValidDomain(d) ==
    /\ validate_contract(d.contract, d.objects)
    /\ \A f \in d.frontier : validate_frontier(d.contract, d.objects, f)
    /\ d.epistemic.contract = d.contract /\ d.epistemic.frontier = d.frontier
    /\ DOMAIN d.epistemic.kernel = KernelRows(d.contract)
    /\ \A row \in DOMAIN d.epistemic.kernel : d.epistemic.kernel[row] \subseteq d.epistemic.alphabet
    /\ DOMAIN d.map = d.epistemic.alphabet
    /\ d.excluded \subseteq {ActionOf(d.objects, r).id : r \in Range(d.contract.catalogue)}
    /\ \A x, y \in d.epistemic.events : x.id = y.id => x = y
    /\ \A x \in d.epistemic.events : ValidEvent(d.contract, x)

Result6(code, value) == [code |-> code, value |-> value]

\* A support is not empty and not too large.
bounded(d, support) ==
    IF support = {} THEN Result6("inconsistent", {})
    ELSE IF Cardinality(support) > d.epistemic.max_support THEN Result6("limit", {})
    ELSE Result6("ok", support)

\* The fees that are due after so many steps, in the order of their names: each is taken from the
\* ledger as the charge for planning is.
Fee(c, event, h) ==
    {[h EXCEPT !.state = s] :
       s \in initial_state([c EXCEPT !.initial = h.state, !.boundary = "shared-budget", !.duration = event.duration,
                                     !.charge = [k \in Range(c.cost_order) |-> Charged(event.charges, k)]], {})}

RECURSIVE PayAll(_, _, _)
PayAll(c, due, hypotheses) ==
    IF due = {} THEN hypotheses
    ELSE LET event == CHOOSE x \in due : \A y \in due : x.id <= y.id
         IN PayAll(c, due \ {event}, UNION {Fee(c, event, h) : h \in hypotheses})

pay(d, h) == PayAll(d.contract, {x \in d.epistemic.events : x.after = h.steps}, {h})

\* All of them or none.
Each(sets) == IF {} \in sets THEN {} ELSE UNION sets

\* Domain.initial
InitialFrom(d, paid) == IF paid = {} THEN Result6("refused", {}) ELSE bounded(d, paid)

Start6(d, s) ==
    IF s.models = {} THEN Result6("inconsistent", {})
    ELSE InitialFrom(d, Each({pay(d, Hypothesis(m, [s EXCEPT !.models = {m}], {}, 0)) : m \in s.models}))

InitialSupport(d) ==
    LET states == initial_state(d.contract, d.frontier)
    IN IF states = {} THEN Result6("refused", {}) ELSE Start6(d, CHOOSE s \in states : TRUE)

\* One step of one hypothesis: the symbols it may show and what follows.
Shown(d, h, recipe, e) ==
    UNION {{[symbol |-> d.map[raw], hypothesis |-> n] : raw \in d.epistemic.kernel[<<h.model, recipe.action, e.id>>]} :
           n \in UNION {pay(d, Hypothesis(h.model, t, h.entry, h.steps + 1)) :
                        t \in transition(d.contract, d.objects, d.frontier, h.state, recipe, e)}}

\* Mutant: a hypothesis for which a step fails is dropped.
StepsDropped(d, support, recipe) ==
    UNION {Shown(d, h, recipe, e) : h \in support, e \in recipe.successors}

\* A step that fails under one hypothesis is refused.
StepsOf(d, support, recipe) ==
    IF \A h \in support : /\ h.state.models = {h.model} /\ h.steps < d.contract.max_decisions
                          /\ applicable(d.contract, d.objects, d.frontier, h.state, recipe)
                          /\ successors(h.state, recipe) # {}
    THEN Each(UNION {{Shown(d, h, recipe, e) : e \in successors(h.state, recipe)} : h \in support})
    ELSE {}

Grouped(d, steps) ==
    LET groups == [symbol \in {x.symbol : x \in steps} |-> {x.hypothesis : x \in {y \in steps : y.symbol = symbol}}]
    IN IF steps = {} THEN Result6("refused", {})
       ELSE IF \E symbol \in DOMAIN groups : bounded(d, groups[symbol]).code = "limit" THEN Result6("limit", {})
       ELSE Result6("ok", {groups})

Allowed6(d, recipe) ==
    ActionOf(d.objects, recipe).id \notin d.excluded /\ recipe.interactions \cap d.interactions = {}

\* An action taken under all hypotheses at once: the support for each symbol.
advance(d, support, recipe) ==
    IF support = {} \/ ~Allowed6(d, recipe) THEN Result6("refused", {}) ELSE Grouped(d, StepsOf(d, support, recipe))

\* Growth is entered when it may be under every hypothesis.
mark_entry(d, support, comparisons) ==
    IF \A h \in support : h.entry = {} /\ entry_allowed(d.contract, h.state, comparisons)
    THEN {{[h EXCEPT !.entry = {[time |-> h.state.elapsed, capacities |-> h.state.capacities]}] : h \in support}}
    ELSE {}

Terminal6(d, support, endpoint) == support # {} /\ \A h \in support : terminal(d.contract, endpoint, h.state, h.entry)

\* What the controller may know: bounds over the support, and the actions enabled under all of it.
controller_view(d, support) ==
    LET ids == {ActionOf(d.objects, r).id : r \in Range(d.contract.catalogue)}
        Bounds(values) == <<Min(values), Max(values)>>
    IN [models |-> {h.model : h \in support}, pairs |-> Cardinality(support),
        enabled |-> {i \in ids \ d.excluded : d.frontier # {} => \A h \in support : i \in h.state.enabled},
        capacities |-> [k \in DOMAIN d.contract.domains |->
                          <<Min({h.state.capacities[k][1] : h \in support}), Max({h.state.capacities[k][2] : h \in support})>>],
        resources |-> [k \in Range(d.contract.cost_order) |-> Bounds({h.state.resources[k] : h \in support})],
        spent |-> [k \in Range(d.contract.cost_order) |-> Bounds({Quantity(h.state.spent, k) : h \in support})],
        elapsed |-> Bounds({h.state.elapsed : h \in support}),
        debt |-> [k \in DOMAIN d.contract.domains |-> Bounds({InStage(h.state.obligations, k) : h \in support})],
        depth |-> Bounds({h.state.depth : h \in support})]

-----------------------------------------------------------------------------
(* Policies that depend on the symbols only.                               *)

Policy(support, id, entry, branches, leaves) ==
    [node |-> [support |-> support, action |-> id, entry |-> entry, branches |-> branches], leaves |-> leaves]

Listed(policies, complete) == [policies |-> policies, complete |-> complete]

Ended(d, support, endpoint) ==
    \E h \in support : h.state.elapsed >= Stop(d.contract, endpoint, h.entry)

Joined6(support, id, entry, children) ==
    Policy(support, id, entry, [x \in DOMAIN children |-> children[x].node], UNION {children[x].leaves : x \in DOMAIN children})

\* All ways to go on after each symbol.
Trees(support, id, entry, results) ==
    Listed({Joined6(support, id, entry, p) : p \in Picks([x \in DOMAIN results |-> results[x].policies])},
           \A x \in DOMAIN results : results[x].complete)

\* The actions are tried by name, first without an entry; one that meets a limit ends the search here.
TriedBefore(tries, t) == {u \in DOMAIN tries : u[1] < t[1] \/ (u[1] = t[1] /\ u[2] < t[2])}

Tried(tries) ==
    LET limited == {t \in DOMAIN tries : tries[t].code = "limit"}
        reached == {t \in DOMAIN tries : limited \cap (TriedBefore(tries, t) \cup {t}) = {}}
        found == UNION {tries[t].value : t \in reached}
    IN Listed(UNION {x.policies : x \in found}, limited = {} /\ \A x \in found : x.complete)

RECURSIVE enumerate6(_, _, _, _, _)
enumerate6(d, comparisons, endpoint, support, depth) ==
    LET Entries == <<{support}, IF endpoint = {} THEN mark_entry(d, support, comparisons) ELSE {}>>
        After6(groups) == [x \in DOMAIN groups |-> enumerate6(d, comparisons, endpoint, groups[x], depth + 1)]
        Try(result, id, entry) ==
            Result6(result.code, {Trees(support, id, entry, After6(groups)) : groups \in result.value})
        Ways == {<<k, r>> \in {1, 2} \X Range(d.contract.catalogue) : Entries[k] # {}}
    IN IF Terminal6(d, support, endpoint) THEN Listed({Policy(support, 0, FALSE, <<>>, support)}, TRUE)
       ELSE IF depth >= d.contract.max_decisions THEN Listed({}, TRUE)
       ELSE IF depth >= Min({d.contract.limits.depth, d.epistemic.max_history}) THEN Listed({}, FALSE)
       ELSE IF Ended(d, support, endpoint) THEN Listed({}, TRUE)
       ELSE Tried([w \in {<<v[1], ActionOf(d.objects, v[2]).id>> : v \in Ways} |->
                     Try(advance(d, CHOOSE S \in Entries[w[1]] : TRUE, RecipeFor(d.contract, d.objects, w[2])),
                         w[2], w[1] = 2)])

ObjectiveOf(c, leaves) ==
    objective(c, [terminals |-> {h.state : h \in leaves}, entries |-> {e.time : e \in UNION {h.entry : h \in leaves}}])

policy_objective(d, p) == ObjectiveOf(d.contract, p.leaves)

policy_key(d, p) == Order6(d.contract, policy_objective(d, p), p)

ClassOf(d, x) == [d EXCEPT !.interactions = @ \cup x.excluded]

Secured(c, leaves, bound) == Lowest({attainment(c, h.state, bound) : h \in leaves})

Compared6(c, x, endpoint, found) ==
    LET lowers == {Secured(c, p.leaves, Lower) : p \in found.policies}
        uppers == {Secured(c, p.leaves, Upper) : p \in found.policies}
    IN [id |-> x.id, endpoint |-> endpoint, complete |-> found.complete,
        lower |-> IF lowers = {} THEN {} ELSE {Greatest(lowers)},
        upper |-> IF uppers = {} \/ ~found.complete THEN {} ELSE {Greatest(uppers)}]

\* Every restricted class from the same start. An empty or too large support leaves it undecided.
compare_epistemic(d, start, depth) ==
    {Compared6(d.contract, x, t, IF start.code # "ok" THEN Listed({}, FALSE)
                                 ELSE enumerate6(ClassOf(d, x), {}, {t}, start.value, depth)) :
       x \in d.contract.comparators, t \in {w.end : w \in d.contract.windows}}

-----------------------------------------------------------------------------
(* The checker: backward induction instead of policies.                    *)

\* The bounds of a restricted class, if any, and whether no limit was met.
Value6(c, endpoint, support) ==
    Found({[lower |-> Secured(c, support, Lower), upper |-> Secured(c, support, Upper)]}, TRUE)

Least6(children) ==
    IF \E x \in DOMAIN children : children[x].best = {} THEN {}
    ELSE {[lower |-> Lowest({(CHOOSE b \in children[x].best : TRUE).lower : x \in DOMAIN children}),
           upper |-> Lowest({(CHOOSE b \in children[x].best : TRUE).upper : x \in DOMAIN children})]}

Most6(options, whole) ==
    Found(IF options = {} THEN {} ELSE {[lower |-> Greatest({b.lower : b \in options}), upper |-> Greatest({b.upper : b \in options})]},
          whole)

Judge(children) == [best |-> Least6(children), complete |-> \A x \in DOMAIN children : children[x].complete]

RECURSIVE ReferenceValue(_, _, _, _)
ReferenceValue(d, endpoint, support, depth) ==
    LET Children(groups) == [x \in DOMAIN groups |-> ReferenceValue(d, endpoint, groups[x], depth + 1)]
        Judged6(result) ==
            IF result.code = "limit" THEN {Found({}, FALSE)} ELSE {Judge(Children(groups)) : groups \in result.value}
        Together(all) == Most6(UNION {x.best : x \in all}, \A x \in all : x.complete)
    IN IF \A h \in support : h.state.elapsed = endpoint THEN Value6(d.contract, endpoint, support)
       ELSE IF depth >= d.contract.max_decisions \/ \E h \in support : h.state.elapsed >= endpoint THEN Found({}, TRUE)
       ELSE IF depth >= Min({d.contract.limits.depth, d.epistemic.max_history}) THEN Found({}, FALSE)
       ELSE Together(UNION {Judged6(advance(d, support, r)) : r \in Range(d.contract.catalogue)})

\* A limit is an error here.
AllComplete(comparisons) == IF \A r \in comparisons : r.complete THEN {comparisons} ELSE {}

ReferenceFor(x, t, found) ==
    [id |-> x.id, endpoint |-> t, complete |-> found.complete,
     lower |-> {b.lower : b \in found.best}, upper |-> {b.upper : b \in found.best}]

reference_comparisons(d, start, depth) ==
    IF start.code # "ok" THEN {}
    ELSE AllComplete({ReferenceFor(x, t, ReferenceValue(ClassOf(d, x), t, start.value, depth)) :
                      x \in d.contract.comparators, t \in {w.end : w \in d.contract.windows}})

\* The support after a history of actions and symbols. An entry was judged by the comparisons of the
\* epoch in which it was made.
Advance1(result, symbol) ==
    IF result.code # "ok" THEN result
    ELSE LET groups == CHOOSE g \in result.value : TRUE
         IN IF symbol \in DOMAIN groups THEN Result6("ok", groups[symbol]) ELSE Result6("mismatch", {})

ReplayStep(d, history, entered) ==
    LET step == Last(history)
    IN IF step.epoch >= Len(history) \/ (step.epoch # 0 /\ ~step.entry) \/ entered = {} THEN Result6("refused", {})
       ELSE Advance1(advance(d, CHOOSE S \in entered : TRUE, RecipeFor(d.contract, d.objects, step.action)), step.symbol)

RECURSIVE Replay6(_, _, _), EpochBasis(_, _, _)
EpochStart(d, history, basis) ==
    IF basis = {} THEN Result6("limit", {}) ELSE Replay6(d, history, CHOOSE b \in basis : TRUE)

\* Every epoch but the first starts from the history that was known then.
EpochBasis(d, history, epoch) ==
    reference_comparisons(d, IF epoch = 0 THEN InitialSupport(d)
                             ELSE EpochStart(d, SubSeq(history, 1, epoch), EpochBasis(d, history, 0)), epoch)

EnteredAt(d, history, comparisons, support) ==
    IF ~Last(history).entry THEN {support}
    ELSE UNION {mark_entry(d, support, b) :
                b \in IF Last(history).epoch = 0 THEN {comparisons} ELSE EpochBasis(d, history, Last(history).epoch)}

ReplayFollowing(d, history, comparisons, before) ==
    IF before.code # "ok" THEN before ELSE ReplayStep(d, history, EnteredAt(d, history, comparisons, before.value))

Replay6(d, history, comparisons) ==
    IF history = <<>> THEN InitialSupport(d)
    ELSE ReplayFollowing(d, history, comparisons, Replay6(d, SubSeq(history, 1, Len(history) - 1), comparisons))

replay6(d, history, comparisons) ==
    IF Len(history) > d.epistemic.max_history THEN Result6("limit", {}) ELSE Replay6(d, history, comparisons)

EpistemicPlan(d, code, policy, complete, objective6, comparisons, history) ==
    [domain |-> d, code |-> code, policy |-> policy, complete |-> complete, objective |-> objective6, comparisons |-> comparisons,
     history |-> history]

FirstPolicy(d, policies) == CHOOSE p \in policies : \A q \in policies : ~Precedes(policy_key(d, q), policy_key(d, p))

EpistemicCode(code, best, complete) ==
    IF best # {} THEN IF complete THEN "epistemic_policy_found" ELSE "epistemic_incumbent"
    ELSE IF code # "ok" THEN code ELSE IF complete THEN "epistemic_no_guaranteed_entry" ELSE "epistemic_search_unknown"

PlanEpistemic(d, history, comparisons, start, found) ==
    LET best == IF found.policies = {} THEN {} ELSE {FirstPolicy(d, found.policies)}
        complete == found.complete /\ \A x \in comparisons : x.complete
    IN EpistemicPlan(d, EpistemicCode(start.code, best, complete), {p.node : p \in best}, complete,
                     {policy_objective(d, p) : p \in best}, comparisons, history)

PlanOver(d, history, start, comparisons) ==
    PlanEpistemic(d, history, comparisons, start,
                  IF start.code = "ok" THEN enumerate6(d, comparisons, {}, start.value, Len(history)) ELSE Listed({}, FALSE))

PlanAfter(d, history, start) ==
    IF start.code \in {"refused", "mismatch"} THEN {}
    ELSE {PlanOver(d, history, start, compare_epistemic(d, start, Len(history)))}

\* A history with an entry is replayed against the comparisons from the beginning.
plan_epistemic(d, history) ==
    IF ~ValidDomain(d) THEN {}
    ELSE PlanAfter(d, history, replay6(d, history, IF history = <<>> THEN {} ELSE compare_epistemic(d, InitialSupport(d), 0)))

\* The walk of the checker: the leaves of a policy, or nothing.
RECURSIVE WalkPolicy(_, _, _, _, _)
WalkBelow(d, comparisons, node, groups, depth) ==
    IF DOMAIN groups = DOMAIN node.branches
    THEN Each({WalkPolicy(d, comparisons, node.branches[x], groups[x], depth + 1) : x \in DOMAIN groups}) ELSE {}

WalkFrom(d, comparisons, node, S, depth) ==
    IF node.action = 0 THEN IF node.branches = <<>> /\ ~node.entry /\ Terminal6(d, S, {}) THEN {S} ELSE {}
    ELSE IF Terminal6(d, S, {}) THEN {}
    ELSE UNION {WalkBelow(d, comparisons, node, groups, depth) :
                groups \in advance(d, S, RecipeFor(d.contract, d.objects, node.action)).value}

WalkPolicy(d, comparisons, node, support, depth) ==
    IF depth > d.contract.max_decisions \/ depth > d.epistemic.max_history \/ node.support # support THEN {}
    ELSE UNION {WalkFrom(d, comparisons, node, S, depth) :
                S \in IF node.entry THEN mark_entry(d, support, comparisons) ELSE {support}}

ClaimHolds(d, plan, leaves) == leaves # {} /\ plan.objective = {ObjectiveOf(d.contract, UNION leaves)}

CheckedFrom(d, plan, start, basis) ==
    \E comparisons \in basis, node \in plan.policy :
       ClaimHolds(d, plan, WalkPolicy(d, comparisons, node, start.value, Len(plan.history)))

CheckFrom(d, plan, start) ==
    start.code = "ok" /\ CheckedFrom(d, plan, start, reference_comparisons(d, start, Len(plan.history)))

check_epistemic_plan(d, plan) ==
    plan.domain = d /\ plan.policy # {} /\ plan.objective # {}
    /\ \E comparisons \in IF plan.history = <<>> THEN {{}} ELSE reference_comparisons(d, InitialSupport(d), 0) :
          CheckFrom(d, plan, replay6(d, plan.history, comparisons))

-----------------------------------------------------------------------------
(* Observations, and what information is worth.                            *)

\* A ledger may be measured without telling the model.
Fits(actual, h) == _within_prediction([actual EXCEPT !.models = h.state.models], base_state(h.state))

Entered6(h, step) ==
    IF step.entry THEN [h EXCEPT !.entry = {[time |-> h.state.elapsed, capacities |-> h.state.capacities]}] ELSE h

\* The hypotheses that also explain the ledger and the outcome of a receipt. A step that fails is an error.
Fitting(actual, next) == [failed |-> next = {}, fitting |-> {n \in next : Fits(actual, n)}]

Explained(d, h, recipe, step, outcome, actual) ==
    {Fitting(actual, UNION {pay(d, Hypothesis(h.model, t, h.entry, h.steps + 1)) :
                            t \in transition(d.contract, d.objects, d.frontier, h.state, recipe, e)}) :
       e \in {x \in successors(h.state, recipe) :
                x.outcome = outcome /\ step.symbol \in d.epistemic.kernel[<<h.model, recipe.action, x.id>>]}}

RECURSIVE JointTrace(_, _, _, _, _)
JointRest(d, history, states, outcomes, explained) ==
    /\ \A x \in explained : ~x.failed
    /\ JointTrace(d, history, states, outcomes, UNION {x.fitting : x \in explained})

JointTrace(d, history, states, outcomes, joint) ==
    IF joint = {} \/ Cardinality(joint) > d.epistemic.max_support THEN FALSE
    ELSE IF history = <<>> THEN TRUE
    ELSE JointRest(d, Tail(history), Tail(states), Tail(outcomes),
                   UNION {Explained(d, Entered6(h, Head(history)), RecipeFor(d.contract, d.objects, Head(history).action),
                                    Head(history), Head(outcomes), Head(states)) : h \in joint})

_joint_receipt_trace(d, history, o, outcomes) ==
    JointTrace(d, history, Tail(o.states), outcomes, {h \in InitialSupport(d).value : Fits(o.states[1], h)})

\* A symbol counts when the output of the admitted receipt of its step says it.
HistoryAdmitted(d, q, o, view) ==
    /\ Len(q.history) = Len(o.receipts)
    /\ \A a \in d.epistemic.alphabet : d.map[a] = a
    /\ \A j \in DOMAIN q.history :
          /\ Admits(view, o.receipts[j], "receipt")
          /\ LET receipt == view.objects[o.receipts[j]]
             IN /\ Admits(view, receipt.job, "job")
                /\ view.objects[receipt.job].action = RecipeFor(d.contract, d.objects, q.history[j].action).action
                /\ receipt.stdout \in Range(o.sources)
                /\ view.raw[receipt.stdout] = [epistemic |-> d.epistemic.digest, symbol |-> q.history[j].symbol]

SupportFrom(d, q, o, view, start) ==
    IF start.code = "ok" /\ _joint_receipt_trace(d, q.history, o, [j \in DOMAIN o.receipts |-> view.objects[o.receipts[j]].outcome])
    THEN start.value ELSE {}

\* The support that admitted evidence leaves open, or none.
reassess_epistemic(d, q, o, view) ==
    IF /\ view.valid /\ \E a \in reassess(d.contract, d.objects, o, view) : a.compatible
       /\ Admits(view, q.digest, "epistemic-observation") /\ Admits(view, d.epistemic.digest, "epistemic")
       /\ \A f \in d.frontier : Admits(view, f.digest, "frontier")
       /\ q.epistemic = d.epistemic.digest /\ q.observation = o.digest /\ q.evaluator = o.evaluator
       /\ HistoryAdmitted(d, q, o, view)
    THEN UNION {SupportFrom(d, q, o, view, replay6(d, q.history, comparisons)) :
                comparisons \in reference_comparisons(d, InitialSupport(d), 0)}
    ELSE {}

replan_epistemic(d, q, o, view) ==
    IF reassess_epistemic(d, q, o, view) = {} THEN {} ELSE plan_epistemic(d, q.history)

export_epistemic(d, plan, job) ==
    /\ check_epistemic_plan(d, plan)
    /\ \A node \in plan.policy :
          LET recipe == RecipeFor(d.contract, d.objects, node.action)
          IN /\ node.action # 0 /\ job.action = recipe.action /\ job.capability = ActionOf(d.objects, recipe).capability
             /\ job.policy = CapabilityOf(d.objects, recipe).policy /\ job.image = CapabilityOf(d.objects, recipe).image
             /\ job.generation = d.objects[d.contract.snapshot].generation
             /\ ActionOf(d.objects, recipe).required \subseteq job.inputs

\* How an objective compares with the one of another class of policies.
Deltas(c, a, b) ==
    [entry |-> a.entry - b.entry, attainment |-> Minus(a.attainment, b.attainment),
     cost |-> [k \in Range(c.cost_order) |-> a.cost[k] - b.cost[k]],
     debt |-> [k \in DOMAIN c.domains |-> a.debt[k] - b.debt[k]], duration |-> a.duration - b.duration]

difference(c, full, other) ==
    [status |-> IF ~full.complete \/ ~other.complete THEN "unknown"
                ELSE IF full.objective # {} /\ other.objective # {} THEN "both"
                ELSE IF full.objective # {} THEN "full-only"
                ELSE IF other.objective # {} THEN "comparator-only" ELSE "neither",
     deltas |-> IF full.complete /\ other.complete
                THEN {Deltas(c, a, b) : a \in full.objective, b \in other.objective} ELSE {}]

ValueOf(d, plans) ==
    {[full |-> p, blind |-> q, without |-> r,
      information_use |-> difference(d.contract, p, q), net_sensing |-> difference(d.contract, p, r)] :
       p \in plans["full"], q \in plans["blind"], r \in plans["without"]}

information_value(d, masked, sensing) ==
    LET other == [full |-> d, blind |-> [d EXCEPT !.map = masked], without |-> [d EXCEPT !.excluded = @ \cup sensing]]
    IN IF /\ \A a \in d.epistemic.alphabet : d.map[a] = a
          /\ sensing # {} /\ sensing \subseteq {ActionOf(d.objects, r).id : r \in Range(d.contract.catalogue)}
       THEN ValueOf(d, [k \in DOMAIN other |-> plan_epistemic(other[k], <<>>)]) ELSE {}
=============================================================================
