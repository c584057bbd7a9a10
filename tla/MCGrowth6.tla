----------------------------- MODULE MCGrowth6 -----------------------------
(***************************************************************************)
(* Instances of the growth game. A contract is planned for, and the plan   *)
(* is followed whatever successor the adversary picks; what happened may   *)
(* be measured, and growth goes on from what the measurement shows.        *)
(***************************************************************************)
EXTENDS GrowthEvidence6

VARIABLES
    contract6,   \* the contract, the frontier and the objects of the behaviour, or nothing
    plan6,       \* the plan that was made, or nothing
    ledger6,     \* the state of the game, or nothing before there is a plan
    pursued,     \* what is left of the policy: a node, or nothing
    past6,       \* the steps so far: state, action, successor, entry and end
    assessed6    \* the assessment of a measurement and what came of it, or nothing

growth_vars == <<contract6, plan6, ledger6, pursued, past6, assessed6>>

-----------------------------------------------------------------------------
(* Five actions: pairing doubles the capacities and proves the method, or  *)
(* leaves a review to be done; scaling needs the proof; the review and a   *)
(* smaller gain come together; working alone changes nothing.              *)

Always == [from |-> 0, until |-> Endless, withdrawn |-> Endless]

Quiet == [lower |-> "money" :> -3, upper |-> "money" :> 0, must_add |-> {}, may_add |-> {}, must_remove |-> {},
          may_remove |-> {}, debt |-> {}, rollback |-> {}, hazards_added |-> {}, hazards_removed |-> {},
          uppers |-> [u \in UpperBounds |-> IF u = "cost" THEN 0 ELSE 1]]

GrowthCapability(repeatable) ==
    [kind |-> "capability", schema |-> "out", schema_digest |-> schema_digest("out"), repeatable |-> repeatable,
     policy |-> "xp", image |-> "im", lifecycle |-> Always, branches |-> [o \in OutcomeNames |-> Quiet]]

GrowthAct(id, capability, required, protected) ==
    [kind |-> "action", id |-> id, capability |-> capability, required |-> required, protected |-> protected,
     prohibited |-> {"leak"}]

GrowthObjects ==
    [gs |-> [kind |-> "snapshot", registry |-> "gu", objects |-> {"licence"}, generation |-> "gg"],
     gu |-> [kind |-> "registry", time_unit |-> "h",
             units |-> [u \in {"h", "w", "m"} |->
                          [scale |-> 1, dimensions |-> (IF u = "h" THEN "time" ELSE u) :> 1]],
             coordinate_units |-> [k \in CAPACITIES \cup {"money"} |-> IF k = "money" THEN "m" ELSE "w"]],
     licence |-> [kind |-> "evidence", lifecycle |-> Always],
     xp |-> [kind |-> "execution", images |-> {"im"}],
     c1 |-> GrowthCapability(FALSE), c2 |-> GrowthCapability(TRUE),
     a1 |-> GrowthAct(1, "c1", {"licence"}, {}), a2 |-> GrowthAct(2, "c2", {}, {"licence"}),
     a3 |-> GrowthAct(3, "c2", {}, {}), a4 |-> GrowthAct(4, "c1", {}, {})]

Effect6(id, outcome, models, gain, money) ==
    [id |-> id, outcome |-> outcome, models |-> models, duration |-> 1,
     delta |-> IF gain = 0 THEN <<>> ELSE [k \in {"task", "research"} |-> <<gain, gain>>],
     quality |-> <<>>, coverage |-> <<>>, charges |-> "generation" :> ("money" :> money),
     reservations |-> <<>>, arrivals |-> <<>>, debt_added |-> <<>>, offered |-> <<>>, completed |-> <<>>,
     evidence_added |-> <<>>, evidence_removed |-> {}, assumptions_added |-> <<>>, assumptions_removed |-> {},
     pending |-> {}, resolved |-> {}, attribution |-> "endogenous"]

\* A failure and a timeout happen in the second model only.
Recipe(action, interactions, evidence, success, partial) ==
    [action |-> action, interactions |-> interactions, evidence |-> evidence, assumptions |-> {},
     minimum |-> <<>>, earliest |-> 0, expires |-> 4,
     successors |-> {success, partial, Effect6(3, "failure", {"m2"}, 0, 1), Effect6(4, "timeout", {"m2"}, 0, 2)}]

Proof == "proof" :> 3
Review == "review" :> [stage |-> "verification", remaining |-> 1, deadline |-> 3]

Pairing == Recipe("a1", {"pairing"}, {},
    [Effect6(1, "success", {"m1", "m2"}, 1, 1) EXCEPT !.evidence_added = Proof],
    [Effect6(2, "partial", {"m1"}, 0, 2) EXCEPT !.evidence_added = Proof, !.debt_added = Review])
Alone == Recipe("a2", {}, {}, Effect6(1, "success", {"m1", "m2"}, 0, 0), Effect6(2, "partial", {"m2"}, 0, 1))
Scaling == Recipe("a3", {}, {"proof"},
    [Effect6(1, "success", {"m1", "m2"}, 2, 1) EXCEPT !.reservations = <<[resource |-> "gpu", owner |-> "x", quantity |-> 1, until |-> 3]>>],
    Effect6(2, "partial", {"m2"}, 0, 1))
Reviewing == Recipe("a4", {}, {"proof"},
    [Effect6(1, "success", {"m1", "m2"}, 1, 1) EXCEPT !.completed = "review" :> 1, !.offered = "verification" :> 1],
    Effect6(2, "partial", {"m2"}, 0, 1))

\* A second successor that cannot be told from the first, and one with a wide gain.
Twofold == [Pairing EXCEPT !.successors = @ \cup {[e EXCEPT !.id = 5] : e \in {d \in @ : d.id = 1}}]
Wide == [Pairing EXCEPT !.successors = {IF e.id = 1 THEN [e EXCEPT !.delta = [k \in DOMAIN @ |-> <<1, 2>>]] ELSE e : e \in @}]

CapacityDomain(target) == [unit |-> "w", target |-> target, service |-> 1, quality |-> 0, coverage |-> 0]

Ledger ==
    [capacities |-> [k \in CAPACITIES |-> <<1, 1>>], quality |-> [k \in CAPACITIES |-> 1],
     coverage |-> [k \in CAPACITIES |-> 1], resources |-> "money" :> 9, reservations |-> <<>>, queue |-> <<>>,
     obligations |-> <<>>, elapsed |-> 0, checkpoints |-> <<>>, evidence |-> "method" :> 3, assumptions |-> <<>>,
     pending |-> {}, used |-> {}, models |-> {"m1"}, spent |-> <<>>, charges |-> <<>>, offered |-> <<>>,
     completed |-> <<>>, attribution |-> "endogenous", actual |-> {}, live |-> {"licence", "xp", "c1", "c2", "a1", "a2", "a3", "a4"},
     hazards |-> {}, enabled |-> {}, lineage |-> <<>>, depth |-> 0]

Half(n) == <<n, 2>>

Contract ==
    [snapshot |-> "gs", registry |-> "gu", versions |-> 1, protocol |-> "pr", origin |-> 0, whole |-> 1, units |-> "money" :> "m",
     domains |-> [k \in CAPACITIES |-> CapacityDomain(IF k = "verification" THEN 1 ELSE 2)],
     domain_order |-> <<"research", "task", "verification">>,
     cost_order |-> <<"money">>, monetary |-> {}, floors |-> "money" :> 1, charge |-> "money" :> 1,
     boundary |-> "shared-budget", duration |-> 0, shared |-> "gpu" :> 12,
     coefficients |-> "gpu" :> [k \in {"task", "research"} |-> 1], joint_until |-> 3,
     queue_limits |-> [k \in CAPACITIES |-> 2], debt_limits |-> [k \in CAPACITIES |-> 2],
     deadline |-> 3, horizon |-> 1, factors |-> [k \in {"task", "research"} |-> Half(3)], margin |-> <<1, 4>>,
     models |-> {"m1", "m2"},
     windows |-> {[start |-> t, end |-> t + 1, factors |-> [k \in {"task", "research"} |-> Half(3)]] : t \in {0, 1}},
     initial |-> Ledger, catalogue |-> <<Pairing, Alone, Scaling, Reviewing>>,
     comparators |-> {[id |-> 1, excluded |-> {"pairing"}]}, entry_evidence |-> {"proof"}, blocking |-> {"review"},
     limits |-> [depth |-> 3, nodes |-> 20], max_decisions |-> 3]

Rule(producer, successor, activates) ==
    [producer |-> producer, successor |-> successor, activates |-> activates, capabilities |-> {"c2"},
     models |-> {"m1", "m2"}, evidence |-> {"method"}, capacities |-> "task" :> 1, resources |-> "money" :> 2,
     from |-> 0, expires |-> 3]

Binding(action, capability) ==
    [action |-> action, capability |-> capability, policy |-> "xp", schema_digest |-> schema_digest("out"),
     lifecycle |-> Always]

Frontier ==
    [digest |-> "fr", initial |-> {1, 2}, latent |-> {3, 4}, carried |-> <<>>, max_depth |-> 2,
     bindings |-> <<Binding("a1", "c1"), Binding("a2", "c2"), Binding("a3", "c2"), Binding("a4", "c1")>>,
     rules |-> <<Rule(1, 1, {3}), Rule(1, 2, {4}), Rule(4, 1, {3})>>]

Cases ==
    LET Over6(c) == {[contract |-> c, frontier |-> f, objects |-> GrowthObjects] : f \in {{}, {Frontier}}}
    IN UNION {Over6(c) : c \in
         {Contract, [Contract EXCEPT !.initial.models = {"m1", "m2"}], [Contract EXCEPT !.initial.models = {}],
          [Contract EXCEPT !.limits.depth = 2], [Contract EXCEPT !.limits.nodes = 4],
          [Contract EXCEPT !.boundary = "external-paid", !.initial.resources = "money" :> 5],
          [Contract EXCEPT !.initial.resources = "money" :> 5],
          [Contract EXCEPT !.initial.evidence = "method" :> 2], [Contract EXCEPT !.shared = "gpu" :> 6],
          [Contract EXCEPT !.catalogue[1] = Twofold], [Contract EXCEPT !.catalogue[1] = Wide]}}

GrowthInit == contract6 \in {{x} : x \in Cases} /\ plan6 = {} /\ ledger6 = {} /\ pursued = {} /\ past6 = <<>> /\ assessed6 = {}
NoGrowth == contract6 = {} /\ plan6 = {} /\ ledger6 = {} /\ pursued = {} /\ past6 = <<>> /\ assessed6 = {}

\* growth plan: the policy is taken up, or the fallback when there is none.
Adopt(x, plans) ==
    /\ plan6' = plans
    /\ pursued' = UNION {p.policy \cup p.fallback : p \in plans}
    /\ ledger6' = initial_state(x.contract, x.frontier)

PlanGrowth ==
    /\ ledger6 = {}
    /\ \E x \in contract6 : Adopt(x, plan_growth(x.contract, x.objects, x.frontier))
    /\ UNCHANGED <<contract6, past6, assessed6>>

\* Any successor of the action of the node may happen.
FollowGrowth ==
    /\ \A a \in assessed6 : a.use # "none"
    /\ \E x \in contract6, s \in ledger6, n \in pursued : \E e \in DOMAIN n.effects :
          /\ ledger6' = transition(x.contract, x.objects, x.frontier, s, RecipeFor(x.contract, x.objects, n.action), n.effects[e])
          /\ pursued' = {n.branches[e]}
          /\ past6' = Append(past6, [state |-> s, action |-> n.action, successor |-> e, entry |-> n.entry,
                                     outcome |-> n.effects[e].outcome, end |-> s.elapsed + n.effects[e].duration])
    /\ UNCHANGED <<contract6, plan6, assessed6>>

-----------------------------------------------------------------------------
(* Measurements: what happened, truly told, or with one thing changed.     *)

Outs == <<"out1", "out2", "out3">>
Logs == <<"log1", "log2", "log3">>
Envelopes == <<"en1", "en2", "en3">>
Receipts == <<"re1", "re2", "re3">>
Jobs == <<"jo1", "jo2", "jo3">>

Trace(s) == [j \in 1..Len(past6) + 1 |-> base_state(IF j > Len(past6) THEN s ELSE past6[j].state)]
None6 == [k \in CAPACITIES |-> 0]

ObservationOf(x, states, w) ==
    [digest |-> "ob", contract |-> x.contract, versions |-> 1, from |-> 0, until |-> 9, window |-> w,
     monitoring |-> "preregistered-boundaries", states |-> states, sources |-> [j \in DOMAIN past6 |-> Outs[j]],
     receipts |-> [j \in DOMAIN past6 |-> Receipts[j]], trial |-> "tr", evaluator |-> "ev",
     calibration |-> None6, drift |-> None6]

ReceiptOf(j, outcome) ==
    [kind |-> "receipt", runner |-> "run", job |-> Jobs[j], outcome |-> outcome, conforms |-> TRUE,
     outputs |-> {Outs[j]}, stdout |-> Logs[j], started |-> past6[j].state.elapsed, completed |-> past6[j].end]

Draft(x, action, attempt) ==
    [kind |-> "job", id |-> 1, attempt |-> attempt, action |-> action, capability |-> x.objects[action].capability,
     policy |-> "xp", image |-> "im", inputs |-> {"licence"}, generation |-> "gg", lease_expires_at |-> 5]
JobOf(x, j, attempt) == Draft(x, RecipeFor(x.contract, x.objects, past6[j].action).action, attempt)

Numbered(names) == {names[j] : j \in DOMAIN past6}
PlaceIn(names, d) == CHOOSE j \in DOMAIN names : names[j] = d

\* What the loader admits of them.
ViewOf(x, o, now, outcomes, attempts) ==
    [valid |-> TRUE, now |-> now, available |-> Range(o.sources),
     objects |-> ("ob" :> [kind |-> "observation"]) @@ ("fr" :> [kind |-> "frontier"])
        @@ ("pr" :> [kind |-> "protocol", time_zero |-> 0, assessed |-> TRUE, units |-> [k \in CAPACITIES |-> "w"]])
        @@ ("tr" :> [kind |-> "trial", protocol |-> "pr", evaluator |-> "ev",
                     effects |-> [d \in CAPACITIES \X (1..Len(past6) + 1) |->
                                    [bounds |-> o.states[d[2]].capacities[d[1]], quality |-> 1]]])
        @@ [d \in Numbered(Envelopes) |-> [kind |-> "envelope", raw |-> Outs[PlaceIn(Envelopes, d)]]]
        @@ [d \in Numbered(Receipts) |-> ReceiptOf(PlaceIn(Receipts, d), outcomes[PlaceIn(Receipts, d)])]
        @@ [d \in Numbered(Jobs) |-> JobOf(x, PlaceIn(Jobs, d), attempts[PlaceIn(Jobs, d)])]
        @@ x.objects,
     principals |-> [d \in Range(o.receipts) |-> {"run"}],
     times |-> [d \in Range(o.receipts) |-> {past6[PlaceIn(Receipts, d)].end}]]

PastOutcomes == [j \in DOMAIN past6 |-> past6[j].outcome]
Attempts == [j \in DOMAIN past6 |-> j]

Measured6(o, view, honest) == [observation |-> o, view |-> view, honest |-> honest]

Told(x, o, now) ==
    {Measured6(o, ViewOf(x, o, now, PastOutcomes, Attempts), TRUE),
     Measured6(o, ViewOf(x, o, now + 1, PastOutcomes, Attempts), TRUE),
     Measured6([o EXCEPT !.calibration = [@ EXCEPT !["task"] = 1]], ViewOf(x, o, now, PastOutcomes, Attempts), TRUE),
     Measured6(o, ViewOf(x, o, now, [PastOutcomes EXCEPT ![1] = "partial"], Attempts), FALSE),
     Measured6(o, ViewOf(x, o, now, PastOutcomes, [j \in DOMAIN past6 |-> 1]), TRUE),
     Measured6([o EXCEPT !.receipts = Tail(@)], ViewOf(x, o, now, PastOutcomes, Attempts), TRUE)}

Narrowed(s) == [s EXCEPT !.capacities = [k \in DOMAIN @ |-> <<@[k][1], @[k][1]>>]]

Measurements(x, s) ==
    UNION {Told(x, ObservationOf(x, states, w), s.elapsed) :
             w \in {v \in x.contract.windows : v.end = s.elapsed},
             states \in {Trace(s), [Trace(s) EXCEPT ![Len(past6) + 1] = Narrowed(@)]}}

Assess(x, m) ==
    IF x.frontier = {} THEN reassess(x.contract, x.objects, m.observation, m.view)
    ELSE UNION {reassess_frontier(x.contract, x.objects, f, m.observation, m.view) : f \in x.frontier}

\* growth reassess, once in a behaviour.
Reassess ==
    /\ assessed6 = {} /\ past6 # <<>>
    /\ \E x \in contract6, s \in ledger6 : \E m \in Measurements(x, s) :
          assessed6' = {[assessment |-> a, honest |-> m.honest, truth |-> s, steps |-> Len(past6), use |-> "none"] :
                          a \in Assess(x, m)}
    /\ UNCHANGED <<contract6, plan6, ledger6, pursued, past6>>

\* The contract that is proposed from an assessment, and its frontier.
Proposed(x, a) ==
    IF x.frontier = {} THEN {[x EXCEPT !.contract = replan_contract(@, t)] : t \in a.state}
    ELSE {[x EXCEPT !.contract = p.contract, !.frontier = {p.frontier}] : p \in a.proposals}

\* growth replan: the proposal becomes the contract, and is planned for; or the policy that goes on
\* from the measured entry is taken up.
Replan ==
    /\ \E a \in assessed6, x \in contract6 :
          /\ a.use = "none"
          /\ \E y \in Proposed(x, a.assessment) : contract6' = {y}
          /\ plan6' = {}
          /\ \/ ledger6' = {} /\ pursued' = {} /\ assessed6' = {[a EXCEPT !.use = "replan"]}
             \/ \E k \in a.assessment.continuation :
                   ledger6' = {k.state} /\ pursued' = {k.node} /\ assessed6' = {[a EXCEPT !.use = "continue"]}
    /\ UNCHANGED past6

GrowthNext == PlanGrowth \/ FollowGrowth \/ Reassess \/ Replan
GrowthSpec == GrowthInit /\ [][GrowthNext]_growth_vars

-----------------------------------------------------------------------------
(* What a policy is for.                                                   *)

\* What left the resources was spent, and was charged to some category once.
Conserved(c, s) ==
    \A k \in DOMAIN s.resources :
       /\ s.resources[k] + Quantity(s.spent, k) = c.initial.resources[k] + Quantity(c.initial.spent, k)
       /\ Quantity(s.spent, k) = MapThenSumSet(LAMBDA x : Quantity(s.charges[x], k), DOMAIN s.charges \ {"external-planner"})
       /\ s.resources[k] >= c.floors[k]

\* The actions behind an enabled one: the smallest set that is closed under producers.
Behind(s, id) ==
    {y \in s.enabled : \A Z \in SUBSET s.enabled :
       id \in Z /\ (\A z \in Z \cap DOMAIN s.lineage : s.lineage[z].producer \in Z) => y \in Z}

\* The action was enabled by steps that were taken before, and what they rested on lasts as long as
\* the step.
Enabled6(f, j) ==
    \A y \in Behind(past6[j].state, past6[j].action) \ Frontier.initial :
       LET rule == f.rules[past6[j].state.lineage[y].rule]
       IN /\ \E i \in 1..j - 1 : past6[i].action = rule.producer /\ past6[i].successor = rule.successor
          /\ past6[j].end <= rule.expires
          /\ \A k \in rule.evidence : k \in DOMAIN past6[j].state.evidence /\ past6[j].state.evidence[k] >= past6[j].end

RECURSIVE ActionsIn(_)
ActionsIn(node) == {node.action} \cup UNION {ActionsIn(node.branches[x]) : x \in DOMAIN node.branches}

\* What a policy without the excluded interactions could have secured by then, at most.
WithoutIt(x, comparator, start, at) ==
    {CHOOSE a \in {attainment(x.contract, t, Upper) : t \in p.terminals} :
        \A t \in p.terminals : AtMost(a, attainment(x.contract, t, Upper)) :
     p \in {q \in enumerate(x.contract, x.objects, x.frontier, {at}, {}, start, 0, {}).options :
              \A r \in Range(x.contract.catalogue) :
                 ActionOf(x.objects, r).id \in ActionsIn(q.node) => r.interactions \cap comparator.excluded = {}}}

\* The steps taken under the current plan.
Since == IF \E a \in assessed6 : a.use # "none" THEN (CHOOSE a \in assessed6 : TRUE).steps ELSE 0

\* Growth was entered once, well ahead of all that the comparators could do, and has lasted.
Lasted(x, s) ==
    \E j \in Since + 1..Len(past6) :
       /\ past6[j].entry /\ \A i \in Since + 1..Len(past6) : past6[i].entry => i = j
       /\ s.elapsed = past6[j].state.elapsed + x.contract.horizon
       /\ Multiplied(s, past6[j].state.capacities, x.contract.factors)
       /\ \A y \in x.contract.comparators :
             \A a \in WithoutIt(x, y, past6[Since + 1].state, past6[j].state.elapsed) :
                Below(Plus(a, x.contract.margin), attainment(x.contract, past6[j].state, Lower))

\* From a measured entry growth has lasted relative to the measured bounds.
WentOn(x, s, a) ==
    \A t \in a.assessment.state :
       s.elapsed = t.elapsed + x.contract.horizon /\ Multiplied(s, t.capacities, x.contract.factors)

\* What a plan comes to at the leaf of its policy or fallback.
Achieved(x, s) ==
    /\ \A p \in plan6 : IF p.policy # {} THEN Lasted(x, s) ELSE s.elapsed = x.contract.deadline
    /\ \A a \in assessed6 : a.use = "continue" => WentOn(x, s, a)

\* What happened under the plan is a replay of it.
Replayed(x, s, p) ==
    \E states \in replay(x.contract, x.objects, x.frontier, p, [j \in 1..Len(past6) - Since |-> past6[Since + j].successor]) :
       Last(states) = s

\* Only the first action of the plan can be handed out for running.
Exported(x, p) ==
    \A r \in Range(x.contract.catalogue) :
       export_proposal(x.contract, x.objects, x.frontier, p, Draft(x, r.action, 1)) =>
          \A n \in p.policy : n.action = ActionOf(x.objects, r).id

\* What a plan says it owes to the frontier is what shows when it is followed.
Owed(x, f, s, d) ==
    LET given == DOMAIN f.carried
        enabled == {y \in Since + 1..Len(past6) : past6[y].action \in DOMAIN past6[y].state.lineage}
    IN /\ DOMAIN s.lineage \ given \subseteq d.enabled /\ s.depth <= d.depth
       /\ {past6[j].action : j \in enabled} \subseteq d.used
       /\ (\E i \in Since + 1..Len(past6), j \in enabled : past6[i].entry /\ i <= j) => d.continuation
       /\ (\E y \in DOMAIN s.lineage : s.lineage[y].producer \in DOMAIN s.lineage \ given) => d.recursive
       /\ d.used \cap (f.initial \ given) = {}

\* A policy can be followed whatever successors happen: no step of it fails, the ledger stays
\* balanced and above the floors, every action used was enabled by steps taken before it and its
\* premises outlast the step, also across a replan, and at the end either growth was entered ahead of
\* every comparator and has lasted or the safe fallback has come to the deadline
\* (growth.plan_growth, check_plan and transition, growth_frontier.check_use and activate).
GrowthHolds ==
    /\ pursued # {} => ledger6 # {}
    /\ \A x \in contract6, s \in ledger6 :
          /\ plan6 # {} \/ \E a \in assessed6 : a.use = "continue"
          /\ \A p \in plan6 : p.policy # {} => Replayed(x, s, p) /\ (Len(past6) = Since => Exported(x, p))
          /\ Conserved(x.contract, s)
          /\ \A f \in x.frontier : \A j \in DOMAIN past6 : Enabled6(f, j)
          /\ \A p \in plan6, f \in x.frontier : p.policy # {} => \A d \in p.diagnostics : Owed(x, f, s, d)
          /\ \A n \in pursued : n.action = 0 => Achieved(x, s)

\* An honest measurement never brings about more than what happened: the frontier that is proposed
\* from it enables the actions that the real trace enabled and no other, and the ledger goes on from
\* what was really left (growth_frontier_evidence.reassess_frontier, growth_evidence.reassess).
MeasuredIsReal ==
    \A a \in assessed6 : \A x \in contract6 :
       /\ a.honest /\ x.frontier # {} => \A t \in a.assessment.states : t.enabled = a.truth.enabled /\ t.lineage = a.truth.lineage
       /\ \A t \in a.assessment.state : t.resources = a.truth.resources /\ t.obligations = a.truth.obligations
=============================================================================
