---------------------------- MODULE MCEpistemic6 ----------------------------
(***************************************************************************)
(* Instances of growth under a hidden model. The model and every outcome   *)
(* are picked by the adversary; the policy sees the symbols only. What     *)
(* happened may be measured, and planned on from. The steps are kept in    *)
(* past6, as in MCGrowth6.                                                 *)
(***************************************************************************)
EXTENDS MCGrowth6, Workflows6

VARIABLES
    domain6,     \* the domain of the behaviour, or nothing
    aim6,        \* the plan that was made, or nothing
    hidden6,     \* the true hypothesis, or nothing before there is a plan
    symbols6,    \* the history: actions, symbols and entries
    branch6,     \* what is left of the policy: a node, or nothing
    worth6,      \* the value of information, or nothing
    workflow6    \* the revision of the catalogue that was taken up last, or nothing

epistemic_vars == <<domain6, aim6, hidden6, symbols6, branch6, worth6, workflow6>>

-----------------------------------------------------------------------------
(* A probe tells the first model from the second. Each of two pairings     *)
(* gains in one model; a third, dearer, gains in both. Scaling needs proof *)
(* of either.                                                              *)

\* What should not happen does so in the third model only.
Rare == {Effect6(3, "failure", {"m3"}, 0, 1), Effect6(4, "timeout", {"m3"}, 0, 1)}

Pair(action, right, wrong, interactions) ==
    [Recipe(action, interactions, {}, Alone, Alone) EXCEPT !.successors =
       {[Effect6(1, "success", right, 1, 1) EXCEPT !.evidence_added = Proof], Effect6(2, "partial", wrong, 0, 1)} \cup Rare]

Probe == [Recipe("a2", {}, {}, Alone, Alone) EXCEPT !.successors =
            {Effect6(1, "success", {"m1", "m2"}, 0, 1), Effect6(2, "partial", {"m2"}, 0, 0)} \cup Rare]
Widen == [Recipe("a3", {}, {"proof"}, Alone, Alone) EXCEPT !.successors =
            {Effect6(1, "success", {"m1", "m2"}, 2, 1), Effect6(2, "partial", {"m3"}, 0, 1)} \cup Rare]

\* Either pairing may be one that a comparator may use too.
Mission(first, second) ==
    [Contract EXCEPT !.models = {"m1", "m2", "m3"}, !.initial.models = {"m1", "m2"},
                     !.limits = [depth |-> 3, nodes |-> 20, expansions |-> 400000],
                     !.catalogue = <<first, Probe, Widen, second>>]

Guess == Mission(Pair("a1", {"m1"}, {"m2"}, {"pairing"}), Pair("a4", {"m2"}, {"m1"}, {"pairing"}))
Sure == Mission(Pair("a1", {"m1", "m2"}, {"m3"}, {"pairing"}), Pair("a4", {"m2"}, {"m1"}, {"pairing"}))

\* A probe that gains in the second model, and a pairing that must wait: without it a policy that sees
\* the symbols does as well, and one that does not cannot.
Late ==
    [Mission([Pair("a1", {"m1", "m2"}, {"m3"}, {"pairing"}) EXCEPT !.earliest = 1],
             [Pair("a4", {"m1"}, {"m2"}, {}) EXCEPT !.successors =
                {IF e.id = 2 THEN Effect6(2, "partial", {"m2"}, -1, 1) ELSE e : e \in @}])
       EXCEPT !.catalogue[2].successors =
                {Effect6(1, "success", {"m1"}, 0, 1), Effect6(2, "partial", {"m2"}, 1, 1)} \cup Rare]

Opened6 == [Frontier EXCEPT !.initial = {1, 2, 4}, !.latent = {3}, !.rules = <<Rule(1, 1, {3}), Rule(4, 1, {3})>>]

\* The probe shows the model, or may show either symbol in the second.
KernelOf(c, noisy) ==
    [row \in KernelRows(c) |->
       IF row[2] # "a2" THEN {"none"}
       ELSE IF row[1] = "m1" THEN {"one"} ELSE IF row[1] = "m2" /\ noisy THEN {"one", "two"} ELSE {"two"}]

FeeAfter(id, after, duration, money) ==
    [id |-> id, after |-> after, duration |-> duration, charges |-> "checking" :> ("money" :> money),
     reserved |-> 0]

Alphabet == {"one", "two", "none"}
Plainly == [a \in Alphabet |-> a]
Masked == [a \in Alphabet |-> "none"]

DomainOf(c, f, noisy, fees, most, map) ==
    [contract |-> c, objects |-> GrowthObjects, frontier |-> f, map |-> map, excluded |-> {}, interactions |-> {},
     epistemic |-> [digest |-> "ep", contract |-> c, frontier |-> f, alphabet |-> Alphabet, kernel |-> KernelOf(c, noisy),
                    events |-> fees, max_support |-> most, max_history |-> 3]]

Fees == {FeeAfter(1, 1, 0, 1), FeeAfter(2, 1, 0, 2), FeeAfter(3, 3, 0, 1)}

DomainCases ==
    {DomainOf(c, f, FALSE, {}, 12, Plainly) : c \in {Guess, Sure, Late}, f \in {{}, {Opened6}}}
    \cup {DomainOf(c, {}, TRUE, {}, 12, Plainly) : c \in {Guess, Sure}}
    \cup {DomainOf(Guess, {}, FALSE, fees, 12, Plainly) :
            fees \in {Fees, {FeeAfter(1, 0, 1, 0)}, {FeeAfter(1, 2, 0, 6)}}}
    \cup {DomainOf(Guess, {}, FALSE, {}, most, Plainly) : most \in {1, 2, 4}}
    \cup {DomainOf(c, {}, FALSE, {}, 12, Masked) : c \in {Guess, Sure}}

EpistemicInit ==
    /\ domain6 \in {{d} : d \in DomainCases}
    /\ aim6 = {} /\ hidden6 = {} /\ symbols6 = <<>> /\ branch6 = {} /\ worth6 = {} /\ workflow6 = {}
NoEpistemic ==
    domain6 = {} /\ aim6 = {} /\ hidden6 = {} /\ symbols6 = <<>> /\ branch6 = {} /\ worth6 = {} /\ workflow6 = {}

\* growth epistemic plan: the adversary picks the model.
PlanHidden ==
    /\ aim6 = {}
    /\ \E d \in domain6 :
          /\ aim6' = plan_epistemic(d, <<>>)
          /\ \E h \in InitialSupport(d).value : hidden6' = {h}
    /\ branch6' = UNION {p.policy : p \in aim6'}
    /\ UNCHANGED <<domain6, symbols6, worth6, workflow6>> /\ UNCHANGED growth_vars

\* An action of the policy: the adversary picks the outcome and, where it may be either, the symbol.
Observe(d, p, node, h, e, raw) ==
    LET recipe == RecipeFor(d.contract, d.objects, node.action)
        here == IF node.entry THEN {[time |-> h.state.elapsed, capacities |-> h.state.capacities]} ELSE h.entry
    IN /\ hidden6' = UNION {pay(d, Hypothesis(h.model, t, here, h.steps + 1)) :
                            t \in transition(d.contract, d.objects, d.frontier, h.state, recipe, e)}
       /\ symbols6' = Append(symbols6, [action |-> node.action, symbol |-> d.map[raw], entry |-> node.entry,
                                        epoch |-> IF node.entry THEN Len(p.history) ELSE 0])
       /\ branch6' = IF d.map[raw] \in DOMAIN node.branches THEN {node.branches[d.map[raw]]} ELSE {}
       /\ past6' = Append(past6, [state |-> h.state, action |-> node.action, successor |-> e.id, entry |-> node.entry,
                                  outcome |-> e.outcome, end |-> h.state.elapsed + e.duration, effect |-> e])

FollowSymbols ==
    /\ \E d \in domain6, p \in aim6, node \in branch6, h \in hidden6 :
          /\ node.action # 0
          /\ \E e \in successors(h.state, RecipeFor(d.contract, d.objects, node.action)) :
                \E raw \in d.epistemic.kernel[<<h.model, RecipeFor(d.contract, d.objects, node.action).action, e.id>>] :
                   Observe(d, p, node, h, e, raw)
    /\ UNCHANGED <<domain6, aim6, worth6, workflow6, contract6, plan6, ledger6, pursued, assessed6>>

\* Evidence of what happened, with each symbol in the log of its step; a symbol may be told wrong.
Case6(d) == [contract |-> d.contract, frontier |-> d.frontier, objects |-> d.objects]

Unhidden(d, s) == [base_state(s) EXCEPT !.models = d.contract.initial.models]

LedgersOf(d, s) == [j \in 1..Len(past6) + 1 |-> Unhidden(d, IF j > Len(past6) THEN s ELSE past6[j].state)]

ReportOf(d, s) ==
    [ObservationOf(Case6(d), LedgersOf(d, s), CHOOSE w \in d.contract.windows : w.start = 0)
       EXCEPT !.sources = [j \in DOMAIN past6 |-> Logs[j]]]

Logged(d, o, view, symbols) ==
    [view EXCEPT
       !.objects = ("ep" :> [kind |-> "epistemic"]) @@ ("eo" :> [kind |-> "epistemic-observation"])
                   @@ [k \in Numbered(Envelopes) |-> [kind |-> "envelope", raw |-> Logs[PlaceIn(Envelopes, k)]]] @@ @]
    @@ [raw |-> [l \in Range(o.sources) |-> [epistemic |-> "ep", symbol |-> symbols[PlaceIn(Logs, l)].symbol]]]

Claim(history) == [digest |-> "eo", epistemic |-> "ep", observation |-> "ob", evaluator |-> "ev", history |-> history]

ReplanFrom(d, o, s, claimed) ==
    replan_epistemic(d, Claim(claimed), o,
                     Logged(d, o, ViewOf(Case6(d), o, s.elapsed, PastOutcomes, Attempts), symbols6))

\* growth epistemic replan, once in a behaviour.
ReplanHidden ==
    /\ symbols6 # <<>> /\ \A p \in aim6 : p.history = <<>>
    /\ \E d \in domain6, h \in hidden6 :
          \E claimed \in {symbols6, [symbols6 EXCEPT ![1].symbol = IF @ = "one" THEN "two" ELSE "one"]} :
             /\ aim6' = ReplanFrom(d, ReportOf(d, h.state), h.state, claimed)
             /\ aim6' # {}
    /\ branch6' = UNION {p.policy : p \in aim6'}
    /\ UNCHANGED <<domain6, hidden6, symbols6, worth6, workflow6>> /\ UNCHANGED growth_vars

\* growth information-value, before anything is planned.
ValueInformation ==
    /\ aim6 = {} /\ worth6 = {}
    /\ \E d \in domain6 : worth6' = information_value(d, Masked, {2})
    /\ UNCHANGED <<domain6, aim6, hidden6, symbols6, branch6, workflow6>> /\ UNCHANGED growth_vars

-----------------------------------------------------------------------------
(* Workflows.                                                              *)

Typed(action, capability, input) ==
    [action |-> action, capability |-> capability, input |-> input, output |-> schema_digest("out"), policy |-> "xp"]

\* A workflow is asked for, once at the start and once later; both fees come to two.
RequestFor(d, library, most) ==
    [number |-> 10 + Len(symbols6), input |-> d, history |-> symbols6, library |-> library,
     input_schema |-> schema_digest("out"), output_schema |-> schema_digest("out"),
     target_capacities |-> "task" :> 3, maximum_spent |-> "money" :> most,
     formation_charges |-> [x \in {"construction", "search", "checking", "transport"} |->
                              "money" :> IF x = "search" THEN 1 ELSE 0],
     per_use_charges |-> [x \in {"maintenance", "application"} |-> "money" :> IF x = "application" THEN 1 ELSE 0],
     formation_duration |-> 0, per_use_duration |-> 0, max_primitive_steps |-> 3, max_candidates |-> 1]

Whole6Library ==
    {Typed("a1", "c1", schema_digest("out")), Typed("a2", "c2", schema_digest("out")),
     Typed("a3", "c2", schema_digest("out")), Typed("a4", "c1", schema_digest("out"))}
Libraries ==
    {Whole6Library, {b \in Whole6Library : b.action # "a2"},
     {IF b.action = "a3" THEN [b EXCEPT !.input = schema_digest("raw")] ELSE b : b \in Whole6Library}}

\* The fee is paid by the true ledger when the revision is taken up.
Adopted(d, r, x, revision) ==
    \E f \in formation_domain(d, r) :
       /\ domain6' = {f}
       /\ aim6' = replan_catalogue(d, r, x.candidate, x.certificate, revision, TRUE)
       /\ hidden6' = UNION {Fee(f.contract, FormationEvent(d, r), h) : h \in hidden6}

Formation(d, r) ==
    \E s \in synthesize(d, r) : \E x \in s.found : \E revision \in propose_catalogue(d, r, s, x.candidate, workflow6) :
       Adopted(d, r, x, revision) /\ workflow6' = {revision}

\* The domains in which workflows are asked for.
FormedIn ==
    {DomainOf(Guess, {}, FALSE, {}, 12, Plainly), DomainOf(Sure, {}, TRUE, {}, 12, Plainly),
     DomainOf(Late, {Opened6}, FALSE, {}, 12, Plainly), DomainOf(Guess, {}, FALSE, {FeeAfter(1, 2, 0, 6)}, 12, Plainly)}

\* growth synthesize, catalogue propose and catalogue replan.
FormWorkflow ==
    /\ aim6 # {} /\ \A w \in workflow6 : w.history # symbols6
    /\ \E d \in domain6, library \in Libraries, most \in {6, 8} :
          /\ workflow6 # {} \/ d \in FormedIn
          /\ library = Whole6Library \/ (most = 8 /\ symbols6 = <<>>)
          /\ Formation(d, RequestFor(d, library, most))
    /\ branch6' = UNION {p.policy : p \in aim6'}
    /\ UNCHANGED <<symbols6, worth6>> /\ UNCHANGED growth_vars

EpistemicNext == PlanHidden \/ FollowSymbols \/ ReplanHidden \/ ValueInformation \/ FormWorkflow
EpistemicSpec == NoGrowth /\ EpistemicInit /\ [][EpistemicNext]_<<growth_vars, epistemic_vars>>

-----------------------------------------------------------------------------
(* What a policy is for when the model is hidden.                          *)

\* Every charge of the steps, the planner and the fees that were due, once.
Settled(d, h) ==
    \A k \in Range(d.contract.cost_order) :
       LET due == {x \in d.epistemic.events : x.after <= h.steps}
       IN h.state.spent[k] = d.contract.charge[k] + MapThenSumSet(LAMBDA x : Charged(x.charges, k), due)
                             + MapThenSumSet(LAMBDA j : Charged(past6[j].effect.charges, k), DOMAIN past6)

\* What is believed from the symbols; the comparisons are the planner's.
BelievedIn(d) ==
    replay6(d, symbols6, IF symbols6 = <<>> THEN {} ELSE compare_epistemic(d, InitialSupport(d), 0))

\* The controller's bounds hold for the truth.
InView(d, support, h) ==
    LET view == controller_view(d, support)
        In(bounds, value) == bounds[1] <= value /\ value <= bounds[2]
    IN /\ h.model \in view.models /\ In(view.elapsed, h.state.elapsed) /\ In(view.depth, h.state.depth)
       /\ \A k \in DOMAIN view.spent :
             In(view.spent[k], Quantity(h.state.spent, k)) /\ In(view.resources[k], h.state.resources[k])
       /\ \A k \in DOMAIN view.capacities :
             view.capacities[k][1] <= h.state.capacities[k][1] /\ h.state.capacities[k][2] <= view.capacities[k][2]
       /\ d.frontier # {} => view.enabled \subseteq h.state.enabled

Believed(d, support, h) == h \in support /\ InView(d, support, h)

\* What the comparators can do at most.
Ceiling(p) == {[id |-> x.id, endpoint |-> x.endpoint, upper |-> x.upper] : x \in p.comparisons}

\* Symbols that cost nothing can be ignored, so the best policy that sees them is as good as the best
\* that does not; unless the comparators, which see them too, do better by them.
RefinementHelps(c, full, blind) ==
    full.complete /\ blind.complete /\ Ceiling(full) = Ceiling(blind) =>
       \A b \in blind.objective : \E a \in full.objective :
          LET Key(o) == Order6(c, o, [node |-> [action |-> 0]]) IN ~Precedes(Key(b), Key(a))

\* The checker accepts the plan, and its first action may be handed out for running.
FirstJob(d, p) ==
    \A node \in p.policy :
       node.action # 0 => export_epistemic(d, p, Draft(Case6(d), RecipeFor(d.contract, d.objects, node.action).action, 1))

\* The symbols never rule out what is true: whatever the hidden model does, the true hypothesis is
\* among those that the history leaves open, the policy has a branch for the symbol that comes, the
\* fees are paid once, and at a leaf growth that was entered has lasted in fact. The checker, which
\* argues backwards instead of listing policies, accepts every plan of a complete search, and to see
\* the symbols is never worse than to be blind to them, as long as the comparators gain nothing by
\* them (epistemic.Domain.advance, pay and replay, epistemic_planning.plan_epistemic,
\* epistemic_checking.check_epistemic_plan, epistemic_evidence.replan_epistemic,
\* information_value.information_value).
BeliefHolds ==
    \A d \in domain6 :
       /\ \A w \in worth6 : RefinementHelps(d.contract, w.full, w.blind)
       /\ \A p \in aim6 : p.policy # {} => branch6 # {} /\ (p.complete /\ branch6 = p.policy => FirstJob(d, p))
       /\ symbols6 # <<>> => hidden6 # {}
       /\ \A h \in hidden6 :
             /\ Settled(d, h)
             /\ aim6 # {} => Believed(d, BelievedIn(d).value, h)
             /\ \A node \in branch6 : node.action = 0 => terminal(d.contract, {}, h.state, h.entry)

\* A workflow that is taken up delivers: its plan is there and can be followed, and when the plan is
\* the workflow itself, what it was asked for is reached for no more than was allowed, the fees of
\* every revision included, with actions of the library only; and the revisions together reserve no
\* more work than the quota (composition.check_composition and formation_domain,
\* synthesis.synthesize, catalogue_revision.propose_catalogue and replan_catalogue).
WorkflowsDeliver ==
    \A w \in workflow6, d \in domain6 :
       /\ aim6 # {} /\ hidden6 # {} /\ branch6 # {}
       /\ w.revision = Cardinality(d.epistemic.events) /\ w.work = Work(d) /\ w.work <= MAXIMUM_WORK
       /\ \A p \in aim6, h \in hidden6, node \in branch6 :
             node.action = 0 /\ p.policy = {w.candidate.ir} =>
                /\ h.state.capacities["task"][1] >= w.request.target_capacities["task"]
                /\ h.state.spent["money"] <= w.request.maximum_spent["money"]
                /\ Len(symbols6) <= Len(w.history) + w.candidate.steps
                /\ \A j \in Len(w.history) + 1..Len(symbols6) :
                      \E b \in w.request.library : d.objects[b.action].id = symbols6[j].action
=============================================================================
