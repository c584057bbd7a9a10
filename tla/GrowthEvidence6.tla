--------------------------- MODULE GrowthEvidence6 ---------------------------
(***************************************************************************)
(* Measured growth: v6/growth_evidence.py and growth_frontier_evidence.py. *)
(* An observation is a trace of ledgers with one receipt for each step; it *)
(* is reassessed against the contract, the authoritative generation and    *)
(* the comparisons, and what it shows becomes the start of a new proposal. *)
(*                                                                         *)
(* A view is what the loader admits (Authority6): the objects by digest,   *)
(* the principals that signed each, the trusted times of its statements,   *)
(* and what is stored. The verdict on the trial and the checks of a        *)
(* receipt that do not depend on the trace are fields of the documents     *)
(* (Trials6, RunnerGateway).                                               *)
(***************************************************************************)
EXTENDS Growth6

RecipeFor(c, objects, id) == CHOOSE r \in Range(c.catalogue) : ActionOf(objects, r).id = id

\* A plan gone through along given successors, or nothing when it does not go that way.
RECURSIVE ReplayFrom(_, _, _, _, _, _)
ReplayFrom(c, objects, frontier, node, states, branches) ==
    IF branches = <<>> THEN {states}
    ELSE IF node.action = 0 \/ Head(branches) \notin DOMAIN node.branches THEN {}
    ELSE UNION {ReplayFrom(c, objects, frontier, node.branches[Head(branches)], Append(states, t), Tail(branches)) :
                t \in transition(c, objects, frontier, Last(states), RecipeFor(c, objects, node.action),
                                 ById6(RecipeFor(c, objects, node.action).successors)[Head(branches)])}

replay(c, objects, frontier, plan, branches) ==
    IF ~check_plan(c, objects, frontier, plan) THEN {}
    ELSE UNION {ReplayFrom(c, objects, frontier, node, <<s>>, branches) :
                node \in plan.policy, s \in initial_state(c, frontier)}

\* An unsigned draft of the job for the first action of a plan.
export_proposal(c, objects, frontier, plan, job) ==
    /\ check_plan(c, objects, frontier, plan)
    /\ \A node \in plan.policy :
          LET recipe == RecipeFor(c, objects, node.action)
          IN /\ job.action = recipe.action /\ job.capability = ActionOf(objects, recipe).capability
             /\ job.policy = CapabilityOf(objects, recipe).policy /\ job.image = CapabilityOf(objects, recipe).image
             /\ ActionOf(objects, recipe).required \subseteq job.inputs
             /\ job.generation = objects[c.snapshot].generation

-----------------------------------------------------------------------------
(* Measurements.                                                           *)

Domains(o, s) == DOMAIN o.calibration = DOMAIN s.capacities /\ DOMAIN o.drift = DOMAIN s.capacities

\* The capacities less or more what calibration and drift allow for.
_bounded_measurement(o, s) ==
    [s EXCEPT !.capacities = [k \in DOMAIN @ |->
       <<Max({0, @[k][1] - o.calibration[k] - o.drift[k]}), @[k][2] + o.calibration[k] + o.drift[k]>>]]

base_state(s) == [s EXCEPT !.enabled = {}, !.lineage = <<>>, !.depth = 0]

\* A measurement may narrow the capacities of a prediction, and nothing else.
_within_prediction(actual, predicted) ==
    /\ DOMAIN actual.capacities = DOMAIN predicted.capacities
    /\ \A k \in DOMAIN actual.capacities :
          /\ predicted.capacities[k][1] <= actual.capacities[k][1]
          /\ actual.capacities[k][1] <= actual.capacities[k][2]
          /\ actual.capacities[k][2] <= predicted.capacities[k][2]
    /\ actual = [predicted EXCEPT !.capacities = actual.capacities]

Admits(view, digest, kind) == digest \in DOMAIN view.objects /\ view.objects[digest].kind = kind

\* The observation is about this contract, as registered, and was admitted in time.
ObservationBound(c, o, view) ==
    /\ view.valid /\ Admits(view, o.digest, "observation")
    /\ o.contract = c /\ o.versions = c.versions
    /\ o.from <= view.now /\ view.now <= o.until
    /\ o.window \in c.windows /\ o.monitoring = "preregistered-boundaries"
    /\ Cardinality(Range(o.sources)) = Len(o.sources) /\ Cardinality(Range(o.receipts)) = Len(o.receipts)
    /\ Len(o.receipts) = Len(o.states) - 1
    /\ \A d \in Range(o.sources) :
          d \in view.available /\ \E e \in DOMAIN view.objects : Admits(view, e, "envelope") /\ view.objects[e].raw = d

\* The registered trial measured every capacity at every boundary.
TrialFits(c, o, view) ==
    /\ Admits(view, c.protocol, "protocol") /\ Admits(view, o.trial, "trial")
    /\ LET protocol == view.objects[c.protocol]
           result == view.objects[o.trial]
       IN /\ protocol.time_zero = c.origin
          /\ result.protocol = c.protocol /\ result.evaluator = o.evaluator
          /\ protocol.assessed
          /\ DOMAIN result.effects = (DOMAIN c.domains) \X (DOMAIN o.states)
          /\ \A k \in DOMAIN c.domains, j \in DOMAIN o.states :
                /\ result.effects[<<k, j>>].bounds = o.states[j].capacities[k]
                /\ result.effects[<<k, j>>].quality = o.states[j].quality[k]
                /\ protocol.units[k] = c.domains[k].unit

\* The receipt was signed by its runner, for an admitted job and policy, and is of an attempt that no
\* earlier receipt of the trace has used.
ReceiptConforms(view, digest, used) ==
    /\ Admits(view, digest, "receipt")
    /\ view.objects[digest].runner \in view.principals[digest]
    /\ LET receipt == view.objects[digest]
       IN /\ Admits(view, receipt.job, "job")
          /\ LET job == view.objects[receipt.job]
             IN /\ Admits(view, job.capability, "capability") /\ Admits(view, job.policy, "execution")
                /\ view.times[digest] # {}
                /\ receipt.conforms /\ receipt.completed <= Min(view.times[digest])
                /\ Min(view.times[digest]) <= job.lease_expires_at
                /\ <<job.id, job.attempt>> \notin used

Attempt(view, digest) ==
    LET job == view.objects[view.objects[digest].job] IN <<job.id, job.attempt>>

\* What the model could have made of a boundary under a successor with the claimed outcome.
Predictions(c, objects, s, recipe, outcome) ==
    UNION {transition(c, objects, {}, s, recipe, e) : e \in {d \in successors(s, recipe) : d.outcome = outcome}}

StepFits(c, objects, o, view, j) ==
    LET receipt == view.objects[o.receipts[j]]
        job == view.objects[receipt.job]
        recipes == {r \in Range(c.catalogue) : r.action = job.action}
    IN /\ receipt.started - c.origin = o.states[j].elapsed * Scale(c, objects)
       /\ receipt.completed - c.origin = o.states[j + 1].elapsed * Scale(c, objects)
       /\ Cardinality(recipes) = 1 /\ job.capability = objects[job.action].capability
       /\ \E r \in recipes : \E p \in Predictions(c, objects, o.states[j], r, receipt.outcome) :
             _within_prediction(o.states[j + 1], p)

ReceiptsFit(c, objects, o, view) ==
    /\ \A j \in DOMAIN o.receipts :
          /\ ReceiptConforms(view, o.receipts[j], {Attempt(view, o.receipts[i]) : i \in 1..j - 1})
          /\ StepFits(c, objects, o, view, j)
    /\ Range(o.sources) \subseteq UNION {view.objects[d].outputs \cup {view.objects[d].stdout} : d \in Range(o.receipts)}

EvidenceCompatible(c, objects, o, view) ==
    /\ ObservationBound(c, o, view) /\ TrialFits(c, o, view)
    /\ \A s \in initial_state(c, {}) : _within_prediction(o.states[1], s)
    /\ ReceiptsFit(c, objects, o, view)

-----------------------------------------------------------------------------
(* Reassessment.                                                           *)

\* The last ledger, with the measured ones before it as its checkpoints.
FinalOf(bounded) ==
    [Last(bounded) EXCEPT !.checkpoints =
       [t \in {bounded[j].elapsed : j \in 1..Len(bounded) - 1} |->
          bounded[CHOOSE j \in 1..Len(bounded) - 1 : bounded[j].elapsed = t].capacities]]

WindowMeasured(c, o, bounded) ==
    /\ \A j \in DOMAIN bounded : Domains(o, o.states[j]) /\ check_state(c, bounded[j])
    /\ \A k \in DOMAIN c.domains : o.calibration[k] >= 0 /\ o.drift[k] >= 0
    /\ \A j \in 1..Len(bounded) - 1 : bounded[j].elapsed < bounded[j + 1].elapsed
    /\ bounded[1].elapsed <= o.window.start /\ Last(bounded).elapsed = o.window.end

Assessment(compatible, arithmetic, model, final, continuation, comparisons) ==
    [compatible |-> compatible, arithmetic |-> arithmetic, model |-> model, state |-> final,
     observed |-> compatible /\ model = "supported" /\ arithmetic = "satisfied",
     continuation |-> continuation, comparisons |-> comparisons]

Undecided(c) == IF c.initial.models = {} THEN "inconsistent" ELSE "undetermined"

Ahead(c, final, here) ==
    /\ AtMost(Whole(1), attainment(c, final, Lower))
    /\ \A x \in here : x.complete /\ \E u \in x.upper : Below(Plus(u, c.margin), attainment(c, final, Lower))

ModelCondition(c, final, here) ==
    IF final.models = {} THEN "inconsistent" ELSE IF Ahead(c, final, here) THEN "supported" ELSE Undecided(c)

\* What is known stays measured; only the evidence for it is named.
Evidenced(final, o) ==
    [final EXCEPT !.actual = {o.digest} \cup Range(o.receipts), !.attribution = "attribution-unresolved"]

\* Going on from an entry that was measured: the charge for planning is taken again, and only the
\* time it takes may have gone by since the last boundary.
ContinuedWith(c, objects, frontier, start, entry, found) ==
    {[node |-> p.node, state |-> start] :
          p \in {q \in IF found.options = {} THEN {} ELSE {First6(c, found.options)} :
                   check_tree(c, objects, frontier, {}, {}, q.node, start, {entry}) # {}}}

Continuation(c, objects, frontier, view, final) ==
    IF view.now - c.origin > (final.elapsed + c.duration) * Scale(c, objects) THEN {}
    ELSE UNION {UNION {ContinuedWith(c, objects, frontier, start, entry,
                                     enumerate(c, objects, frontier, {}, {}, start, 0, {entry})) :
                       start \in initial_state(c, frontier)} :
                entry \in {[time |-> final.elapsed, capacities |-> final.capacities]}}

\* The contract that starts from what was measured; to be registered anew.
replan_contract(c, final) == [c EXCEPT !.initial = final]

JudgedAs(c, objects, view, comparisons, sound, model, final) ==
    Assessment(TRUE, IF sound THEN "satisfied" ELSE "violated", model, {final},
               IF model # "supported" THEN {} ELSE Continuation(replan_contract(c, final), objects, {}, view, final),
               comparisons)

Judged(c, objects, o, view, comparisons, final) ==
    LET sound == block_supported(final, o.window) /\ Clear(c, final)
    IN JudgedAs(c, objects, view, comparisons, sound,
                IF sound THEN ModelCondition(c, final, {x \in comparisons : x.endpoint = final.elapsed})
                ELSE Undecided(c), Evidenced(final, o))

Bounded(c, objects, o, view, comparisons, bounded) ==
    IF WindowMeasured(c, o, bounded) THEN Judged(c, objects, o, view, comparisons, FinalOf(bounded))
    ELSE Assessment(TRUE, "violated", Undecided(c), {}, {}, comparisons)

reassess(c, objects, o, view) ==
    IF ~validate_contract(c, objects) THEN {}
    ELSE {IF EvidenceCompatible(c, objects, o, view)
          THEN Bounded(c, objects, o, view, comparisons,
                       [j \in DOMAIN o.states |-> _bounded_measurement(o, o.states[j])])
          ELSE Assessment(FALSE, "unknown", Undecided(c), {}, {}, comparisons) :
            comparisons \in {compare(c, objects, {}, s) : s \in initial_state(c, {})}}

-----------------------------------------------------------------------------
(* The frontier that the evidence brings about.                            *)

\* The frontier state after a step, for each successor that the boundary fits. One that the frontier
\* refuses is not left out: it gives nothing, and then there is no result.
Expanded(c, objects, f, s, recipe, outcome, actual) ==
    {{[actual EXCEPT !.enabled = t.enabled, !.lineage = t.lineage, !.depth = t.depth] :
        t \in transition(c, objects, {f}, s, recipe, e)} :
       e \in {d \in successors(s, recipe) :
                d.outcome = outcome /\ \E p \in transition(c, objects, {}, base_state(s), recipe, d) :
                                          _within_prediction(actual, p)}}

\* Mutant: any of the candidates will do.
AnyCandidate(candidates) ==
    IF {} \in candidates \/ candidates = {} THEN {} ELSE {CHOOSE t \in UNION candidates : TRUE}

\* All candidates are one, or it is not known what was activated.
Unambiguous(candidates) ==
    IF {} \notin candidates /\ Cardinality(UNION candidates) = 1 THEN UNION candidates ELSE {}

ActivationsAdmitted(f, view, lineage) ==
    \A x \in DOMAIN lineage :
       \A d \in {f.bindings[x].action, f.bindings[x].capability, f.bindings[x].policy}
                \cup f.rules[lineage[x].rule].capabilities :
          d \in DOMAIN view.objects /\ view.objects[d].kind \in {"action", "capability", "execution"}

RECURSIVE Reconstructed(_, _, _, _, _, _, _)
Reconstructed(c, objects, f, o, view, s, j) ==
    LET receipt == view.objects[o.receipts[j]]
        recipe == CHOOSE r \in Range(c.catalogue) : r.action = view.objects[receipt.job].action
    IN IF j > Len(o.receipts) THEN {s}
       ELSE UNION {Reconstructed(c, objects, f, o, view, t, j + 1) :
                   t \in {u \in Unambiguous(Expanded(c, objects, f, s, recipe, receipt.outcome, o.states[j + 1])) :
                            ActivationsAdmitted(f, view, u.lineage)}}

\* The contract and the frontier proposed from a reconstructed state.
_proposal(c, f, s) ==
    [contract |-> replan_contract(c, base_state(s)),
     frontier |-> [f EXCEPT !.initial = s.enabled, !.latent = DOMAIN f.bindings \ s.enabled, !.carried = s.lineage]]

FrontierAssessment(base, model, states, proposals, continuation, comparisons) ==
    [base EXCEPT !.model = model, !.comparisons = comparisons, !.continuation = continuation,
                 !.observed = model = "supported"]
    @@ [states |-> states, proposals |-> proposals]

Advanced(c, objects, base, view, comparisons, proposal, s) ==
    LET here == {x \in comparisons : x.endpoint = s.elapsed}
        model == IF /\ s.models # {} /\ base.arithmetic = "satisfied"
                    /\ Cardinality(here) = Cardinality(c.comparators) /\ Ahead(c, s, here)
                 THEN "supported" ELSE Undecided(c)
    IN FrontierAssessment(base, model, {s}, {proposal},
                          IF model # "supported" THEN {}
                          ELSE Continuation(proposal.contract, objects, {proposal.frontier}, view, s),
                          comparisons)

FrontierAssessed(c, objects, f, base, view, comparisons, states) ==
    IF states = {} THEN FrontierAssessment(base, Undecided(c), {}, {}, {}, comparisons)
    ELSE CHOOSE a \in {Advanced(c, objects, base, view, comparisons, _proposal(c, f, s), s) : s \in states} : TRUE

\* What was measured, together with what the trace activated.
FrontierStates(c, objects, f, o, view, base) ==
    IF ~base.compatible \/ base.state = {} \/ ~Admits(view, f.digest, "frontier") THEN {}
    ELSE {[final EXCEPT !.enabled = s.enabled, !.lineage = s.lineage, !.depth = s.depth] :
            final \in base.state, s \in Reconstructed(c, objects, f, o, view, seed(o.states[1], f), 1)}

reassess_frontier(c, objects, f, o, view) ==
    IF ~validate_frontier(c, objects, f) THEN {}
    ELSE UNION {{FrontierAssessed(c, objects, f, base, view, compare(c, objects, {f}, s),
                                  FrontierStates(c, objects, f, o, view, base)) :
                   s \in initial_state(c, {f})} : base \in reassess(c, objects, o, view)}
=============================================================================
