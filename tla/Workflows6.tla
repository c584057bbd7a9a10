----------------------------- MODULE Workflows6 -----------------------------
(***************************************************************************)
(* Workflows made of primitive actions: v6/composition.py, synthesis.py    *)
(* and catalogue_revision.py.                                              *)
(*                                                                         *)
(* A request is a record: its number, the domain, the history, a library   *)
(* of bindings, the schemas, what is to be reached and spent at most, the  *)
(* charges and the limits. The intermediate representation of a workflow   *)
(* is a policy of Epistemic6. Forming it is one more fee of the domain.    *)
(* The limits on the size of a tree are left out.                          *)
(***************************************************************************)
EXTENDS Epistemic6

MAXIMUM_WORK == 1000000
MAXIMUM_REVISIONS == 4

Work(d) == MapThenSumSet(LAMBDA x : x.reserved, d.epistemic.events)

\* The fee is due after the history, for forming the workflow and for using it.
FormationEvent(d, r) ==
    [id |-> r.number, after |-> Len(r.history), charges |-> r.formation_charges @@ r.per_use_charges,
     duration |-> r.formation_duration + r.per_use_duration, reserved |-> d.contract.limits.expansions]

RequestValid(d, r) ==
    /\ r.input = d
    /\ DOMAIN r.formation_charges = {"construction", "search", "checking", "transport"}
    /\ DOMAIN r.per_use_charges = {"maintenance", "application"}
    /\ DOMAIN r.target_capacities \subseteq DOMAIN d.contract.domains
    /\ DOMAIN r.maximum_spent = Range(d.contract.cost_order)
    /\ _nonnegative(r.target_capacities) /\ _nonnegative(r.maximum_spent)
    /\ r.formation_duration >= 0 /\ r.per_use_duration >= 0
    /\ Work(d) + d.contract.limits.expansions <= MAXIMUM_WORK

formation_domain(d, r) ==
    IF RequestValid(d, r)
    THEN {f \in {[d EXCEPT !.epistemic.events = @ \cup {FormationEvent(d, r)}]} : ValidDomain(f)} ELSE {}

BindingFits(d, b) ==
    /\ {b.action, b.capability, b.policy} \subseteq DOMAIN d.objects
    /\ d.objects[b.action].kind = "action" /\ d.objects[b.capability].kind = "capability"
    /\ d.objects[b.policy].kind = "execution"
    /\ b.action \in {x.action : x \in Range(d.contract.catalogue)}
    /\ d.objects[b.action].capability = b.capability
    /\ d.objects[b.capability].schema_digest = b.output /\ d.objects[b.capability].policy = b.policy

\* The bindings by the name of their action, or nothing.
primitive_library(d, r) ==
    IF /\ \A b \in r.library : BindingFits(d, b)
       /\ \A a, b \in r.library : d.objects[a.action].id = d.objects[b.action].id => a = b
    THEN {[i \in {d.objects[b.action].id : b \in r.library} |-> CHOOSE b \in r.library : d.objects[b.action].id = i]}
    ELSE {}

\* The actions of a tree, and the most of them on a path.
RECURSIVE Members(_)
Members(node) ==
    (IF node.action = 0 THEN {} ELSE {node.action}) \cup UNION {Members(node.branches[x]) : x \in DOMAIN node.branches}

RECURSIVE Longest(_)
Longest(node) ==
    IF node.action = 0 THEN 0 ELSE 1 + Max({0} \cup {Longest(node.branches[x]) : x \in DOMAIN node.branches})

constituent_digests(library, ids) ==
    [objects |-> UNION {{library[i].action, library[i].capability, library[i].policy} : i \in ids},
     schemas |-> UNION {{library[i].input, library[i].output} : i \in ids}]

LivesOf(d, id) ==
    LET action == RecipeFor(d.contract, d.objects, id).action
        named == {action, d.objects[action].capability, d.objects[d.objects[action].capability].policy}
                 \cup d.objects[action].required
    IN {d.objects[x].lifecycle : x \in {y \in named \cap DOMAIN d.objects : "lifecycle" \in DOMAIN d.objects[y]}}
       \cup {f.bindings[id].lifecycle : f \in d.frontier}

\* In model time, in the registry's scale.
expiry(d, ids) ==
    LET lives == UNION {LivesOf(d, i) : i \in ids}
    IN Lowest({Whole(d.contract.deadline)} \cup {Whole(RecipeFor(d.contract, d.objects, i).expires) : i \in ids}
              \cup {Fraction(t - d.contract.origin, Scale(d.contract, d.objects)) :
                      t \in UNION {{l.until, l.withdrawn} : l \in lives}})

-----------------------------------------------------------------------------
(* The checker.                                                            *)

\* Mutant: a workflow may cost what it will.
DeliveredAtAnyCost(r, support) ==
    \A h \in support, k \in DOMAIN r.target_capacities : h.state.capacities[k][1] >= r.target_capacities[k]

Delivered(r, support) ==
    \A h \in support :
       /\ \A k \in DOMAIN r.target_capacities : h.state.capacities[k][1] >= r.target_capacities[k]
       /\ \A k \in DOMAIN r.maximum_spent : Quantity(h.state.spent, k) <= r.maximum_spent[k]

\* What a group of results comes to: a limit anywhere is one here.
Gathered(results) ==
    IF \E x \in results : x.code = "limit" THEN Result6("limit", {})
    ELSE IF \E x \in results : x.code # "ok" THEN Result6("refused", {})
    ELSE Result6("ok", UNION {x.value : x \in results})

\* The supports at the leaves. Each action takes the record that the one before it gives.
RECURSIVE unfold(_, _, _, _, _, _, _, _)
UnfoldLeaf(d, r, node, S, record) ==
    IF /\ node.branches = <<>> /\ ~node.entry /\ record = r.output_schema
       /\ Terminal6(d, S, {}) /\ Delivered(r, S)
    THEN Result6("ok", {S}) ELSE Result6("refused", {})

UnfoldGroups(d, r, library, comparisons, node, depth, groups) ==
    IF DOMAIN groups # DOMAIN node.branches THEN Result6("refused", {})
    ELSE Gathered({unfold(d, r, library, comparisons, node.branches[x], groups[x], library[node.action].output, depth + 1) :
                   x \in DOMAIN groups})

UnfoldAfter(d, r, library, comparisons, node, depth, result) ==
    IF result.code # "ok" THEN Result6(result.code, {})
    ELSE UnfoldGroups(d, r, library, comparisons, node, depth, CHOOSE g \in result.value : TRUE)

UnfoldFrom(d, r, library, comparisons, node, S, record, depth) ==
    IF node.action = 0 THEN UnfoldLeaf(d, r, node, S, record)
    ELSE IF node.action \notin DOMAIN library \/ Terminal6(d, S, {}) THEN Result6("refused", {})
    ELSE IF library[node.action].input # record THEN Result6("refused", {})
    ELSE UnfoldAfter(d, r, library, comparisons, node, depth, advance(d, S, RecipeFor(d.contract, d.objects, node.action)))

unfold(d, r, library, comparisons, node, support, record, depth) ==
    LET entered == IF node.entry THEN mark_entry(d, support, comparisons) ELSE {support}
    IN IF depth > r.max_primitive_steps THEN Result6("limit", {})
       ELSE IF node.support # support \/ entered = {} THEN Result6("refused", {})
       ELSE UnfoldFrom(d, r, library, comparisons, node, CHOOSE S \in entered : TRUE, record, depth)

CandidateOf(d, r, library, node) ==
    [request |-> r, domain |-> d, ir |-> node, constituents |-> constituent_digests(library, Members(node)),
     steps |-> Longest(node), expires |-> expiry(d, Members(node))]

Certificate(d, r, candidate, start, leaves) ==
    [request |-> r, candidate |-> candidate, input |-> d, start |-> start, terminals |-> leaves,
     objective |-> ObjectiveOf(d.contract, UNION leaves), steps |-> candidate.steps]

\* The candidate is the one its tree makes of the request, whoever wrote it.
CandidateValid(d, r, library, candidate) ==
    /\ Members(candidate.ir) # {} /\ Members(candidate.ir) \subseteq DOMAIN library
    /\ candidate = CandidateOf(d, r, library, candidate.ir)

Issued(d, r, candidate, start, leaves) ==
    IF leaves.code # "ok" THEN leaves ELSE Result6("ok", {Certificate(d, r, candidate, start.value, leaves.value)})

CheckedWith(d, r, library, candidate, start, basis) ==
    IF basis = {} THEN Result6("limit", {})
    ELSE Issued(d, r, candidate, start,
                unfold(d, r, library, CHOOSE b \in basis : TRUE, candidate.ir, start.value, r.input_schema, 0))

CheckedAt(d, r, library, candidate, start) ==
    IF start.code # "ok" THEN Result6(start.code, {})
    ELSE CheckedWith(d, r, library, candidate, start, reference_comparisons(d, start, Len(r.history)))

StartFrom(d, history, basis) ==
    IF basis = {} THEN Result6("limit", {}) ELSE replay6(d, history, CHOOSE b \in basis : TRUE)

CheckedIn(d, r, library, candidate) ==
    IF ~CandidateValid(d, r, library, candidate) THEN Result6("refused", {})
    ELSE IF candidate.steps > r.max_primitive_steps \/ candidate.steps + Len(r.history) > d.contract.max_decisions
         THEN Result6("limit", {})
    ELSE CheckedAt(d, r, library, candidate,
                   StartFrom(d, r.history, IF r.history = <<>> THEN {{}}
                                           ELSE reference_comparisons(d, InitialSupport(d), 0)))

ResultOf(results) == IF results = {} THEN Result6("refused", {}) ELSE CHOOSE x \in results : TRUE

check_composition(d, r, candidate) ==
    ResultOf(UNION {{CheckedIn(f, r, library, candidate) : library \in primitive_library(f, r)} :
                    f \in formation_domain(d, r)})

-----------------------------------------------------------------------------
(* Synthesis: the policies of the domain in their order, as far as the     *)
(* checker certifies them.                                                 *)

RECURSIVE Certified(_, _, _, _, _, _)
CertifiedOn(d, f, r, library, policies, p, kept, result) ==
    IF result.code = "limit" THEN Listed(kept, FALSE)
    ELSE IF result.code # "ok" THEN Certified(d, f, r, library, policies \ {p}, kept)
    ELSE IF Cardinality(kept) = r.max_candidates THEN Listed(kept, FALSE)
    ELSE Certified(d, f, r, library, policies \ {p},
                   kept \cup {[candidate |-> CandidateOf(f, r, library, p.node), certificate |-> x] : x \in result.value})

CertifiedNext(d, f, r, library, policies, p, kept) ==
    CertifiedOn(d, f, r, library, policies, p, kept, check_composition(d, r, CandidateOf(f, r, library, p.node)))

Certified(d, f, r, library, policies, kept) ==
    IF policies = {} THEN Listed(kept, TRUE)
    ELSE CertifiedNext(d, f, r, library, policies, FirstPolicy(f, policies), kept)

\* Only what the library offers, in so many steps.
FromLibrary(r, library, policies) ==
    {p \in policies : Members(p.node) # {} /\ Members(p.node) \subseteq DOMAIN library
                      /\ Longest(p.node) <= r.max_primitive_steps}

\* Whether the plan without a workflow is as good as any with one; known when both searches were whole.
Preferred(d, primitive, found, complete) ==
    LET Rank(o) == Order6(d.contract, o, [node |-> [action |-> 0]])
    IN IF ~primitive.complete \/ ~complete THEN {}
       ELSE IF primitive.objective # {}
       THEN {\A o \in primitive.objective, x \in found : ~Precedes(Rank(x.certificate.objective), Rank(o))}
       ELSE IF found # {} THEN {FALSE} ELSE {}

Synthesis(d, f, r, found, complete, primitive) ==
    [request |-> r, proposed |-> f.epistemic, found |-> found, complete |-> complete, primitive |-> primitive,
     preferred |-> Preferred(d, primitive, found, complete),
     code |-> IF ~complete THEN "composition_search_unknown"
              ELSE IF found # {} THEN "composition_candidates_checked" ELSE "composition_no_candidate"]

Screened(result, listed, comparisons) ==
    Listed(result.policies, result.complete /\ listed.complete /\ \A x \in comparisons : x.complete)

Candidates6(d, f, r, library, comparisons, listed) ==
    Screened(Certified(d, f, r, library, FromLibrary(r, library, listed.policies), {}), listed, comparisons)

Reported(d, f, r, found) ==
    {Synthesis(d, f, r, found.policies, found.complete, p) : p \in plan_epistemic(d, r.history)}

Synthesized(d, f, r, library, start, comparisons) ==
    IF start.code \notin {"ok", "limit"} THEN {}
    ELSE Reported(d, f, r, IF start.code = "limit" THEN Listed({}, FALSE)
                           ELSE Candidates6(d, f, r, library, comparisons,
                                            enumerate6(f, comparisons, {}, start.value, Len(r.history))))

SynthesizedFrom(d, f, r, library, start) ==
    Synthesized(d, f, r, library, start, compare_epistemic(f, start, Len(r.history)))

synthesize(d, r) ==
    UNION {UNION {SynthesizedFrom(d, f, r, library,
                                  replay6(f, r.history, IF r.history = <<>> THEN {}
                                                        ELSE compare_epistemic(f, InitialSupport(f), 0))) :
                  library \in primitive_library(f, r)} : f \in formation_domain(d, r)}

-----------------------------------------------------------------------------
(* The catalogue: a chain of revisions, each of which adds one workflow.   *)

RevisionOf(d) == Cardinality(d.epistemic.events) + 1

ParentFits(d, r, parent) ==
    IF parent = {} THEN RevisionOf(d) = 1
    ELSE \A p \in parent :
            /\ p.proposed = d.epistemic /\ p.revision = RevisionOf(d) - 1
            /\ Len(p.history) <= Len(r.history) /\ SubSeq(r.history, 1, Len(p.history)) = p.history
            /\ p.limit = d.contract.max_decisions /\ p.work = Work(d)

propose_catalogue(d, r, synthesis, candidate, parent) ==
    IF /\ synthesis.request = r /\ candidate \in {x.candidate : x \in synthesis.found}
       /\ RevisionOf(d) <= MAXIMUM_REVISIONS /\ ParentFits(d, r, parent)
       /\ Work(d) + d.contract.limits.expansions <= MAXIMUM_WORK
    THEN {[parent |-> parent, base |-> d.epistemic, proposed |-> f.epistemic, history |-> r.history, request |-> r,
           candidate |-> candidate, certificate |-> x, revision |-> RevisionOf(d),
           work |-> Work(d) + d.contract.limits.expansions, limit |-> d.contract.max_decisions] :
            x \in check_composition(d, r, candidate).value \cap {y.certificate : y \in synthesis.found},
            f \in {g \in formation_domain(d, r) : g.epistemic = synthesis.proposed}}
    ELSE {}

\* When the search stopped short of the workflow, the workflow is the plan.
WithWorkflow(plan, candidate, certificate) ==
    IF plan.policy # {} THEN {plan}
    ELSE IF plan.complete THEN {}
    ELSE {[plan EXCEPT !.code = "epistemic_incumbent", !.policy = {candidate.ir}, !.objective = {certificate.objective}]}

\* The workflow is checked anew; a certificate from before is not enough.
replan_catalogue(d, r, candidate, certificate, revision, opt_in) ==
    IF /\ opt_in
       /\ revision.base = d.epistemic /\ revision.request = r /\ revision.candidate = candidate
       /\ revision.certificate = certificate /\ revision.history = r.history
       /\ revision.limit = d.contract.max_decisions /\ revision.revision = RevisionOf(d)
       /\ check_composition(d, r, candidate).value = {certificate}
    THEN UNION {UNION {{p \in WithWorkflow(plan, candidate, certificate) : check_epistemic_plan(f, p)} :
                       plan \in plan_epistemic(f, r.history)} :
                f \in {g \in formation_domain(d, r) : g.epistemic = revision.proposed /\ Work(g) = revision.work}}
    ELSE {}
=============================================================================
