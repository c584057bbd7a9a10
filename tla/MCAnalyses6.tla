---------------------------- MODULE MCAnalyses6 ----------------------------
(***************************************************************************)
(* Instances of the v0.6 analyses. A behaviour is in one suite: networks   *)
(* grown transformation by transformation, pairs of curves, or a snapshot, *)
(* or a local v0.5 workspace, that is compatible at first and whose        *)
(* documents are changed one by one.                                       *)
(***************************************************************************)
EXTENDS Planning6

S5 == INSTANCE Science5

VARIABLES
    topic,       \* the suite
    network,     \* the network so far
    food,        \* what it starts from
    store6,      \* the documents of the workspace
    snapshot6,   \* the snapshot that is audited
    budget6,     \* the kernel runs it may use
    control6,    \* the state a policy is followed in, or nothing
    followed     \* what is left of the policy: a node, or nothing at its end; or the edits of a local workspace

analysis_vars == <<topic, network, food, store6, snapshot6, budget6, control6, followed>>

-----------------------------------------------------------------------------
(* Networks.                                                               *)

T(ins, outs, clauses, free, inhibitors) ==
    [inputs |-> ins, outputs |-> outs, clauses |-> clauses, uncatalyzed |-> free,
     inhibitors |-> inhibitors, evidence |-> {}, authority |-> {}]

Pool ==
      <<T(1 :> 1, 2 :> 1, <<>>, TRUE, {}), T(2 :> 1, 1 :> 1, <<>>, TRUE, {}),
        T(1 :> 1, 2 :> 1 @@ 3 :> 1, <<{3}>>, FALSE, {}),
        T(2 :> 1, 3 :> 1, <<{3}, {1}>>, FALSE, {}),
        T(3 :> 2, 1 :> 1, <<>>, TRUE, {2}),
        T(1 :> 0 @@ 3 :> 1, 2 :> 2, <<>>, TRUE, {}),
        T(<<>>, 1 :> 1, <<{2}>>, FALSE, {}),
        T(2 :> 1 @@ 3 :> 1, 1 :> 1, <<>>, TRUE, {}),
        T(2 :> 1, 3 :> 1, <<>>, TRUE, {1})>>

MaxNetwork == 3

\* No property depends on the order of the transformations, so one order is enough.
AddTransformation ==
    /\ topic = "network" /\ Len(network) < MaxNetwork
    /\ \E i \in DOMAIN Pool :
          /\ \A j \in DOMAIN Pool : Pool[j] \in Range(network) => j <= i
          /\ network' = Append(network, Pool[i])
    /\ UNCHANGED <<topic, food, store6, snapshot6, budget6, control6, followed>>

-----------------------------------------------------------------------------
(* Curves: two points after the origin each.                               *)

Curve(v1, t2, v2) == <<<<Whole(0), Whole(0)>>, <<Whole(1), Whole(v1)>>, <<Whole(t2), Whole(v2)>>>>
Curves == {Curve(v1, t2, v2) : v1 \in 0..2, t2 \in 2..3, v2 \in 2..4}
Instants == {Fraction(n, 6) : n \in 0..18}

\* Backlog and, where the service never pauses, delay bound every instant.
CurvesBounded ==
    \A arrival, service \in Curves :
       LET bounds == deterministic_curve_bounds(arrival, service)
           steady == \A k \in 2..3 : Below(service[k - 1][2], service[k][2])
       IN \A t \in Instants : \A v \in _interpolate(arrival, t) : \A w \in _interpolate(service, t) :
             /\ AtMost(Minus(v, w), bounds.backlog)
             /\ bounds.exhaustive /\ steady =>
                   \A x \in _inverse_crossing(service, v, t), y \in bounds.delay : AtMost(Minus(x, t), y)

-----------------------------------------------------------------------------
(* A snapshot: resource 1 is turned into target 2 with the help of state 3, *)
(* which 2 renews; two domains, one verifier stage, a plan of one step.     *)

Life == [from |-> 0, until |-> 9, withdrawn |-> Endless]
D(kind) == [kind |-> kind, home |-> "w", intact |-> TRUE, lifecycle |-> Life]
Id(kind, id) == D(kind) @@ [id |-> id]

Make(id, ins, outs, clauses, inhibitors) ==
    Id("transformation", id) @@ [T(ins, outs, clauses, clauses = <<>>, inhibitors) EXCEPT !.evidence = {8}]

RateDoc(id) ==
    Id("rate", id) @@ [lower |-> 0, upper |-> 2, unit |-> "per", window |-> <<0, 2>>, source |-> "proof"]
Domain(id, infrastructure) ==
    Id("independence", id) @@ [principal |-> id, key |-> id, infrastructure |-> infrastructure,
                               lineage |-> id, correlation |-> id]
CurveDoc(type, points) ==
    D("curve") @@ [stage |-> "check", type |-> type, points |-> points, time_unit |-> "s",
                   work_unit |-> "u", window |-> <<0, 2>>, source |-> "proof"]

Objects == {"decision", "stock", "aid", "spare", "proof", "paper", "make", "renew", "rate1", "rate2", "supply",
            "stage", "arrive", "serve", "d1", "d2", "ledger", "session"}

SnapshotOf(objects, witnesses, time, required) ==
    LET unbound == [home |-> "w", objects |-> objects, witnesses |-> witnesses, contract |-> "contract",
                    policy |-> "policy", time |-> time, registry |-> "registry", targets |-> {2},
                    floors |-> 1 :> 1, minimum |-> 2, required |-> required, basis |-> "none"]
    IN [unbound EXCEPT !.basis = analysis_basis_digest(unbound)]

Baseline == SnapshotOf(Objects, {"organization", "plan", "suite"}, "time", MANDATORY_DIMENSIONS)

Selectors == {"principal", "key", "source_system", "state", "transformation", "coordinate", "supply", "rate",
              "catalyst", "inhibitor", "stage", "infrastructure", "session", "independence"}
Remove(field, values) ==
    [remove |-> [f \in Selectors |-> IF f = field THEN values ELSE {}], objects |-> {},
     replacements |-> {}, witnesses |-> {}, advance |-> {}]

\* Two scenarios the snapshot survives: without the second catalyst, and at a later time.
WithoutSpare == [Remove("catalyst", {4}) EXCEPT !.witnesses = {"organization1", "plan1"}]
Later == [Remove("state", {}) EXCEPT !.advance = {"later"}, !.witnesses = {"organization2", "plan2"}]

Organized(s) ==
    D("organization") @@ [snapshot |-> s.basis, targets |-> {2}, transformations |-> {1, 2},
                          fluxes |-> 1 :> 1 @@ 2 :> 1]
Planned(s) ==
    D("persistence") @@ [snapshot |-> s.basis, duration |-> 1,
                         steps |-> <<[actions |-> 1 :> 1 @@ 2 :> 1, supplies |-> "feed" :> 1]>>]
SuiteOf(s, scenarios) ==
    D("suite") @@ [snapshot |-> s.basis, scenarios |-> scenarios, required |-> MANDATORY_DIMENSIONS]
TimeAt(n) == D("time") @@ [issued_at |-> n, valid_until |-> 9]

Reduced1 == SnapshotOf(Objects \ {"spare"}, {}, "time", MANDATORY_DIMENSIONS)
Reduced2 == SnapshotOf(Objects, {}, "later", MANDATORY_DIMENSIONS)

Units6 ==
    "u" :> [scale |-> 1, dimensions |-> "mass" :> 1] @@ "s" :> [scale |-> 1, dimensions |-> "time" :> 1]
    @@ "act" :> [scale |-> 1, dimensions |-> <<>>] @@ "per" :> [scale |-> 1, dimensions |-> "time" :> -1]
    @@ "flow" :> [scale |-> 1, dimensions |-> "mass" :> 1 @@ "time" :> -1]

MCStore ==
    "contract" :> (D("contract") @@ [targets |-> {2}, floors |-> 1 :> 1, minimum |-> 2,
                                     required |-> MANDATORY_DIMENSIONS])
    @@ "policy" :> (D("policy") @@ [valid |-> TRUE, principals |->
                      {[principal |-> "a", key |-> "k", infrastructure |-> "east"]}])
    @@ "time" :> TimeAt(1) @@ "later" :> TimeAt(3)
    @@ "registry" :> (D("registry") @@ [units |-> Units6, time_unit |-> "s", action_unit |-> "act",
                                        coordinate_units |-> [c \in 1..4 |-> "u"]])
    @@ "decision" :> D("decision")
    @@ "stock" :> (Id("resource", 1) @@ [quantity |-> 1, unit |-> "u"])
    @@ "aid" :> (Id("state", 3) @@ [available |-> TRUE, food |-> TRUE])
    @@ "spare" :> (Id("state", 4) @@ [available |-> TRUE, food |-> FALSE])
    @@ "proof" :> (Id("evidence", 8) @@ [raw |-> "scan"])
    @@ "paper" :> (D("envelope") @@ [system |-> "lab", raw |-> "scan"])
    @@ "make" :> Make(1, 1 :> 1, 2 :> 1, <<{3}, {4}>>, {5})
    @@ "renew" :> Make(2, 2 :> 1, 1 :> 1 @@ 3 :> 1, <<>>, {})
    @@ "rate1" :> RateDoc(1) @@ "rate2" :> RateDoc(2)
    @@ "supply" :> (Id("supply", "feed") @@ [coordinate |-> 1, lower |-> 1, upper |-> 1, unit |-> "flow",
                                             window |-> <<0, 2>>])
    @@ "stage" :> (Id("stage", "check") @@ [arrival |-> 1, service |-> 3, amplification |-> 2, unit |-> "per",
                                            window |-> <<0, 2>>, domain |-> "east"])
    @@ "arrive" :> CurveDoc("arrival-upper", Curve(1, 2, 2))
    @@ "serve" :> CurveDoc("service-lower", Curve(2, 3, 4))
    @@ "d1" :> Domain("east", "one") @@ "d2" :> Domain("west", "two")
    @@ "ledger" :> (D("ledger") @@ [complete_through |-> 3, events |->
                      {[from |-> "east", to |-> "west", at |-> 1, pre_commit |-> FALSE]}])
    @@ "session" :> (Id("session", "sx") @@ [status |-> "satisfied"])
    @@ "organization" :> Organized(Baseline) @@ "plan" :> Planned(Baseline)
    @@ "organization1" :> Organized(Reduced1) @@ "plan1" :> Planned(Reduced1)
    @@ "organization2" :> Organized(Reduced2) @@ "plan2" :> Planned(Reduced2)
    @@ "suite" :> SuiteOf(Baseline, <<WithoutSpare, Later>>)

\* Ways a document may differ; all satisfy the document models.
Withdrawn(x) == <<x, [MCStore[x] EXCEPT !.lifecycle.withdrawn = 1]>>
Edits ==
    {Withdrawn("aid"), Withdrawn("proof"), Withdrawn("make"), Withdrawn("rate1"), Withdrawn("d2"),
     Withdrawn("stage"), Withdrawn("stock"),
     <<"make", Make(1, 1 :> 0 @@ 4 :> 1, 2 :> 1, <<>>, {})>>,
     <<"make", Make(1, 1 :> 1, 2 :> 1, <<{3}>>, {4})>>,
     <<"make", Make(1, 1 :> 2, 2 :> 1, <<{4}>>, {})>>,
     <<"renew", Make(2, 2 :> 1, 1 :> 1 @@ 4 :> 1, <<>>, {})>>,
     <<"renew", Make(1, 2 :> 1, 1 :> 1, <<>>, {})>>,
     <<"spare", [MCStore["spare"] EXCEPT !.available = FALSE]>>,
     <<"spare", Id("resource", 4) @@ [quantity |-> 1, unit |-> "u"]>>,
     <<"stock", [MCStore["stock"] EXCEPT !.quantity = 0]>>,
     <<"stock", [MCStore["stock"] EXCEPT !.unit = "flow"]>>,
     <<"rate2", [RateDoc(2) EXCEPT !.lower = 2]>>,
     <<"supply", [MCStore["supply"] EXCEPT !.unit = "u"]>>,
     <<"serve", CurveDoc("service-lower", Curve(0, 2, 1))>>,
     <<"stage", [MCStore["stage"] EXCEPT !.service = 2]>>,
     <<"d2", [Domain("west", "one") EXCEPT !.correlation = "east"]>>,
     <<"ledger", [MCStore["ledger"] EXCEPT !.events =
                    {[from |-> "east", to |-> "west", at |-> 1, pre_commit |-> TRUE]}]>>,
     <<"ledger", [MCStore["ledger"] EXCEPT !.complete_through = 2]>>,
     <<"session", [MCStore["session"] EXCEPT !.status = "violated"]>>,
     <<"policy", [MCStore["policy"] EXCEPT !.valid = FALSE]>>,
     <<"later", TimeAt(1)>>, <<"d1", [MCStore["d1"] EXCEPT !.home = "v"]>>,
     <<"registry", [MCStore["registry"] EXCEPT !.coordinate_units[1] = "oil"]>>,
     <<"plan", [MCStore["plan"] EXCEPT !.duration = 0]>>,
     <<"plan1", [MCStore["plan1"] EXCEPT !.snapshot = Baseline.basis]>>,
     <<"suite", SuiteOf(Baseline, <<WithoutSpare>>)>>,
     <<"suite", SuiteOf(Baseline, <<Remove("coordinate", {7}), Later>>)>>}

MaxEdits == 2
MaxHorizon == 3

EditDocument ==
    /\ topic = "audit"
    /\ Cardinality({x \in DOMAIN MCStore : store6[x] # MCStore[x]}) < MaxEdits
    /\ \E e \in Edits : store6' = [store6 EXCEPT ![e[1]] = e[2]]
    /\ UNCHANGED <<topic, network, food, snapshot6, budget6, control6, followed>>

\* Scenarios nobody registered; the network that is left after each.
Probes == {Remove("state", {3}), Remove("state", {4}), Remove("coordinate", {2}), Remove("catalyst", {3, 4}),
           Remove("inhibitor", {3}), Remove("source_system", {"lab"}), Remove("independence", {"east"}),
           Remove("transformation", {2}), Remove("rate", {1}), Remove("key", {"k"})}

\* No transformation that is left makes anything that is gone again, and none needs a removed catalyst.
NothingRemade(left, given, gone, catalysts) ==
    /\ gone \cap DeclaredClosure(given \ gone, left) = {}
    /\ \A i \in DOMAIN left : Catalyzed(left[i], (1..9) \ catalysts)

RemovedStaysRemoved(remove, objects) ==
    NothingRemade(_transformations(objects, 1), _available_sets(objects, 1).available,
                  UNION {remove[f] : f \in {"state", "coordinate", "catalyst", "inhibitor"}}, remove["catalyst"])

FormedAt(objects, at) ==
    {2} \subseteq structural_closure(_available_sets(objects, at).available, _transformations(objects, at), {1, 2})

FormedAfter(r) ==
    /\ store6[r.snapshot.time].issued_at >= store6["time"].issued_at
    /\ FormedAt(Restricted(r.objects, Referenced(r.snapshot)), store6[r.snapshot.time].issued_at)

CompatibleEarned(profile, scenarios) ==
    /\ profile.solution_class = "incomplete" => ~profile.compatible
    /\ profile.compatible =>
         /\ profile.dimensions.causal_formation = profile.dimensions.structural_reachability
         /\ budget6 > Len(scenarios)
         /\ \A k \in DOMAIN scenarios : \E r \in reduce_snapshot(snapshot6, store6, scenarios[k]) : FormedAfter(r)

-----------------------------------------------------------------------------
(* A local v0.5 workspace: state 1 becomes 2 with the help of catalyst 5,  *)
(* which brings catalyst 6, which makes 3 of 2.                            *)

Statement(kind, subject) ==
    [digest |-> <<kind, subject>>, source |-> <<"source">>, kind |-> kind, subject |-> subject, key |-> "k",
     subject_digest |-> "paper"]
Stands(kind, subject) == Statement(kind, subject) @@ [available |-> TRUE]
Edge5(id, ins, outs, clauses, produced) ==
    Statement("transformation", id) @@
    [inputs |-> ins, outputs |-> outs, authority_refs |-> {41}, evidence_refs |-> {}, inhibitors |-> {7},
     uncatalyzed |-> clauses = {}, clauses |-> clauses, produced_catalysts |-> produced,
     flows |-> IF id = 11 THEN 1 :> -1 @@ 2 :> 1 ELSE 1 :> 1 @@ 2 :> -1]
Evidence5(subject, type) == Statement("evidence", subject) @@ [type |-> type]
Witness5(refs) ==
    Evidence5(21, "organization_witness") @@ [refs |-> refs, flux |-> [t \in refs |-> 1], snapshot |-> "current"]
Scenario5(subjects, keys) == [subjects |-> subjects, keys |-> keys]
Suite5(scenarios) ==
    Evidence5(22, "perturbation_suite") @@
    [scenarios |-> scenarios, acceptance |-> MANDATORY_DIMENSIONS \ {"perturbation_robustness"}]
Stage5(id, arrival, service) ==
    Statement("verifier", id) @@ [source_record |-> "record", arrival_upper |-> arrival, service_lower |-> service,
                                  amplification |-> 2, source_refs |-> {41}]
Observer5(id, domains) ==
    Statement("independence", id) @@ [observer |-> <<"observer">>, committed |-> TRUE, domains |-> domains]
Exposure5 == Statement("exposure", 61) @@ [artifact |-> "draft", before_commitment |-> TRUE]
Principal5(role, infrastructure) ==
    [principal |-> role, key |-> role, roles |-> {role}, revoked |-> FALSE, infrastructure |-> infrastructure]

Flow5(supplies, siphons) ==
    [snapshot |-> "current", registry |-> [units |-> {"u", "s"}], horizon |-> 2, time_unit |-> "s", duration |-> 1,
     coordinates |-> 1 :> [unit |-> "u", initial |-> 1, protected_floor |-> 0],
     transformations |-> 11 :> (1 :> -1), counts |-> <<11 :> 1, 11 :> 1>>, supplies |-> supplies,
     fed_siphons |-> siphons]
Siphon5(coverage) == [coordinates |-> {1}, source_refs |-> {41}, coverage |-> coverage]
Entry5(digest, kind, value) == [digest |-> <<digest>>, kind |-> kind, active |-> TRUE, key |-> "k", value |-> value]
Session5(state) == [state |-> state, capacity_satisfied |-> TRUE, commitments |-> {"p"}, reveals |-> {"p"}]

Local ==
    [contract |-> [targets |-> {3}, minimum |-> 2, suites |-> {22}, operations |-> 6],
     policy |-> {Principal5("workspace_root", {"a"}), Principal5("trust_auditor", {"b"}), Principal5("timestamp", {"c"})},
     epoch |-> TRUE, doctor |-> TRUE, rejected |-> {}, registry |-> [units |-> {"u", "s"}],
     objects |-> {Entry5("session", "coordination-session", Session5("TERMINATED")), Entry5("source", "raw-source", [raw |-> TRUE]),
                  Entry5("flow", "typed-flow-profile", Flow5(<<1 :> 1, <<>>>>, {Siphon5("boundary_fed")}))},
     statements |-> {Stands("state", 1), Stands("state", 9), Stands("catalyst", 5), Statement("authority", 41),
                     [Statement("authority", 42) EXCEPT !.key = "spare", !.subject_digest = "record"],
                     Edge5(11, {1}, {2}, {{5}}, {6}), Edge5(12, {2}, {3}, {{5, 8}, {6}}, {}),
                     [Evidence5(23, "rate_feasibility_witness") EXCEPT !.key = "other"],
                     Witness5({11, 12}), Suite5({Scenario5({}, {}), Scenario5({99}, {"lost"})}),
                     Stage5(31, 1, 2), Stage5(32, 1, 3), Observer5(51, {"a"}), Observer5(52, {"b"})}]

\* An edit takes the statements of some subjects away, adds statements, and replaces other parts.
Edit5(drop, add, parts) == [drop |-> drop, add |-> add, parts |-> parts]
Replacing(d) == Edit5({d.subject}, {d}, <<>>)
FlowEdit(flow) ==
    Edit5({}, {}, "objects" :> ({e \in Local.objects : e.digest # <<"flow">>} \cup {Entry5("flow", "typed-flow-profile", flow)}))

LocalEdits == <<
    Edit5({5}, {}, <<>>), Edit5({12}, {}, <<>>), Edit5({42}, {}, <<>>), Edit5({22}, {}, <<>>), Edit5({}, {Exposure5}, <<>>),
    Edit5({}, {Stands("inhibitor", 7)}, <<>>), Edit5({}, {[Edge5(12, {1}, {3}, {}, {}) EXCEPT !.digest = <<"twin", 12>>]}, <<>>),
    Replacing(Edge5(11, {1}, {1, 2}, {{5}}, {6})), Replacing(Edge5(11, {1}, {2}, {{5}}, {})),
    Replacing(Edge5(12, {2}, {1}, {{5}}, {8})), Replacing(Witness5({11})), Replacing([Witness5({11, 12}) EXCEPT !.snapshot = "old"]),
    Replacing(Suite5({Scenario5({5}, {})})), Replacing(Suite5({Scenario5({}, {"spare"})})),
    Replacing(Suite5({Scenario5({21}, {})})), Replacing(Suite5({Scenario5({}, {"other"})})), Replacing(Suite5({Scenario5({23}, {})})),
     Replacing(Suite5({Scenario5({9}, {})})), Replacing(Suite5({Scenario5({12}, {})})), Replacing(Suite5({})),
    Replacing(Stage5(31, 2, 3)), Replacing(Observer5(52, {"a", "b"})), Edit5({}, {Observer5(53, {"a", "b"})}, <<>>),
    Edit5({}, {Observer5(53, {"c"})}, <<>>), Edit5({}, {}, "epoch" :> FALSE),
    Edit5({}, {}, "contract" :> [Local.contract EXCEPT !.operations = 5]),
    Edit5({}, {}, "contract" :> [Local.contract EXCEPT !.targets = {2, 3}]),
    Edit5({}, {}, "policy" :> {p \in Local.policy : p.key # "timestamp"} \cup {Principal5("timestamp", {"b"})}),
    Edit5({}, {}, "objects" :> {Entry5("session", "coordination-session", Session5("REVEALED"))}),
    FlowEdit(Flow5(<<<<>>, 1 :> 1>>, {})), FlowEdit(Flow5(<<<<>>, 1 :> 2>>, {Siphon5("replenished")})),
    FlowEdit([Flow5(<<1 :> 2, 1 :> 1>>, {}) EXCEPT !.coordinates[1].initial = -1])>>

EditLocal ==
    /\ topic = "local" /\ Cardinality(followed) < MaxEdits
    /\ \E k \in DOMAIN LocalEdits \ followed :
         LET e == LocalEdits[k]
         IN /\ followed' = followed \cup {k}
            /\ store6' = [e.parts @@ store6 EXCEPT
                  !.statements = {d \in @ : d.subject \notin e.drop} \cup e.add]
    /\ UNCHANGED <<topic, network, food, snapshot6, budget6, control6>>

\* The manifest lists what stands, and what claims to be current names the snapshot.
Workspace5Of(s) ==
    LET entries == {[digest |-> d.digest, kind |-> "principal-attestation", active |-> TRUE, key |-> d.key,
                     value |-> [raw |-> FALSE]] : d \in s.statements}
        listed == [s EXCEPT !.objects = @ \cup entries]
        snapshot == S5!analysis_snapshot_digest_v5(listed)
        Naming(d) == [d EXCEPT !.snapshot = IF @ = "current" THEN snapshot ELSE [snapshot EXCEPT !.epoch = ~@]]
    IN [listed EXCEPT
          !.objects = {IF e.kind = "typed-flow-profile" THEN [e EXCEPT !.value = Naming(e.value)] ELSE e : e \in @},
          !.statements = {IF "snapshot" \in DOMAIN d THEN Naming(d) ELSE d : d \in @}]

\* The targets are in every set of states and catalysts that the attested transformations cannot leave.
MustForm(net, targets) ==
    \A S \in SUBSET (1..3 \cup {41}), C \in SUBSET {5, 6, 8} :
       net.available \cap (1..3 \cup {41}) \subseteq S /\ net.catalysts \subseteq C =>
         \/ targets \subseteq S
         \/ \E t \in DOMAIN net.transformations : LET edge == net.transformations[t]
            IN /\ edge.inputs \cup edge.authority_refs \subseteq S /\ edge.inhibitors \cap net.inhibitors = {}
               /\ \A clause \in edge.clauses : clause \cap C # {}
               /\ ~(edge.outputs \subseteq S /\ edge.produced_catalysts \subseteq C)

\* Observers that share a domain, directly or not, can be told apart from none of a group; so many groups there are.
Separable(records, n) ==
    \E group \in [records -> 1..n] :
       /\ Range(group) = 1..n
       /\ \A d, e \in records : d.domains \cap e.domains # {} => group[d] = group[e]

\* A cascade: what arrives at a stage, multiplied on the way, stays below what every later stage serves.
NeverOverloaded(s) ==
    \A d \in S5!Kind(s, "verifier"), e \in S5!Kind(s, "verifier") :
       d.subject <= e.subject => d.arrival_upper * (IF d = e THEN 1 ELSE d.amplification) < e.service_lower

\* What a scenario of a robust suite removes is no statement the snapshot is made of.
OnlyWitnessesGo(s, scenario) ==
    \A d \in s.statements \ S5!Without(s, scenario).statements :
       d.kind = "evidence" /\ d.type \in S5!WitnessTypes

LocalEarned(s) ==
    \A audit \in {S5!science_audit_v5(s)}, exposed \in {Cardinality(S5!Kind(s, "exposure"))} :
       audit.status = "ok" =>
         /\ audit.profile["structural_reachability"] = "satisfied" => MustForm(S5!_network(s), s.contract.targets)
         /\ audit.profile["effective_independence"] = "satisfied" =>
               Separable(S5!Kind(s, "independence"), s.contract.minimum + exposed)
         /\ audit.profile["verification_capacity"] = "satisfied" => NeverOverloaded(s)
         /\ audit.profile["perturbation_robustness"] = "satisfied" =>
               \A x \in S5!Scenarios(s) : OnlyWitnessesGo(s, x)

\* A profile says compatible only of a snapshot whose targets can be formed now and after every scenario of its
\* suite, each judged to the end within the budget; and what a scenario takes away stays away.  A local
\* audit calls reached, independent or served only what is, and robust only what its scenarios leave alone.
RobustnessEarned ==
    /\ topic = "local" => LocalEarned(Workspace5Of(store6))
    /\ topic = "audit" =>
      /\ CompatibleEarned(audit_snapshot(snapshot6, store6, {}, budget6), store6["suite"].scenarios)
      /\ \A scenario \in Probes : \A r \in reduce_snapshot(snapshot6, store6, scenario) :
            RemovedStaysRemoved(scenario.remove, Restricted(r.objects, Referenced(r.snapshot)))

-----------------------------------------------------------------------------
(* Policies: a plan is made for a snapshot with blockers and followed under *)
(* any outcome, with any of what may be removed gone and any effect on the  *)
(* resources within the bounds.                                             *)

Nothing == [o \in OutcomeNames |-> [lower |-> <<>>, upper |-> <<>>, must_add |-> {}, may_add |-> {},
    must_remove |-> {}, may_remove |-> {}, resolves |-> {}, routes |-> {}, debt |-> {}, rollback |-> {},
    hazards_added |-> {}, hazards_removed |-> {}, uppers |-> [u \in UpperBounds |-> 1],
    lowers |-> [l \in LowerBounds |-> 0]]]

\* All outcomes resolve and record alike; success gives at most, the others take at most.
Branches(resolves, take, give, may) ==
    [o \in OutcomeNames |-> [Nothing[o] EXCEPT
        !.resolves = resolves, !.routes = {"receipt"}, !.may_remove = may,
        !.lower = 1 :> (IF o = "success" THEN 0 ELSE -take), !.upper = 1 :> give]]

Capability(branches, measure) ==
    [adapter |-> "a", verifier |-> "b", schema |-> "out", schema_digest |-> schema_digest("out"),
     repeatable |-> measure # <<>>, measure |-> measure, branches |-> branches]

Act(id, capability, required, protected) ==
    [id |-> id, capability |-> capability, required |-> required, protected |-> protected, prohibited |-> {"leak"}]

Coordination == "coordination_protocol_integrity"
Independence == "effective_independence"
Robustness == "perturbation_robustness"

Settle == Capability(Branches({Coordination, Robustness}, 1, 0, {}), <<>>)
SettleLosing == Capability(Branches({Coordination, Robustness}, 0, 0, {"d2"}), <<>>)
Renew == Capability(Branches({Independence}, 0, 2, {"spare"}), <<>>)
RenewOften == Capability(Branches({Independence, Robustness}, 0, 1, {}), <<"evidence_routes">>)
Both == Capability(Branches({Coordination, Independence, Robustness}, 1, 1, {}), <<"blocker_frontier">>)
Leaky == Capability([Branches({Independence}, 0, 0, {}) EXCEPT !["timeout"].hazards_added = {"leak"}], <<>>)

PlanActions ==
    {<<Act(1, Settle, {}, {"d2"})>>, <<Act(1, SettleLosing, {}, {}), Act(2, Renew, {"d2"}, {})>>,
     <<Act(1, Settle, {"spare"}, {}), Act(2, Renew, {"d2"}, {})>>,
     <<Act(1, Settle, {"d2"}, {}), Act(2, Renew, {}, {"spare"}), Act(3, RenewOften, {}, {})>>,
     <<Act(1, Both, {}, {}), Act(2, Settle, {}, {})>>, <<Act(1, Leaky, {}, {}), Act(2, Settle, {}, {})>>}

Blocking == {<<"session", [MCStore["session"] EXCEPT !.status = "violated"]>>,
            <<"ledger", [MCStore["ledger"] EXCEPT !.complete_through = 0, !.events = {}]>>}

PlanInit ==
    /\ topic = "plan"
    /\ \E stock \in {1, 2}, e \in SUBSET Blocking, lost \in {{}, {"time"}} :
         /\ lost = {} \/ e = {}
         /\ store6 = [x \in DOMAIN MCStore \ lost |->
                     IF \E f \in e : f[1] = x THEN (CHOOSE f \in e : f[1] = x)[2]
                     ELSE IF x = "stock" THEN [MCStore[x] EXCEPT !.quantity = stock] ELSE MCStore[x]]
    /\ network \in PlanActions /\ budget6 \in 1..MaxHorizon /\ food = {} /\ snapshot6 = Baseline
    /\ control6 = <<>> /\ followed = {}

PoliciesFor(profile) ==
    Range(plan_actions(snapshot6, store6, profile, network,
                       Sq!SetToSeq({a.capability : a \in Range(network)}), budget6).policies)

ChoosePolicy ==
    /\ topic = "plan" /\ control6 = <<>>
    /\ \E p \in PoliciesFor(audit_snapshot(snapshot6, store6, {}, Endless)) :
         followed' = {p} /\ control6' = p.state @@ [worst |-> TRUE]
    /\ UNCHANGED <<topic, network, food, store6, snapshot6, budget6>>

TakeOutcome ==
    /\ topic = "plan"
    /\ \E p \in followed, o \in OutcomeNames :
         LET b == p.action.capability.branches[o]
         IN /\ followed' = p.branches[o]
            /\ \E gone \in SUBSET b.may_remove, bound \in {b.lower, b.upper} :
                 control6' = [_successor(control6, [b EXCEPT !.must_remove = @ \cup gone, !.may_remove = {},
                                                             !.lower = bound, !.upper = bound],
                                         snapshot6, store6)
                              EXCEPT !.worst = @ /\ gone = b.may_remove]
    /\ UNCHANGED <<topic, network, food, store6, snapshot6, budget6>>

\* Every policy a plan offers begins with a candidate of the portfolio.  A candidate delivers what is
\* said of it whatever its outcome: the blockers it resolves, its routes, the least change of resources.
\* What is called unfed stays empty, and cutting a cut set puts the targets out of reach.
PortfolioDelivers(state, begins, r, net, available, supplied) ==
    /\ begins \subseteq {c.action : c \in r.portfolio.candidates}
    /\ \A c \in r.portfolio.candidates, o \in OutcomeNames :
          LET after == Effect(state, c.action.capability.branches[o])
          IN /\ c.resolves \subseteq after.addressed /\ c.routes \subseteq after.routes
             /\ \A k \in DOMAIN c.delta :
                   Quantity(after.resources, k) - Quantity(state.resources, k) >= c.delta[k]
             /\ \A u \in UpperBounds : after.uppers[u] <= c.uppers[u]
    /\ \A S \in r.siphons.unfed : S \cap structural_closure(available \cup supplied, net, DOMAIN net) = {}
    /\ \A C \in r.cuts.cuts : ~(snapshot6.targets \subseteq structural_closure(available, net, DOMAIN net \ C))

InterventionsDeliver(profile) ==
    PortfolioDelivers(_initial_state(snapshot6, store6, profile), {p.action : p \in PoliciesFor(profile)},
        analyze_interventions(snapshot6, store6, profile, network, {a.capability : a \in Range(network)}, FALSE),
        _transformations(store6, 1), _available_sets(store6, 1).available, Supplied(store6, 1))

\* Whatever happens, a policy that is followed keeps the floors, always finds what its next action
\* requires and none of the hazards it prohibits, and after at most as many steps as the horizon has
\* addressed every blocker there was; every blocker at all, if whatever might be removed was.  The
\* portfolio of interventions has the actions the policies begin with, and says what they deliver.
PlansHold ==
    /\ topic = "plan" /\ control6 = <<>> /\ budget6 = MaxHorizon =>
          InterventionsDeliver(audit_snapshot(snapshot6, store6, {}, Endless))
    /\ topic = "plan" /\ control6 # <<>> =>
      LET steps == Len(control6.trajectory) - 1
          start == Blockers(audit_snapshot(snapshot6, store6, {}, Endless))
      IN /\ \A c \in DOMAIN snapshot6.floors : Quantity(control6.resources, c) >= snapshot6.floors[c]
         /\ \A p \in followed : /\ steps < budget6
                               /\ p.action.required \subseteq control6.live
                               /\ p.action.prohibited \cap control6.hazards = {}
         /\ followed = {} =>
              /\ start \subseteq control6.addressed /\ control6.routes # {}
              /\ control6.worst => control6.blockers \subseteq control6.addressed

Init6 ==
    \/ /\ topic = "network" /\ food \in {{}, {1}, {2, 3}}
       /\ network = <<>> /\ store6 = MCStore /\ snapshot6 = Baseline /\ budget6 = 0
       /\ control6 = <<>> /\ followed = {}
    \/ /\ topic = "audit" /\ budget6 \in 0..3
       /\ food = {} /\ network = <<>> /\ store6 = MCStore /\ snapshot6 = Baseline
       /\ control6 = <<>> /\ followed = {}
    \/ /\ topic = "local" /\ store6 = Local
       /\ food = {} /\ network = <<>> /\ snapshot6 = Baseline /\ budget6 = 0 /\ control6 = <<>> /\ followed = {}
    \/ PlanInit

NoAnalysis ==
    /\ topic = "none" /\ network = <<>> /\ food = {} /\ store6 = <<>> /\ snapshot6 = <<>> /\ budget6 = 0
    /\ control6 = <<>> /\ followed = {}

Next6 == AddTransformation \/ EditDocument \/ EditLocal \/ ChoosePolicy \/ TakeOutcome

\* The cut sets of v0.5 are those of v0.6, a first part of them when the budget ends; where the targets
\* are out of reach with nothing removed, every transformation is reported as a cut.
LocalCutsAgree(targets) ==
    LET edges == [i \in DOMAIN network |-> [inputs |-> _flows(network[i]).consumed, outputs |-> _flows(network[i]).produced]]
        cuts == enumerate_minimal_cut_sets(food, targets, network).values
        known == IF cuts = {{}} THEN {{i} : i \in DOMAIN network} ELSE cuts
    IN \A budget \in {Len(network), 2 ^ Len(network) - 1} :
          LET r == S5!bounded_minimal_cut_sets(food, edges, targets, 3, budget)
          IN /\ r.cuts \subseteq known /\ (r.complete => r.cuts = known)
             /\ r.complete <=> budget >= 2 ^ Len(network) - 1

\* The structural analyses give what their definitions say, however they enumerate.
StructureExact ==
    topic = "network" =>
      /\ SiphonsDecideReach(network, food)
      /\ CutsMeetEnablements(network, food, {2}) /\ LocalCutsAgree({2})
      /\ RafsContainGenerated(network, food, {}, {})
      /\ CouplingIsRatio(network)
      /\ PrefixReachesAll(network, food)

ASSUME CurvesAreBounded == CurvesBounded
ASSUME EditsWellFormed == \A e \in Edits \cup Blocking : WellFormed(e[2])
ASSUME StoreWellFormed == \A x \in DOMAIN MCStore : WellFormed(MCStore[x])
ASSUME ActionsWellFormed ==
    \A actions \in PlanActions : \A a \in Range(actions) :
       four_outcomes(a.capability) /\ \A o \in OutcomeNames : interval_integrity(a.capability.branches[o])

Spec6 == Init6 /\ [][Next6]_analysis_vars
=============================================================================
