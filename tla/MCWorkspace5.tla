---------------------------- MODULE MCWorkspace5 ----------------------------
(***************************************************************************)
(* Instance of LocalWorkspace5.  A workspace lives in one of five suites,  *)
(* chosen at the start, each exercising some of the commands in depth.     *)
(***************************************************************************)
EXTENDS PlanTrees5, TLC

VARIABLE suite

Schemas == {"trust-policy", "trusted-time-receipt", "trust-quorum-decision",
            "principal-attestation", "typed-flow-profile", "dataset-record",
            "analysis-executable-record", "evidence-tier", "proposal-commitment",
            "proposal-reveal", "projection-approval", "measurement-protocol",
            "registration-receipt", "protocol-amendment", "trial-result-certificate"}

Principal(key, roles) ==
    [public |-> key, roles |-> roles, schemas |-> Schemas, domains |-> {key},
     not_before |-> 0, not_after |-> Never, revoked |-> FALSE, revoked_at |-> Never,
     compromised_at |-> Never]

\* The author's key expires after time 2; the second clock shares a domain with the auditor.
Base ==
    ("root" :> Principal("root", {"workspace_root"}))
    @@ ("auditor" :> Principal("auditor", {"trust_auditor"}))
    @@ ("clock" :> Principal("clock", {"timestamp"}))
    @@ ("clock2" :> [Principal("clock2", {"timestamp"}) EXCEPT !.domains = {"auditor"}])
    @@ ("author" :> [Principal("author", {"source", "protocol_author", "participant"})
                        EXCEPT !.not_after = 2])
    @@ ("vendor" :> Principal("vendor", {"projection_authority", "registration", "participant"}))
    @@ ("checker" :> Principal("checker", {"projection_verifier", "evaluator"}))
    @@ ("quality" :> Principal("quality", {"quality_safety_verifier"}))

PolicyOf(seq, previous, principals) ==
    [seq |-> seq, previous |-> previous, root |-> "root", rules |-> QUORUM_ROLES,
     principals |-> principals]

Compromised == [Base EXCEPT !["author"].compromised_at = 2]
Clockless == [k \in DOMAIN Base \ {"clock"} |-> Base[k]]
TwoRoots == [Base EXCEPT !["auditor"].roles = {"workspace_root", "trust_auditor"}]

MCPolicies ==
    [p0 |-> PolicyOf(0, "", Base),
     p1 |-> PolicyOf(1, "p0", Compromised),
     p2 |-> PolicyOf(1, "p0", Clockless),
     p3 |-> PolicyOf(2, "p1", Base),
     q1 |-> PolicyOf(1, "p0", TwoRoots)]

Signing(a, b, c) == [workspace_root |-> a, trust_auditor |-> b, timestamp |-> c]

MCSigners == {Signing("root", "auditor", "clock"), Signing("root", "auditor", "clock2"),
              Signing("root", "root", "clock")}

Attest(key, record, evidence, subject, about) ==
    [schema |-> "principal-attestation", key |-> key,
     role |-> IF key = "author" THEN "source" ELSE "projection_authority",
     signed |-> 1, sound |-> TRUE, id |-> subject, source |-> <<"raw", "notes">>,
     reproducible |-> TRUE, valid_from |-> 1, valid_until |-> 3, active |-> TRUE,
     record |-> record, evidence |-> evidence, subject |-> subject, ref |-> "", pins |-> {},
     about |-> about]

Acts(subject, ref, inputs, authority, hazards) ==
    [Attest("author", "evidence", "action", subject,
            [inputs |-> inputs, authority |-> authority, hazards |-> hazards, expires |-> 2])
        EXCEPT !.ref = ref]

Offers(subject, guaranteed, branches) ==
    [Attest("vendor", "evidence", "adapter_capability", subject,
            [guaranteed |-> guaranteed, branches |-> branches])
        EXCEPT !.pins = {<<"raw", "notes">>}]

Upper(n, unit) == [upper |-> n, unit |-> unit]

Plain == [must_add |-> {}, must_remove |-> {}, may_remove |-> {}, lower |-> <<>>, debt |-> {},
          rollback |-> {}, load |-> 0, eroded |-> {}, time |-> Upper(1, "h"),
          cost |-> Upper(1, "eur"), quality |-> Upper(1, "q")]

Always(b) == [n \in BRANCHES |-> b]

Action == Acts("act", "tool", {}, {}, {})
Tool == Offers("tool", {}, Always(Plain))
Derived == [Attest("vendor", "evidence", "other", "fact", <<>>)
                EXCEPT !.source = <<"raw", "out">>, !.valid_until = 0]
Late == [Action EXCEPT !.id = "late", !.subject = "late", !.valid_from = 2]
MCAttestation == {Action, Tool, Late}

\* For the planner.  Two observations of the battery disagree, and either may come first;
\* at time 2 the permit and an action have expired.
Battery(n, unit, id) ==
    [Attest("author", "resource_observation", "", id,
            [coordinate |-> "battery", quantity |-> n, unit |-> unit]) EXCEPT !.id = id]
Observations == {Battery(3, "kWh", "b3"), Battery(9, "J", "b9")}
Permit == [Attest("author", "authority", "", "permit", <<>>) EXCEPT !.valid_until = 1]
Guard == Attest("author", "hazard", "", "guard", <<>>)
Part == Attest("author", "state", "", "part", [available |-> TRUE])
Broken == [Part EXCEPT !.id = "broken", !.about.available = FALSE]
Facts == <<Permit, Guard, Part, Broken>>

Drains(n) == [battery |-> 0 - n]
Builds == [Plain EXCEPT !.must_add = {"done"}, !.lower = Drains(1), !.debt = {"review"},
                        !.eroded = {"partner"}]

\* build may wear out the part it uses; mend needs the part and gives it back unless it
\* fails; clean changes nothing unless it fails; rush is build with more debt, and loses
\* the permit when it times out; prove declares two outcomes only.
Build == Offers("builder", {"done"}, Always([Builds EXCEPT !.may_remove = {"part"}]))
Mend == Offers("mender", {"part", "done"},
               [Always([Plain EXCEPT !.must_add = {"part"}, !.load = 1])
                  EXCEPT !["failure"] = [Plain EXCEPT !.may_remove = {"part"},
                                                      !.lower = Drains(1), !.load = 1]])
Clean == Offers("cleaner", {}, [Always([Plain EXCEPT !.cost = Missing])
                                  EXCEPT !["failure"] = [Plain EXCEPT !.debt = {"mess"}]])
Hasty == [Builds EXCEPT !.debt = {"review", "haste"}]
Rush == Offers("rusher", {"done"},
               [Always(Hasty) EXCEPT !["timeout"] = [Hasty EXCEPT !.must_remove = {"permit"}]])
Unproved == Offers("prover", {}, [n \in {"success", "failure"} |-> Builds])

PlanActions ==
    <<Acts("build", "builder", {"part"}, {"permit"}, {"guard"}),
      Acts("clean", "cleaner", {}, {}, {}),
      [Acts("mend", "mender", {"part"}, {}, {"guard"}) EXCEPT !.about.expires = 1],
      Acts("prove", "prover", {}, {}, {}),
      Acts("rush", "rusher", {}, {}, {})>>
PlanTools == <<Build, Clean, Mend, Unproved, Rush>>

\* Observations first, then facts, then actions with their capabilities, each a choice.
Script ==
    LET pairs == [i \in 1..10 |-> IF i % 2 = 1 THEN PlanActions[(i + 1) \div 2]
                                 ELSE PlanTools[i \div 2]]
    IN Facts \o pairs

Imported == {e.digest[2] : e \in {e \in current.objects : e.kind = "principal-attestation"}}

\* At most four actions; an action without its capability is last.
Scripted(s) ==
    LET at == CHOOSE i \in DOMAIN Script : Script[i] = s
        later == {Script[i] : i \in at..Len(Script)}
    IN IF s \in Observations
       THEN Imported \subseteq Observations
       ELSE /\ s = Broken => Part \notin Imported
            /\ Imported \cap later = {}
            /\ s.evidence = "adapter_capability" => Script[at - 1] \in Imported
            /\ s.evidence = "action" =>
                   /\ Cardinality(Evidence5(Imported, "action")) < 4
                   /\ \A t \in Evidence5(Imported, "action") :
                          \E c \in Imported : c.subject = t.ref

\* For the runs of adapters, in this order.
RunScript == <<Battery(3, "kWh", "b3"), Action, Tool>>

MCIdOrder == <<"act", "build", "clean", "late", "mend", "prove", "rush">>
MCContract == [floors |-> [battery |-> [quantity |-> 1, unit |-> "kWh"]],
               targets |-> {"done"}, horizon |-> 3, width |-> 2]

Sign(schema, role, key, signed) ==
    [schema |-> schema, role |-> role, key |-> key, signed |-> signed, sound |-> TRUE]

Profile == Sign("typed-flow-profile", "source", "author", 1)
           @@ [id |-> "profile", names |-> {}, payload |-> "flows"]
Dataset == Sign("dataset-record", "source", "author", 1)
           @@ [id |-> "data", names |-> {<<"raw", "notes">>}, payload |-> ""]
Executable == Sign("analysis-executable-record", "source", "author", 1)
              @@ [id |-> "exe", names |-> {<<"raw", "notes">>, <<"raw", "lost">>}, payload |-> ""]

MCOutput ==
    {[raw |-> "out", valid |-> TRUE, timed_out |-> FALSE, mapped |-> "success",
      selected |-> "success"],
     [raw |-> "out2", valid |-> TRUE, timed_out |-> FALSE, mapped |-> "partial",
      selected |-> "partial"],
     [raw |-> "empty", valid |-> FALSE, timed_out |-> TRUE, mapped |-> "none",
      selected |-> "none"]}

MCProjected == [out |-> <<"principal-attestation", Derived>>, out2 |-> <<"value", 1>>,
                empty |-> <<"value", 0>>]

MCPlan == {[plan |-> 1, id |-> "s", participants |-> {"author", "vendor"}],
           [plan |-> 2, id |-> "s", participants |-> {"author"}]}

Trial ==
    Sign("measurement-protocol", "protocol_author", "author", 1)
    @@ [id |-> "trial", time_zero |-> 2, observation_end |-> 3, registration_key |-> "vendor",
        evaluator_key |-> "checker", primary |-> "effect", dataset |-> Digest(Dataset),
        executable |-> Digest(Executable), tier |-> "randomized", minimum |-> 1, floor |-> 1]
MCProtocol == {Trial, [Trial EXCEPT !.floor = 2]}

MCAmendment ==
    {Sign("protocol-amendment", "protocol_author", "author", 1)
     @@ [id |-> "amendment", protocol |-> Digest(Trial), effective_at |-> 1,
         previous |-> NoDigest]}

Effect ==
    Sign("trial-result-certificate", "evaluator", "checker", 3)
    @@ [id |-> "effect", protocol_id |-> "trial", protocol |-> Digest(Trial),
        dataset |-> Digest(Dataset), executable |-> Digest(Executable), started |-> 2,
        ended |-> 3, completed |-> 3, lower |-> 1, upper |-> 2, quality |-> 1, chain |-> {}]
MCResult == {Effect, [Effect EXCEPT !.chain = MCAmendment], [Effect EXCEPT !.quality = 0],
             [Effect EXCEPT !.lower = 0]}

Evidence(r) ==
    Sign("evidence-tier", "quality_safety_verifier", "quality", 1)
    @@ [id |-> "tier", names |-> {}, payload |-> "", result |-> Digest(r), preserved |-> TRUE]
MCSignedObject == {Profile, Dataset, Executable, Evidence(Effect)}

-----------------------------------------------------------------------------
\* The processes are alike.
Symmetry == Permutations(Process)

Limit == [trust |-> 4, run |-> 8, coordinate |-> 11, measure |-> 9, plan |-> 16]

At(s) == suite = s /\ current.number < Limit[s]

Frozen == UNCHANGED <<runs, launched>>

MCInit == Init /\ suite \in DOMAIN Limit

MCNext ==
    /\ UNCHANGED suite
    /\ \/ At("trust") /\ Frozen
              /\ \/ Founding \/ Advancing \/ Updating \/ Migrating
                 \/ import_raw_v5("notes")
                 \/ \E s \in {Action, Late} : import_attestation_v5(s)
                 \/ \E s \in {Profile, Dataset, Executable} : import_signed_object_v5(s)
       \/ At("run") /\ Frozen
              /\ \/ initialize_workspace_v5("p0", Receipt("clock", 1, 0, contract))
                 \/ import_raw_v5("notes")
                 \/ \E i \in DOMAIN RunScript :
                        /\ Founded /\ Cardinality(Imported) = i - 1
                        /\ import_attestation_v5(RunScript[i])
       \/ At("run") /\ (Running \/ Approving)
       \/ At("coordinate") /\ Frozen
              /\ \/ initialize_workspace_v5("p0", Receipt("clock", 1, 0, contract))
                 \/ Coordinating
       \/ At("measure") /\ Frozen
              /\ \/ initialize_workspace_v5("p0", Receipt("clock", 1, 0, contract))
                 \/ import_raw_v5("notes")
                 \/ \E s \in SignedObject \ {Profile} : import_signed_object_v5(s)
                 \/ advance_time_v5(Receipt("clock", 3, 1, GenerationId(current)))
                 \/ \E p \in Protocol, key \in {"vendor", "author"} :
                        import_protocol_v5(p, key, Receipt("clock", 1, 0, Digest(p)))
                 \/ \E a \in Amendment, t \in {1, 3} :
                        import_amendment_v5(a, Receipt("clock", t, 0, Digest(a)))
                 \/ \E r \in Result : import_result_v5(r)
       \/ At("plan") /\ Frozen
              /\ \/ initialize_workspace_v5("p0", Receipt("clock", 1, 0, contract))
                 \/ import_raw_v5("notes")
                 \/ \E s \in Observations \cup Range(Script) :
                        TimeKnown /\ current.epoch = 1 /\ Scripted(s) /\ import_attestation_v5(s)
                 \/ advance_time_v5(Receipt("clock", 2, 1, GenerationId(current)))

MCSpec == MCInit /\ [][MCNext]_<<vars, suite>>
=============================================================================
