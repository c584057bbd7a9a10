---------------------------- MODULE MCDocuments6 ----------------------------
(***************************************************************************)
(* Instance of the v0.6 document checks: the loader with its quorums,      *)
(* projections, time and history, one coordination session, one trial, the *)
(* analyses of MCAnalyses6, growth (MCGrowth6) and growth under a hidden   *)
(* model, with its workflows (MCEpistemic6).                               *)
(* A behaviour is in one suite; the other variables stay as they are.      *)
(***************************************************************************)
EXTENDS Authority6, Coordination6, Trials6, MCAnalyses6, MCEpistemic6

VARIABLE suite6

document_vars == <<active, events, policy6, time6, log6, trial_objects, suite6>>

-----------------------------------------------------------------------------
(* Authority.                                                              *)

Kinds6 == {"trust-policy", "trusted-time-receipt", "measurement-protocol", "trial-result",
           "source-artifact-envelope", "evidence-attestation", "runner-receipt",
           "pending-projection", "quorum-decision"}

Person(key, roles) ==
    [public |-> key, roles |-> roles, kinds |-> Kinds6, from |-> 0, until |-> 9,
     revoked |-> Never, mode |-> "prospective", compromised |-> Never,
     infrastructure |-> key, correlation |-> key]

People ==
    ("root" :> Person("root", {"workspace_root"}))
    @@ ("clock" :> Person("clock", {"timestamp"}))
    @@ ("author" :> Person("author", {"protocol_author", "projection_authority", "runner"}))
    @@ ("judge" :> Person("judge", {"registration", "projection_verifier", "projection_authority"}))
    @@ ("twin" :> [Person("twin", {"registration"}) EXCEPT !.infrastructure = "author"])

RuleOf(roles) ==
    [roles |-> roles, distinct_infrastructure |-> TRUE, distinct_correlation |-> TRUE]

Rules6 ==
    [trust_update |-> RuleOf({"workspace_root", "timestamp"}),
     protocol_registration |-> RuleOf({"protocol_author", "registration"}),
     projection_promotion |-> RuleOf({"projection_authority", "projection_verifier"})]

Policy6(sequence, prior, people) ==
    [kind |-> "trust-policy", sequence |-> sequence, prior |-> prior, root |-> "root",
     principals |-> people, rules |-> Rules6, from |-> 0, until |-> 9, withdrawn |-> Never]

Genesis6 == Policy6(0, NoDocument, People)
Revoking == Policy6(1, Genesis6,
    [People EXCEPT !["author"].revoked = 3, !["author"].mode = "retroactive",
                   !["author"].compromised = 2])

ReceiptAt(n) ==
    [kind |-> "trusted-time-receipt", authority |-> "clock", issued_at |-> n, valid_until |-> 9,
     nonce |-> n, from |-> 0, until |-> 9, withdrawn |-> Never]

Says(subject, principal, role, signed, receipt) ==
    [entry |-> "statement", subject |-> subject, principal |-> principal, role |-> role,
     signed |-> signed, sequence |-> 0, receipt |-> receipt, sound |-> TRUE]

MCPinned == Says(Genesis6, "root", "workspace_root", 0, NoDocument)
MCFirst == Says(ReceiptAt(2), "clock", "timestamp", 1, ReceiptAt(2))
Later6 == Says(ReceiptAt(3), "clock", "timestamp", 3, ReceiptAt(3))

Doc(kind, author) ==
    [kind |-> kind, author |-> author, from |-> 0, until |-> 9, withdrawn |-> Never]

Study == Doc("measurement-protocol", "author")
ByAuthor(at) == Says(Study, "author", "protocol_author", at, ReceiptAt(2))
ByJudge == Says(Study, "judge", "registration", 2, ReceiptAt(2))
ByTwin == Says(Study, "twin", "registration", 2, ReceiptAt(2))
ByClock == Says(Study, "clock", "protocol_author", 2, ReceiptAt(2))

Decide(type, subject, statements, at) ==
    [entry |-> "decision", kind |-> "quorum-decision", type |-> type, subject |-> subject,
     statements |-> statements, decided_at |-> at]

Registered == Decide("protocol_registration", Study, {ByAuthor(1), ByJudge}, 2)
RegisteredAgain == Decide("protocol_registration", Study, {ByAuthor(1), ByJudge}, 1)
RegisteredByTwin == Decide("protocol_registration", Study, {ByAuthor(1), ByTwin}, 2)
RegisteredStolen == Decide("protocol_registration", Study, {ByAuthor(2), ByJudge}, 2)

Renewed == {Says(Study, "author", "protocol_author", 2, ReceiptAt(3)),
            Says(Study, "judge", "registration", 3, ReceiptAt(3))}

Envelope == Doc("source-artifact-envelope", "author") @@ [raw |-> "out", intact |-> TRUE]
Missing == Doc("source-artifact-envelope", "author") @@ [raw |-> "lost", intact |-> TRUE]
Attested == Doc("evidence-attestation", "author") @@ [raw |-> "lost", points |-> TRUE]
Report == Doc("runner-receipt", "author")
Projection ==
    Doc("pending-projection", "author")
    @@ [changes |-> TRUE, raw |-> "out", source |-> Envelope, runner_receipt |-> Report,
        reconstructs |-> TRUE, projected |-> [kind |-> "projected"]]
ByProducer == Says(Projection, "author", "projection_authority", 2, ReceiptAt(2))
ByVerifier == Says(Projection, "judge", "projection_verifier", 2, ReceiptAt(2))
BySecond == Says(Projection, "judge", "projection_authority", 2, ReceiptAt(2))
Vouch(d) == Says(d, "author", "runner", 2, ReceiptAt(2))

Promotion(S) == Decide("projection_promotion", Projection, S, 2)

Offers ==
    [quorum |-> {ByAuthor(1), ByAuthor(2), ByJudge, ByTwin, Registered, RegisteredAgain,
                 RegisteredByTwin, RegisteredStolen},
     renew |-> {ByAuthor(1), ByJudge, ByClock, Registered, Later6,
                Decide("protocol_registration", Study, Renewed, 3)} \cup Renewed,
     revoke |-> {ByAuthor(1), ByAuthor(2), ByJudge, Registered, RegisteredStolen,
                 Says(Revoking, "root", "workspace_root", 2, ReceiptAt(2)),
                 Says(Revoking, "clock", "timestamp", 2, ReceiptAt(2))},
     promote |-> {ByProducer, ByVerifier, BySecond, Vouch(Report), Vouch(Envelope),
                  Vouch(Missing), Vouch(Attested), Promotion({ByProducer, ByVerifier}),
                  Promotion({ByProducer, BySecond}), [entry |-> "document"]}]

MCOffered == UNION {Offers[s] : s \in DOMAIN Offers}
MCSuccessors == {Revoking}

-----------------------------------------------------------------------------
(* Coordination.                                                           *)

MCSessionPlan ==
    [plan_principal |-> "lead", integration_principal |-> "lead",
     participants |-> {"lead", "mate"}, verifiers |-> {"lead", "mate"},
     capacity |-> [lead |-> 1, mate |-> 1], required |-> 1,
     commit_deadline |-> 1, reveal_deadline |-> 2, termination_deadline |-> 3,
     maximum_exposures |-> 0]

Move(type, actor, at) == [type |-> type, actor |-> actor, at |-> at, id |-> <<type, actor, at>>]
Commits(actor, p, a) ==
    Move("commit", actor, 1) @@ [proposal |-> p, commitment |-> <<p, actor, a>>]
Reveals(actor, p, c, a, at) ==
    Move("reveal", actor, at) @@ [proposal |-> p, commitment |-> c, artifact |-> a]
Verifies(actor, a, status, at) ==
    [Move("verification", actor, at) EXCEPT !.id = <<actor, a, status>>]
    @@ [artifact |-> a, status |-> status]

MCSessionEvent ==
    {Move("open_commit", "lead", 1), Move("close_commit", "lead", 1), Move("close_commit", "mate", 1),
     Move("open_reveal", "lead", 1), Move("integration", "lead", 2), Move("integration", "mate", 2),
     Move("terminate", "lead", 2) @@ [reason |-> "all_verified"],
     Move("exposure", "mate", 1) @@ [recipient |-> "lead"],
     Commits("lead", "p", "x"), Commits("mate", "q", "x"), Commits("mate", "p", "y"),
     Reveals("lead", "p", <<"p", "lead", "x">>, "x", 2),
     Reveals("lead", "p", <<"p", "lead", "x">>, "y", 2),
     Reveals("mate", "q", <<"q", "mate", "x">>, "x", 3),
     Reveals("mate", "p", <<"p", "mate", "y">>, "y", 2),
     Verifies("mate", "x", "passed", 2), Verifies("lead", "x", "failed", 2),
     Verifies("mate", "y", "passed", 2), Verifies("lead", "y", "passed", 2)}

-----------------------------------------------------------------------------
(* Trial.                                                                  *)

MCTrial6 ==
    [id |-> 100, name |-> "trial", author |-> "author", registrar |-> "registrar",
     evaluator |-> "evaluator", quality_verifier |-> "quality", signed |-> TRUE,
     time_zero |-> 3, observation_complete_at |-> 4, primary |-> "main",
     records |-> [dataset |-> 11, assignment |-> 12],
     outcomes |-> [speed |-> [direction |-> "higher", minimum |-> 2, floor |-> 1],
                   cost |-> [direction |-> "lower", minimum |-> 3, floor |-> 0]]]

Record6(id, type, at) ==
    [kind |-> "trial-artifact-record", id |-> id, type |-> type, protocol |-> "trial",
     signed |-> TRUE, stored |-> TRUE, committed_at |-> at, recorded_at |-> at]

Decision6(type, subject, at) ==
    [kind |-> "quorum-decision", id |-> 10 * subject + at, type |-> type, subject |-> subject,
     decided_at |-> at]

Amend(id, sequence, prior, at) ==
    [kind |-> "protocol-amendment", id |-> id, protocol |-> 100, sequence |-> sequence,
     prior |-> prior, amended_at |-> at, signed |-> TRUE]

Effects(lower, quality) ==
    [speed |-> [lower |-> lower, upper |-> 3, quality |-> quality],
     cost |-> [lower |-> 1, upper |-> 3, quality |-> 0]]

Measured(id, name, effects) ==
    [kind |-> "trial-result", id |-> id, protocol |-> 100, name |-> name,
     evaluator |-> "evaluator", quality_verifier |-> "quality", signed |-> TRUE,
     records |-> MCTrial6.records, observation_completed_at |-> 4, issued_at |-> 5,
     design |-> "randomized", effects |-> effects]

MCTrialDocument ==
    {Record6(11, "dataset", 1), Record6(12, "assignment", 2),
     Decision6("protocol_registration", 100, 2), Decision6("protocol_registration", 100, 3),
     Amend(21, 1, 0, 1), Amend(22, 2, 21, 2), Amend(23, 1, 0, 2),
     Decision6("protocol_amendment", 21, 2), Decision6("protocol_amendment", 22, 2),
     Measured(31, "main", Effects(2, 1)), Measured(32, "main", Effects(2, 0)),
     Measured(33, "other", Effects(1, 1)),
     Decision6("acceleration_compatibility", 31, 6), Decision6("acceleration_compatibility", 32, 6)}

-----------------------------------------------------------------------------
Suites == DOMAIN Offers \cup {"clock", "session", "trial"}

MCInit ==
    /\ AuthorityInit /\ CoordinationInit /\ TrialInit
    /\ \/ suite6 \in Suites /\ NoAnalysis /\ NoGrowth /\ NoEpistemic
       \/ suite6 = "analyses" /\ Init6 /\ NoGrowth /\ NoEpistemic
       \/ suite6 = "growth" /\ GrowthInit /\ NoAnalysis /\ NoEpistemic
       \/ suite6 = "hidden" /\ EpistemicInit /\ NoAnalysis /\ NoGrowth

\* Commits of the loader's suites are stamped in order, except in the suite about clocks.
Stamp == IF suite6 = "clock" THEN EventClock ELSE {0}

\* A session is followed one event past the one that broke it.
SoFar == IF log6 = <<>> THEN log6 ELSE SubSeq(log6, 1, Len(log6) - 1)

DocumentNext ==
    /\ UNCHANGED suite6
    /\ \/ /\ suite6 \in DOMAIN Offers
          /\ UNCHANGED <<log6, trial_objects>>
          /\ \E at \in Stamp :
                 \/ \E x \in Offers[suite6] : Admit(x, at)
                 \/ \E x \in active \cap {MCFirst, ByAuthor(1)} : Supersede(x, at)
                 \/ \E s \in Offers[suite6] : s = Later6 /\ AdvanceTime6(s, at)
                 \/ \E p \in Successors :
                        \E S \in SUBSET {s \in Statements(Offers[suite6]) : s.subject = p} :
                            UpdatePolicy6(p, S, at)
       \/ /\ suite6 = "clock"
          /\ UNCHANGED <<log6, trial_objects>>
          /\ Len(events) < 6
          /\ \E at \in Stamp : \E x \in {ByAuthor(1)} : Admit(x, at) \/ Supersede(x, at)
       \/ /\ suite6 = "session"
          /\ UNCHANGED <<authority_vars, trial_objects>>
          /\ ChainWhole(log6)
          /\ ~Broken(SoFar)
          /\ \E e \in SessionEvent : SignEvent(e, Len(log6)) \/ SignEvent(e, 0)
       \/ /\ suite6 = "trial"
          /\ UNCHANGED <<authority_vars, log6>>
          /\ TrialNext

MCNext ==
    \/ DocumentNext /\ UNCHANGED <<analysis_vars, growth_vars, epistemic_vars>>
    \/ suite6 = "analyses" /\ Next6 /\ UNCHANGED <<document_vars, growth_vars, epistemic_vars>>
    \/ suite6 = "growth" /\ GrowthNext /\ UNCHANGED <<document_vars, analysis_vars, epistemic_vars>>
    \/ suite6 = "hidden" /\ EpistemicNext /\ UNCHANGED <<document_vars, analysis_vars>>

MCSpec == MCInit /\ [][MCNext]_<<document_vars, analysis_vars, growth_vars, epistemic_vars>>
=============================================================================
