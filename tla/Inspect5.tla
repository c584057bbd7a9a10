------------------------------ MODULE Inspect5 ------------------------------
(***************************************************************************)
(* The commands that only look at a local v0.5 workspace or at documents   *)
(* for it: the inspect_*_v5 commands, status, repairs and onboarding of    *)
(* workspace_v5.py.  They write nothing.                                   *)
(*                                                                         *)
(* profile is the scientific profile of science_audit_v5, a status for     *)
(* each dimension.  A repair has no number: numbers only tell the repairs  *)
(* of one list apart.                                                      *)
(***************************************************************************)
EXTENDS Execution5, Coordination5, Trials5

inspect_genesis_v5(name, genesis, fingerprint, receipt) ==
    /\ verify_time_receipt(receipt, Policies[name])
    /\ verify_genesis(name, genesis, fingerprint, receipt.event_time)

\* The root key is compared only when it is given.
validate_policy_v5(name, fingerprint) ==
    /\ validate_policy(Policies[name])
    /\ \A f \in fingerprint : Policies[name].principals[Policies[name].root].public = f

inspect_time_receipt_v5(receipt, name) == verify_time_receipt(receipt, Policies[name])

\* At the time of signing: what has become of the key since is not asked.
inspect_signed_object_v5(s, name) == verify_statement(s, Policies[name], s.signed)

\* A quorum is judged at the time of the workspace, and an update of the policy at the
\* time of the receipt that comes with it.
inspect_quorum_v5(g, S, decision, subject) ==
    /\ _current_time(g)
    /\ verify_role_quorum(S, Policies[g.policy], decision, g.epoch, subject)

status_v5(g) ==
    [execution_allowed |-> execution_allowed(g), audit_status |-> doctor_v5(g) = {},
     quarantined |-> g.quarantine, epoch |-> g.epoch]

LedgerRepairs(g) ==
    {<<"trust_or_ledger", x[1]>> : x \in doctor_v5(g)}
    \cup {<<"quarantine", "quarantined_migration_object">> : d \in g.quarantine}

\* One repair for each category and blocker.
repairs_v5(g, profile) ==
    LedgerRepairs(g)
    \cup {<<d, profile[d]>> : d \in {d \in DOMAIN profile : profile[d] # "satisfied"}}
    \cup {<<"planner", code>> : code \in {plan_v5(g).status} \cap {"candidate_set_overflow_unknown"}}
    \cup {<<"trial", status>> :
            status \in {acceleration_status_v5(g)} \cap {"unmeasured", "registered_not_observed"}}

\* Sessions that do not exist count against the protocol, unfinished ones do not.
Sessionless(g) == _active_sessions(g) = {}

TrialUnknowns(g) ==
    CASE acceleration_status_v5(g) = "unmeasured" -> {"external_measurement"}
      [] acceleration_status_v5(g) = "registered_not_observed" -> {"external_result"}
      [] OTHER -> {"causality", "statistical_method_validity"}

PlannerUnknowns(g) ==
    CASE plan_v5(g).status = "action_registry_limit_exceeded" -> {"eligible_actions"}
      [] plan_v5(g).status = "candidate_set_overflow_unknown" ->
             {"primary_action", "complete_contingent_policy"}
      [] OTHER -> IF plan_v5(g).primary = {} THEN {"unique_primary_action"} ELSE {}

\* What keeps an agent from working, by the part that says so, and what to run next.
onboard_v5(g, profile) ==
    [unknowns |->
        {<<"doctor", x[1]>> : x \in doctor_v5(g)}
        \cup {<<"science", d>> : d \in {d \in DOMAIN profile :
                                           profile[d] \in {"unknown", "unknown_due_to_budget"}}}
        \cup {<<"planner", u>> : u \in PlannerUnknowns(g)}
        \cup {<<"trial", u>> : u \in TrialUnknowns(g)}
        \cup {<<"coordination", "coordination_protocol_integrity">> : x \in
                 IF Sessionless(g) THEN {0} ELSE {}},
     next_safe_commands |->
        {c \in {"doctor", "science_audit", "control_next"} :
            CASE c = "doctor" -> doctor_v5(g) # {}
              [] c = "science_audit" -> \E d \in DOMAIN profile : profile[d] # "satisfied"
              [] OTHER -> plan_v5(g).primary # {}}]
=============================================================================
