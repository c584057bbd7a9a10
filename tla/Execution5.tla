----------------------------- MODULE Execution5 -----------------------------
(***************************************************************************)
(* Adapter runs and projections of the local v0.5 workspace                *)
(* (execution_v5.py).  run_action_v5 reads the workspace for its plan,     *)
(* reads it again to bind action and capability, runs the adapter, looks   *)
(* at the workspace once more and commits: other processes may commit, or  *)
(* this one may be killed, between any two of these.                       *)
(***************************************************************************)
EXTENDS Planner5

CONSTANTS
    Process,    \* operating-system processes calling run_action_v5
    Output,     \* what a run of an adapter may end with
    Projected   \* Projected[raw]: the digest its projection route reproduces from it

\* A projection that is an attestation is one such as principals sign.
ASSUME ProjectedAssumption ==
    \A x \in Output :
        Projected[x.raw][1] = "principal-attestation" =>
            LET s == Projected[x.raw][2]
            IN Projected[x.raw] = Digest(s) /\ s.signed \in Int /\ Numeric(s)

VARIABLES
    runs,       \* what each process is doing
    launched    \* <<process, generation>> of every adapter that was started

Resting == [pc |-> "idle", action |-> "", base |-> Absent, output |-> CHOOSE x \in Output : TRUE]

InitExecution == runs = [p \in Process |-> Resting] /\ launched = {}

\* The one active attestation of this type about this subject, if it is one.
_evidence(g, subject, type) ==
    {s \in active_attestations_v5(g) : s.subject = subject /\ s.evidence = type}

Single(S) == Cardinality(S) = 1
The(S) == CHOOSE x \in S : TRUE

\* The actions plan_v5 selects.
Plannable(g) ==
    LET plan == plan_v5(g) IN {a.action.subject : a \in plan.primary \cup plan.alternatives}

capability(g, action) ==
    _evidence(g, The(_evidence(g, action, "action")).ref, "adapter_capability")

\* Action and capability are attested once each, by different principals, and what
\* the capability pins is in the ledger.
Bound(g, action) ==
    /\ Single(_evidence(g, action, "action"))
    /\ Single(capability(g, action))
    /\ The(capability(g, action)).key # The(_evidence(g, action, "action")).key
    /\ The(capability(g, action)).pins \subseteq Digests(g.objects)

Becomes(p, pc, base, output) ==
    runs' = [runs EXCEPT ![p].pc = pc, ![p].base = base, ![p].output = output]

\* plan_v5 selects the action, on one reading of the workspace.
PlanAction(p, action) ==
    /\ Founded
    /\ runs[p].pc = "idle"
    /\ action \in Plannable(current)
    /\ runs' = [runs EXCEPT ![p] = [Resting EXCEPT !.pc = "planned", !.action = action]]
    /\ UNCHANGED <<current, migrating, launched>>

\* The second reading; then the adapter is started.
LaunchAdapter(p) ==
    /\ runs[p].pc = "planned"
    /\ Bound(current, runs[p].action)
    /\ Becomes(p, "running", current, runs[p].output)
    /\ launched' = launched \cup {<<p, current.number>>}
    /\ UNCHANGED <<current, migrating>>

AdapterEnds(p, output) ==
    /\ runs[p].pc = "running"
    /\ Becomes(p, "ended", runs[p].base, output)
    /\ UNCHANGED <<current, migrating, launched>>

\* The branch an output stands for: exit code and selected field must agree.
Outcome(output) ==
    CASE output.timed_out -> "timeout"
      [] ~output.timed_out /\ output.valid /\ output.mapped \in BRANCHES
             /\ output.selected = output.mapped -> output.mapped
      [] OTHER -> "failure"

Pending(g, output, statement) ==
    [before |-> g.number, capability |-> Digest(statement), raw |-> <<"raw", output.raw>>,
     projected |-> Projected[output.raw]]

\* The generation the run was bound to is still current.
Unmoved(p) == current.number = runs[p].base.number

\* The raw output (quarantined), a receipt of the run and the projections that wait
\* for approval are added, if CURRENT is what it was.
RecordRun(p) ==
    LET g == runs[p].base
        x == runs[p].output
        raw == <<"raw", x.raw>>
        statement == The(capability(g, runs[p].action))
        pending == IF x.valid /\ Outcome(x) \in {"success", "partial"}
                   THEN {<<"pending", Pending(g, x, statement)>>} ELSE {}
        receipt == <<"action-receipt",
                     [action |-> runs[p].action, before |-> g.number, raw |-> raw,
                      outcome |-> Outcome(x), pending |-> pending]>>
        new == {[ledger_entry(raw, "raw-artifact", {}, NoPolicy)
                    EXCEPT !.lifecycle = "quarantined"],
                ledger_entry(receipt, "action-receipt", {raw} \cup pending, NoPolicy)}
               \cup {ledger_entry(d, "pending-projection", {raw, Digest(statement)}, NoPolicy)
                        : d \in pending}
    IN /\ runs[p].pc = "ended"
       /\ Unmoved(p)
       /\ Accepts(current, new)
       /\ Room
       /\ current' = [Successor(current, "action_executed", {}, new)
                         EXCEPT !.quarantine = @ \cup {raw}]
       /\ runs' = [runs EXCEPT ![p] = Resting]
       /\ UNCHANGED <<migrating, launched>>

\* Refused (binding, workspace changed meanwhile, commit), or killed.
RunAbandoned(p) ==
    /\ runs[p].pc # "idle"
    /\ runs' = [runs EXCEPT ![p] = Resting]
    /\ UNCHANGED <<current, migrating, launched>>

-----------------------------------------------------------------------------
pending_projections_v5(g) == Active(g, "pending-projection")

Approval(key, at, projection, receipt) ==
    [schema |-> "projection-approval", role |-> "projection_verifier", key |-> key,
     signed |-> at, sound |-> TRUE, id |-> <<projection, at>>, projection |-> projection,
     receipt |-> receipt]

\* What is promoted: an attestation when the projection is one that verifies.
Promotes(d) ==
    /\ d[1] = "principal-attestation"
    /\ verify_statement(d[2], policy, current.epoch)

\* The pending entry is withdrawn, approval and promoted object are added.  The time of
\* the manifest is used as it is.
approve_projection_v5(entry, key) ==
    LET content == entry.digest[2]
        d == content.projected
        approval == Approval(key, current.epoch, entry.digest, Digest(current.receipt))
        cap == content.capability[2]
        sources == {entry.digest, Digest(approval), content.raw, content.capability}
    IN /\ Founded
       /\ entry \in pending_projections_v5(current)
       /\ verify_statement(approval, policy, current.epoch)
       /\ verify_statement(cap, policy, current.epoch)
       /\ cap.role = "projection_authority"
       /\ cap.key # key
       /\ d[1] = "principal-attestation" => Promotes(d)
       /\ Commit("projection_approved", {entry.digest},
              {SignedEntry(current, approval, "projection-approval", {entry.digest}),
               IF d[1] = "principal-attestation"
               THEN ledger_entry(d, "principal-attestation", sources \cup {d[2].source},
                                 current.policy)
               ELSE ledger_entry(d, "promoted-projection", sources, NoPolicy)})
       /\ UNCHANGED <<migrating, runs, launched>>
=============================================================================
