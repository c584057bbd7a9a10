------------------------------ MODULE Planner5 ------------------------------
(***************************************************************************)
(* The contingent planner of the local v0.5 workspace (planner_v5.py).  It *)
(* reads the active attestations of a generation, projects each attested   *)
(* action through the four outcomes its capability declares, in the worst  *)
(* case, and offers the actions no other one dominates.                    *)
(*                                                                         *)
(* An attestation has a record type and, in about, the attributes the      *)
(* planner reads.  Rationals are integers; verification load is counted in *)
(* parts of FullLoad.                                                      *)
(***************************************************************************)
EXTENDS Workspace5, SequencesExt

CONSTANTS
    Contract,       \* the phase contract: floors, targets, horizon, width
    IdOrder,        \* action identifiers, in the order strings sort
    FullLoad,       \* the verification load that is all of the capacity
    MaxActions,     \* MAX_ACTIONS
    MaxEligible     \* MAX_ELIGIBLE_ACTIONS

\* What the contract and the attestations measure is numbers.
ASSUME ContractAssumption ==
    /\ Contract.horizon \in Nat /\ FullLoad \in Int
    /\ \A c \in DOMAIN Contract.floors : Contract.floors[c].quantity \in Int

Numeric(s) ==
    /\ s.record = "resource_observation" => s.about.quantity \in Int
    /\ s.record = "evidence" /\ s.evidence = "adapter_capability" =>
           \A n \in DOMAIN s.about.branches :
               LET b == s.about.branches[n]
               IN b.load \in Int /\ \A c \in DOMAIN b.lower : b.lower[c] \in Int

ASSUME NumericAssumption == \A s \in Attestation : Numeric(s)

BRANCHES == {"success", "partial", "failure", "timeout"}

\* An interval that is missing or malformed is as bad as can be, in a unit of its own.
Missing == [upper |-> 1000000000, unit |-> "missing"]

Of(S, type) == {s \in S : s.record = type}
Subjects(S) == {s.subject : s \in S}
Evidence5(S, type) == {s \in Of(S, "evidence") : s.evidence = type}

\* The place of an attestation in the ledger.
Since(g, s) == (CHOOSE e \in g.objects : e.digest = Digest(s)).since

\* The observation of each coordinate that comes first in the ledger counts.
Observed(g, S) ==
    {s \in Of(S, "resource_observation") : \A t \in Of(S, "resource_observation") :
        t.about.coordinate = s.about.coordinate => Since(g, s) <= Since(g, t)}

\* What the planner knows: profile tells whether the scientific audit still stands.
_initial_state(g) ==
    LET S == active_attestations_v5(g)
        observed == Observed(g, S)
        Seen(c) == (CHOOSE s \in observed : s.about.coordinate = c).about
        coordinates == {s.about.coordinate : s \in observed}
    IN [states |-> Subjects({s \in Of(S, "state") : s.about.available}
                            \cup Of(S, "authority") \cup Of(S, "hazard")),
        authority |-> Subjects(Of(S, "authority")),
        hazards |-> Subjects(Of(S, "hazard")),
        resources |-> [c \in coordinates |-> Seen(c).quantity],
        units |-> [c \in coordinates |-> Seen(c).unit],
        independence |-> Subjects(Of(S, "independence")),
        debt |-> {}, rollback |-> {}, load |-> 0, profile |-> "audited"]

Get(f, c) == IF c \in DOMAIN f THEN f[c] ELSE 0

\* Mutant: what a branch only may remove is kept.
RemovedForSure(b) == b.must_remove

Removed(b) == b.must_remove \cup b.may_remove

\* The state after a branch, at its worst: what it may remove is gone, and each
\* resource changes by its lower bound.
_successor(state, b) ==
    LET states == (state.states \ Removed(b)) \cup b.must_add
    IN [state EXCEPT
          !.states = states,
          !.resources = [c \in DOMAIN @ \cup DOMAIN b.lower |-> Get(@, c) + Get(b.lower, c)],
          !.debt = @ \cup b.debt, !.rollback = @ \cup b.rollback, !.load = @ + b.load,
          !.independence = @ \ b.eroded,
          !.authority = @ \cap states, !.hazards = @ \cap states,
          !.profile = IF Removed(b) \cup b.must_add = {} THEN @ ELSE "unknown"]

\* A floor is compared only in the unit its coordinate was observed in.
FloorKept(projected, c) ==
    /\ c \in DOMAIN projected.units /\ projected.units[c] = Contract.floors[c].unit
    /\ Get(projected.resources, c) >= Contract.floors[c].quantity

_safe_branch(projected, b, about) ==
    /\ about.authority \subseteq projected.authority
    /\ about.hazards \subseteq projected.hazards
    /\ \A c \in DOMAIN Contract.floors : FloorKept(projected, c)
    /\ projected.load < FullLoad
    /\ b.quality # Missing

When(condition, reason) == IF condition THEN {reason} ELSE {}

\* The capability an action names: the last one attested under that identifier.
CapabilityOf(g, S, action) ==
    LET C == {s \in Evidence5(S, "adapter_capability") : s.subject = action.ref}
    IN {s \in C : \A t \in C : Since(g, t) <= Since(g, s)}

\* Why a branch of a capability keeps the action from being used in state.
BranchReasons(state, action, about, name) ==
    IF name \notin DOMAIN about.branches THEN {"capability_branch_missing"}
    ELSE LET b == about.branches[name]
         IN When(~(b.must_add \subseteq about.guaranteed),
                 "branch_addition_without_projection_route")
            \cup When(~_safe_branch(_successor(state, b), b, action.about), "unsafe_branch")

Reasons(g, S, state, action) ==
    LET C == CapabilityOf(g, S, action)
    IN When(C = {}, "independently_signed_capability_missing")
       \cup When(\E c \in C : c.key = action.key,
                 "action_and_capability_principals_not_distinct")
       \cup When(action.about.expires < g.epoch, "action_expired")
       \cup When(~(action.about.inputs \subseteq state.states), "action_inputs_unavailable")
       \cup When(~(action.about.authority \subseteq state.authority),
                 "action_authority_unavailable")
       \cup When(~(action.about.hazards \subseteq state.hazards),
                 "action_hazard_guard_unavailable")
       \cup UNION {UNION {BranchReasons(state, action, c.about, n) : n \in BRANCHES} : c \in C}

Branches(g, S, action) ==
    (CHOOSE c \in CapabilityOf(g, S, action) : TRUE).about.branches

\* The actions accepted in state, each with the states its outcomes lead to.
_bound_actions(g, S, state) ==
    {[action |-> action, branches |-> Branches(g, S, action),
      after |-> [n \in BRANCHES |-> _successor(state, Branches(g, S, action)[n])]]
     : action \in {a \in Evidence5(S, "action") : Reasons(g, S, state, a) = {}}}

NoDearer(x, y) == x.unit = y.unit /\ x.upper <= y.upper

\* Left is at least as good as right in one outcome.
NoWorse(l, r) ==
    /\ r.must_add \subseteq l.must_add
    /\ NoDearer(l.time, r.time) /\ NoDearer(l.cost, r.cost) /\ NoDearer(l.quality, r.quality)
    /\ l.debt \subseteq r.debt /\ l.rollback \subseteq r.rollback /\ l.eroded \subseteq r.eroded
    /\ l.load <= r.load

Better(l, r) ==
    \/ l.must_add # r.must_add
    \/ l.time.upper < r.time.upper \/ l.cost.upper < r.cost.upper
    \/ l.quality.upper < r.quality.upper
    \/ l.debt # r.debt \/ l.rollback # r.rollback \/ l.eroded # r.eroded
    \/ l.load < r.load

_dominates(left, right) ==
    /\ \A n \in BRANCHES : NoWorse(left.branches[n], right.branches[n])
    /\ \E n \in BRANCHES : Better(left.branches[n], right.branches[n])

Nondominated(A) == {a \in A : ~\E b \in A \ {a} : _dominates(b, a)}

\* Actions are offered by identifier; those of one identifier in the order of the ledger.
Earlier(g, a, b) ==
    LET Place(x) == CHOOSE i \in DOMAIN IdOrder : IdOrder[i] = x.action.subject
    IN \/ Place(a) < Place(b)
       \/ Place(a) = Place(b) /\ Since(g, a.action) < Since(g, b.action)

FirstOf(g, A, n) == {a \in A : Cardinality({b \in A : Earlier(g, b, a)}) < n}

Overflow(code) == [status |-> code, primary |-> {}, alternatives |-> {}, roots |-> {}]

\* The one action left, if it reaches the targets whatever happens, is primary; else
\* up to three alternatives are offered.  A policy starts from each root (PlanTrees5).
Choice(g, S, nondominated) ==
    LET winners == {a \in nondominated :
                       /\ \A b \in nondominated \ {a} : _dominates(a, b)
                       /\ \A n \in BRANCHES : Contract.targets \subseteq a.after[n].states}
        primary == IF Cardinality(winners) = 1 THEN winners ELSE {}
    IN IF Cardinality(Evidence5(S, "action")) > MaxActions
       THEN Overflow("action_registry_limit_exceeded")
       ELSE IF Cardinality(nondominated) > MaxEligible
       THEN Overflow("candidate_set_overflow_unknown")
       ELSE [status |-> "ok", primary |-> primary,
             alternatives |-> FirstOf(g, nondominated \ primary, 3),
             roots |-> nondominated]

plan_v5(g) ==
    CHOOSE plan \in {Choice(g, S, Nondominated(_bound_actions(g, S, state)))
                     : S \in {active_attestations_v5(g)}, state \in {_initial_state(g)}} : TRUE

\* What the planner, whose plan is plan_v5(g), says of one action: selected, refused for
\* these reasons, or unknown.
explain_action_v5(g, plan, id) ==
    LET S == active_attestations_v5(g)
        state == _initial_state(g)
        refused == {s \in Evidence5(S, "action") :
                        s.subject = id /\ Reasons(g, S, state, s) # {}}
        first == CHOOSE s \in refused : \A t \in refused : Since(g, s) <= Since(g, t)
    IN IF \E a \in plan.primary \cup plan.alternatives : a.action.subject = id
       THEN [code |-> "selected", rejection |-> {}]
       ELSE IF refused # {} /\ plan.status # "action_registry_limit_exceeded"
       THEN [code |-> "rejected", rejection |-> Reasons(g, S, state, first)]
       ELSE [code |-> "action_not_found", rejection |-> {}]
=============================================================================
