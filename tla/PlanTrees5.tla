----------------------------- MODULE PlanTrees5 -----------------------------
(***************************************************************************)
(* The policies of the local planner, as trees (planner_v5.py), and what   *)
(* following one comes to in a workspace.                                  *)
(*                                                                         *)
(* A node of a tree is an action, the depth still to go below it and the   *)
(* keys of the outcomes on the way to it.                                  *)
(***************************************************************************)
EXTENDS LocalWorkspace5

Roots(plan) ==
    {[action |-> a, depth |-> Contract.horizon, visited |-> {}] : a \in plan.roots}

\* What may be done after the outcome n of a node, to the planning horizon.
_tree(g, S, node, n) ==
    LET a == node.action
        key == <<a.action.subject, a.after[n]>>
        next == Nondominated(_bound_actions(g, S, a.after[n]))
    IN IF node.depth <= 1 THEN [end |-> "horizon", children |-> {}]
       ELSE IF key \in node.visited
       THEN [end |-> "non_progress_cycle_rejected", children |-> {}]
       ELSE IF Cardinality(next) > MaxEligible
       THEN [end |-> "successor_candidate_set_overflow_unknown", children |-> {}]
       ELSE [end |-> "none",
             children |-> {[action |-> child, depth |-> node.depth - 1,
                            visited |-> node.visited \cup {key}]
                           : child \in FirstOf(g, next, Contract.width)}]

-----------------------------------------------------------------------------
\* A branch b as it may really turn out in the world w: some of what may be removed is,
\* and the resources and the load are no worse than declared.
After(w, b, gone, more, spared) ==
    LET lost == (b.must_remove \cup gone) \ b.must_add
    IN [states |-> (w.states \ lost) \cup b.must_add,
        authority |-> w.authority \ lost, hazards |-> w.hazards \ lost,
        resources |-> [c \in DOMAIN w.resources \cup DOMAIN b.lower |->
                          Get(w.resources, c) + Get(b.lower, c) + more],
        units |-> w.units, load |-> w.load + b.load - spared]

Worlds(w, b) ==
    {After(w, b, gone, more, spared)
     : gone \in SUBSET b.may_remove, more \in {0, 1}, spared \in {0, b.load} \cap Nat}

\* The contract and the guards of the action hold in the world w.
ContractKept(w, action) ==
    /\ action.about.authority \subseteq w.authority /\ action.about.hazards \subseteq w.hazards
    /\ \A c \in DOMAIN Contract.floors :
           /\ c \in DOMAIN w.units /\ w.units[c] = Contract.floors[c].unit
           /\ w.resources[c] >= Contract.floors[c].quantity
    /\ w.load < FullLoad

\* What is met one step further: a node under one of these, and a world after its outcome.
Further(g, S, met) ==
    met \cup UNION {_tree(g, S, s[1], n).children \X Worlds(s[2], s[1].action.branches[n])
                    : s \in met, n \in BRANCHES}

\* Where following a policy from its root, in the world now, may lead within the planning
\* horizon, whatever the outcomes: a node and the world it is met in.
Situations(g, S, roots, now) ==
    LET within[d \in 0 .. Contract.horizon] ==
            IF d = 0 THEN {<<node, now>> : node \in roots} ELSE Further(g, S, within[d - 1])
    IN within[Contract.horizon]

\* The action of a node can be taken in the world w, and whatever its outcome the contract
\* and the guards of the action hold after it.
Sound(node, w) ==
    LET a == node.action
    IN /\ a.action.about.inputs \subseteq w.states
       /\ a.action.about.authority \subseteq w.authority
       /\ \A n \in BRANCHES : \A v \in Worlds(w, a.branches[n]) : ContractKept(v, a.action)

\* Some outcome of an action, as its capability declares it, breaks the contract.
Breaks(g, S, action, now) ==
    \E c \in CapabilityOf(g, S, action) : \E n \in DOMAIN c.about.branches :
        \/ c.about.branches[n].quality = Missing
        \/ \E v \in Worlds(now, c.about.branches[n]) : ~ContractKept(v, action)

\* The policies plan_v5 offers hold in every world that keeps to what the capabilities
\* declare: following one never breaks the contract and never finds an input missing,
\* a primary action reaches the targets whatever its outcome, and an action is refused
\* as unsafe only when one of its declared outcomes breaks the contract.
PlanHolds ==
    Founded =>
        \A plan \in {plan_v5(current)}, S \in {active_attestations_v5(current)},
           now \in {_initial_state(current)} :
               /\ \A s \in Situations(current, S, Roots(plan), now) : Sound(s[1], s[2])
               /\ \A a \in plan.primary : \A n \in BRANCHES :
                      \A v \in Worlds(now, a.branches[n]) : Contract.targets \subseteq v.states
               /\ \A id \in Subjects(Evidence5(S, "action")) :
                      "unsafe_branch" \in explain_action_v5(current, plan, id).rejection =>
                          \E s \in Evidence5(S, "action") :
                              s.subject = id /\ Breaks(current, S, s, now)
=============================================================================
