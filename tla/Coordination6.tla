---------------------------- MODULE Coordination6 ----------------------------
(***************************************************************************)
(* The coordination check of v0.6, v6/coordination.py: the events of one   *)
(* session are signed one by one, each naming the digest of the one before *)
(* it, and judged together.  The digest of an event is its number in the   *)
(* order of admission; an event can only name an event that exists.        *)
(* A commitment is modelled by what it hashes.                             *)
(***************************************************************************)
EXTENDS Integers, Sequences, FiniteSets

CONSTANTS
    SessionPlan,    \* the admitted coordination-plan document
    SessionEvent,   \* the events principals may sign, without their predecessor
    EvaluatedAt,    \* the time the session is judged at
    MaxEvents       \* bound: events admitted

VARIABLE log6       \* the events admitted, each with its predecessor

coordination_plan_integrity(p) ==
    /\ p.plan_principal \in p.participants /\ p.integration_principal \in p.participants
    /\ p.capacity \in [p.verifiers -> Nat \ {0}]
    /\ p.required <= Cardinality(p.participants)
    /\ p.commit_deadline < p.reveal_deadline /\ p.reveal_deadline < p.termination_deadline

ASSUME PlanAssumption == coordination_plan_integrity(SessionPlan)

proposal_commitment_digest(proposal, actor, artifact) == <<proposal, actor, artifact>>

\* A dictionary with an entry set.
Put(f, key, value) == [x \in DOMAIN f \cup {key} |-> IF x = key THEN value ELSE f[x]]

Children(log, n) == {i \in DOMAIN log : log[i].prior = n}

\* The chain with the event that follows its last one, unless there is none or a fork.
Follow(log, path) ==
    LET next == Children(log, IF path = <<>> THEN 0 ELSE path[Len(path)])
    IN IF Cardinality(next) = 1 THEN Append(path, CHOOSE j \in next : TRUE) ELSE path

\* The events in chain order from the only root, up to an end or a fork.
_ordered_events(log) ==
    LET path[n \in 0..Len(log)] == IF n = 0 THEN <<>> ELSE Follow(log, path[n - 1])
    IN path[Len(log)]

ChainWhole(log) ==
    /\ Len(_ordered_events(log)) = Len(log)
    /\ \A i, j \in DOMAIN log : log[i].id = log[j].id => i = j

Fresh ==
    [state |-> "CREATED", commitments |-> <<>>, reveals |-> <<>>, verified |-> <<>>,
     load |-> [v \in SessionPlan.verifiers |-> 0], exposures |-> 0, last |-> 0, ok |-> TRUE]

Goes(st, to, good) == [st EXCEPT !.state = to, !.ok = @ /\ good]

OpenCommit(st, e) == Goes(st, "COMMIT_OPEN", e.actor = SessionPlan.plan_principal)

CommitEvent(st, e) ==
    LET again == \E p \in DOMAIN st.commitments : st.commitments[p][1] = e.actor
        good == /\ e.at <= SessionPlan.commit_deadline
                /\ e.proposal \notin DOMAIN st.commitments
                /\ ~again
    IN [Goes(st, st.state, good) EXCEPT
            !.commitments = Put(@, e.proposal, <<e.actor, e.commitment>>)]

CloseCommit(st, e) ==
    Goes(st, "COMMIT_CLOSED",
         /\ e.actor = SessionPlan.plan_principal
         /\ Cardinality(DOMAIN st.commitments) >= SessionPlan.required)

OpenReveal(st, e) == Goes(st, "REVEAL_OPEN", e.actor = SessionPlan.plan_principal)

\* Mutant: the revealed artifact is not compared with what was committed.
MatchesNothing(st, e) ==
    e.proposal \in DOMAIN st.commitments /\ st.commitments[e.proposal][1] = e.actor

Matches(st, e) ==
    /\ e.proposal \in DOMAIN st.commitments
    /\ st.commitments[e.proposal][1] = e.actor
    /\ e.commitment = st.commitments[e.proposal][2]
    /\ proposal_commitment_digest(e.proposal, e.actor, e.artifact) = e.commitment

RevealEvent(st, e) ==
    LET good == Matches(st, e)
        after == Goes(st, st.state, good /\ e.at <= SessionPlan.reveal_deadline)
    IN IF good THEN [after EXCEPT !.reveals = Put(@, e.proposal, e.artifact)] ELSE after

Exposure(st, e) ==
    [Goes(st, st.state, e.recipient \in SessionPlan.participants) EXCEPT !.exposures = @ + 1]

Revealed(st) == {st.reveals[p] : p \in DOMAIN st.reveals}

Verification(st, e) ==
    LET registered == e.actor \in SessionPlan.verifiers
        counted == IF registered THEN [st EXCEPT !.load[e.actor] = @ + 1] ELSE st
        revealed == e.artifact \in Revealed(st)
        good == /\ registered /\ revealed
                /\ registered => counted.load[e.actor] <= SessionPlan.capacity[e.actor]
        after == Goes(counted, "VERIFY", good)
    IN IF revealed THEN [after EXCEPT !.verified = Put(@, e.artifact, e.status)] ELSE after

Passed(st, artifact) == artifact \in DOMAIN st.verified /\ st.verified[artifact] = "passed"

Integration(st, e) ==
    Goes(st, "INTEGRATE",
         /\ e.actor = SessionPlan.integration_principal
         /\ DOMAIN st.reveals # {} /\ \A a \in Revealed(st) : Passed(st, a))

Terminate(st, e) ==
    Goes(st, "TERMINATED",
         /\ e.actor = SessionPlan.integration_principal
         /\ e.reason = "all_verified" => \A a \in DOMAIN st.verified : Passed(st, a))

\* An event that has no place in this state.
Misplaced(st) == Goes(st, st.state, FALSE)

Transition(st, e) ==
    LET at(type, states) == e.type = type /\ st.state \in states
    IN CASE at("open_commit", {"CREATED"}) -> OpenCommit(st, e)
         [] at("commit", {"COMMIT_OPEN"}) -> CommitEvent(st, e)
         [] at("close_commit", {"COMMIT_OPEN"}) -> CloseCommit(st, e)
         [] at("open_reveal", {"COMMIT_CLOSED"}) -> OpenReveal(st, e)
         [] at("reveal", {"REVEAL_OPEN"}) -> RevealEvent(st, e)
         [] at("exposure", {"COMMIT_OPEN", "REVEAL_OPEN", "VERIFY"}) -> Exposure(st, e)
         [] at("verification", {"REVEAL_OPEN", "VERIFY"}) -> Verification(st, e)
         [] at("integration", {"VERIFY"}) -> Integration(st, e)
         [] at("terminate", {"INTEGRATE"}) -> Terminate(st, e)
         [] OTHER -> Misplaced(st)

\* Every event is dated, in order, by a participant.
Apply(st, e) ==
    [Transition(st, e) EXCEPT
        !.last = e.at,
        !.ok = @ /\ st.last <= e.at /\ e.at <= EvaluatedAt
                 /\ e.actor \in SessionPlan.participants]

Outcome6(log) ==
    LET order == _ordered_events(log)
        after[n \in 0..Len(order)] ==
            IF n = 0 THEN Fresh ELSE Apply(after[n - 1], log[order[n]])
    IN after[Len(order)]

\* What no later event can mend: the chain may still be completed.
Broken(log) ==
    \/ ~Outcome6(log).ok
    \/ Outcome6(log).exposures > SessionPlan.maximum_exposures

validate_coordination(log) ==
    IF ~Broken(log) /\ ChainWhole(log) /\ Outcome6(log).state = "TERMINATED"
    THEN "satisfied" ELSE "violated"

CoordinationInit == log6 = <<>>

\* A participant signs an event after one it knows.
SignEvent(e, prior) ==
    /\ Len(log6) < MaxEvents
    /\ prior \in 0..Len(log6)
    /\ log6' = Append(log6, Put(e, "prior", prior))

CoordinationNext == \E e \in SessionEvent, prior \in 0..Len(log6) : SignEvent(e, prior)

CoordinationSpec == CoordinationInit /\ [][CoordinationNext]_log6

-----------------------------------------------------------------------------
\* The events of one type, by their position in a session that was found satisfied.
Positions(type) == {i \in DOMAIN log6 : log6[i].type = type}

\* A satisfied session kept its promise: what was revealed had been committed by the same
\* participant before anything was revealed, each artifact was verified by a verifier
\* with capacity left and its last verification passed, before it was integrated, and
\* nobody committed or revealed late or after the commitments were opened.
SatisfiedKeptPromise ==
    validate_coordination(log6) = "satisfied" =>
        /\ \A r \in Positions("reveal") :
               /\ log6[r].at <= SessionPlan.reveal_deadline
               /\ \A x \in Positions("commit") : x < r
               /\ \E c \in Positions("commit") :
                      /\ log6[c].actor = log6[r].actor
                      /\ log6[c].commitment = <<log6[c].proposal, log6[r].actor, log6[r].artifact>>
               /\ \E v \in Positions("verification") :
                      /\ v > r /\ log6[v].artifact = log6[r].artifact /\ log6[v].status = "passed"
                      /\ \A w \in Positions("verification") :
                             w > v => log6[w].artifact # log6[v].artifact
        /\ \A p \in SessionPlan.verifiers :
               Cardinality({v \in Positions("verification") : log6[v].actor = p})
                   <= SessionPlan.capacity[p]
        /\ Cardinality(Positions("integration")) = 1
        /\ log6[Len(log6)].type = "terminate"
=============================================================================
