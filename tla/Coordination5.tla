--------------------------- MODULE Coordination5 ----------------------------
(***************************************************************************)
(* Commit-reveal sessions of the local v0.5 workspace (coordination_v5.py).*)
(* A session is a document; every transition adds a new version of it and  *)
(* withdraws the old one.  The time of the manifest is used as it is: the  *)
(* receipt behind it is not verified again.                                *)
(***************************************************************************)
EXTENDS Workspace5

CONSTANTS
    Plan,       \* coordination plans: records of plan, id, participants
    Opening     \* what a participant commits to: a proposal with its nonce

_active_sessions(g) == Active(g, "coordination-session")

\* The session with this identifier, if there is exactly one.
_session(g, id) == {e \in _active_sessions(g) : e.digest[2].id = id}

Unambiguous(g, id) == Cardinality(_session(g, id)) = 1

SessionEntry(session, sources) ==
    ledger_entry(<<"session", session>>, "coordination-session", sources, NoPolicy)

coordination_init_v5(plan) ==
    LET p == <<"plan", plan>>
        session == [id |-> plan.id, plan |-> plan.plan, state |-> "CREATED",
                    participants |-> plan.participants, commitments |-> {}, reveals |-> {},
                    capacity |-> FALSE, reason |-> ""]
    IN /\ Commit("coordination_transition", {},
                 {ledger_entry(p, "coordination-plan", {}, NoPolicy), SessionEntry(session, {p})})
       /\ UNCHANGED migrating

\* The new version replaces the old one, with the signed event that caused it.
_replace_session(old, session, events) ==
    /\ Commit("coordination_transition", {old.digest},
              {SignedEntry(current, s, "coordination-event", {old.digest}) : s \in events}
              \cup {SessionEntry(session, {old.digest} \cup {Digest(s) : s \in events})})
    /\ UNCHANGED migrating

\* A signed event about the one session with this identifier.
_event_input(id, s) ==
    /\ Unambiguous(current, id)
    /\ verify_statement(s, policy, current.epoch)

Event(schema, key, id, opening) ==
    [schema |-> schema, role |-> "participant", key |-> key, signed |-> current.epoch,
     sound |-> TRUE, session |-> id, participant |-> key, opening |-> opening]

coordination_commit_v5(id, key, opening) ==
    LET s == Event("proposal-commitment", key, id, opening)
    IN /\ Founded
       /\ _event_input(id, s)
       /\ \E old \in _session(current, id) :
              LET session == old.digest[2]
              IN /\ session.state \in {"CREATED", "COMMIT_OPEN"}
                 /\ key \in session.participants
                 /\ \A c \in session.commitments : c.participant # key
                 /\ _replace_session(old, [session EXCEPT !.state = "COMMIT_OPEN",
                                                         !.commitments = @ \cup {s}], {s})

\* The revealed opening must hash to what was committed.
coordination_reveal_v5(id, key, opening) ==
    LET s == Event("proposal-reveal", key, id, opening)
    IN /\ Founded
       /\ _event_input(id, s)
       /\ \E old \in _session(current, id) :
              LET session == old.digest[2]
              IN /\ session.state = "REVEAL_OPEN"
                 /\ \E c \in session.commitments : c.participant = key /\ c.opening = opening
                 /\ \A r \in session.reveals : r.participant # key
                 /\ _replace_session(old, [session EXCEPT !.reveals = @ \cup {s}], {s})

Participants(S) == {s.participant : s \in S}

\* Mutant: the commit phase is closed without waiting for everybody.
RouteEarly(session, capacity) ==
    CASE session.state = "COMMIT_OPEN" -> "COMMIT_CLOSED"
      [] session.state = "COMMIT_CLOSED" -> "REVEAL_OPEN"
      [] OTHER -> "refused"

\* capacity is what science_audit_v5 says of verification capacity.
RouteTo(session, capacity) ==
    CASE session.state = "COMMIT_OPEN"
             /\ Participants(session.commitments) = session.participants -> "COMMIT_CLOSED"
      [] session.state = "COMMIT_CLOSED" -> "REVEAL_OPEN"
      [] session.state = "REVEAL_OPEN"
             /\ Participants(session.reveals) = session.participants -> "VERIFY"
      [] session.state = "VERIFY" /\ capacity -> "INTEGRATE"
      [] OTHER -> "refused"

coordination_route_v5(id, capacity) ==
    /\ Founded
    /\ Unambiguous(current, id)
    /\ \E old \in _session(current, id) :
           LET session == old.digest[2]
               next == RouteTo(session, capacity)
           IN /\ next # "refused"
              /\ _replace_session(old, [session EXCEPT !.state = next,
                                                      !.capacity = @ \/ next = "INTEGRATE"], {})

coordination_terminate_v5(id, reason) ==
    /\ Founded
    /\ Unambiguous(current, id)
    /\ \E old \in _session(current, id) :
           LET session == old.digest[2]
           IN /\ reason = "all_verified" => session.state = "INTEGRATE"
              /\ _replace_session(old, [session EXCEPT !.state = "TERMINATED",
                                                      !.reason = reason], {})

\* coordination_status_v5: the sessions that are not finished.
Incomplete(g) == {e.digest[2].id : e \in {e \in _active_sessions(g) :
                      e.digest[2].state # "TERMINATED"}}
=============================================================================
