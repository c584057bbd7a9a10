----------------------------- MODULE Authority6 -----------------------------
(***************************************************************************)
(* The loader of a v0.6 generation, load_authoritative_generation of       *)
(* v6/authority.py with reconstruct_projection of v6/projection.py and the *)
(* history check of v6/storage.py.  A generation lists signed statements,  *)
(* quorum decisions, audit events and, wrongly, unsigned documents; every  *)
(* commit adds an entry or supersedes one, and appends an audit event      *)
(* stamped with the clock of whoever committed.  What is authoritative is  *)
(* recomputed on every reading, for the active policy and time receipt.    *)
(***************************************************************************)
EXTENDS Trust6

CONSTANTS
    Offered,        \* statements, decisions and unsigned documents that may be admitted
    Successors,     \* policies that may be proposed
    PinnedGenesis,  \* the genesis envelope known out of band
    Fingerprint6,   \* the root key known out of band
    FirstReceipt,   \* the statement of the first time receipt
    Stored,         \* the raw artifacts in the object store
    EventClock,     \* the times commits may be stamped with
    MaxCommits      \* bound: commits after the first

VARIABLES
    active,     \* the active entries of the ledger
    events,     \* the audit events in ledger order, which is commit order
    policy6,    \* the active trust policy
    time6       \* the active time receipt

authority_vars == <<active, events, policy6, time6>>

Statements(A) == {x \in A : x.entry = "statement"}
Decisions(A) == {x \in A : x.entry = "decision"}

ASSUME AuthorityAssumption ==
    /\ FirstReceipt.subject # NoDocument
    /\ \A s \in Statements(Offered) : s.subject # NoDocument
    /\ EventClock \subseteq Int

\* Audit events are chained: an event names the number of the one before it.
Event(n, at) == [number |-> n, prior |-> n - 1, occurred_at |-> at]

AuthorityInit ==
    /\ active = {PinnedGenesis, FirstReceipt}
    /\ events = <<Event(1, 0)>>
    /\ policy6 = PinnedGenesis.subject
    /\ time6 = FirstReceipt.subject

-----------------------------------------------------------------------------
(* The stages of the loader.                                               *)

_lifecycle_reasons(d, now) ==
    /\ d.from <= now /\ now <= d.until
    /\ d.withdrawn # Never => now < d.withdrawn

\* Statements that verify, of subjects within their lifecycle.
Verified ==
    {s \in Statements(active) :
        /\ IF s.subject.kind = "trust-policy" /\ s.subject.sequence = 0
           THEN inspect_genesis(s, PinnedGenesis, Fingerprint6)
           ELSE verify_envelope(s, policy6, time6)
        /\ _lifecycle_reasons(s.subject, time6.issued_at)}

StatementsOf(S, d) == {s \in S : s.subject = d}

\* The role in which the principal a document names must have signed it.
ClaimedRole ==
    [k \in {"coordination-plan", "coordination-event", "trial-artifact-record", "measurement-protocol",
            "protocol-amendment", "trial-result", "growth-observation",
            "epistemic-observation"} |->
        CASE k = "coordination-plan" -> "coordination_plan"
          [] k = "coordination-event" -> "coordination_event"
          [] k = "trial-artifact-record" -> "trial_artifact_producer"
          [] k \in {"measurement-protocol", "protocol-amendment"} -> "protocol_author"
          [] OTHER -> "evaluator"]

_claimed_signer(d) ==
    d.kind \in DOMAIN ClaimedRole =>
        \E s \in StatementsOf(Verified, d) :
            s.principal = d.author /\ s.role = ClaimedRole[d.kind]

_validate_source_envelope(d) == d.raw \in Stored /\ d.intact

SourceEnvelopes == {s.subject : s \in {t \in Verified : t.subject.kind = "source-artifact-envelope"}}

\* Evidence points into the raw artifact of one source envelope.
_validate_evidence_pointer(d) ==
    Cardinality({e \in SourceEnvelopes : e.raw = d.raw}) = 1 /\ d.points

Bound6(d) ==
    /\ _claimed_signer(d)
    /\ d.kind = "source-artifact-envelope" => _validate_source_envelope(d)
    /\ d.kind = "evidence-attestation" => _validate_evidence_pointer(d)

\* An evidence pointer into an artifact that is missing from the store is read without a
\* check: the loader raises and there is no view at all.
Raises ==
    \E s \in Verified :
        /\ s.subject.kind = "evidence-attestation"
        /\ s.subject.raw \notin Stored
        /\ Cardinality({e \in SourceEnvelopes : e.raw = s.subject.raw}) = 1

BoundStatements == {s \in Verified : Bound6(s.subject)}

\* Decisions are recomputed from statements that stand so far.
Derived ==
    {q \in Decisions(active) :
        /\ q.statements \subseteq BoundStatements
        /\ evaluate_quorum(q.type, q.subject, q.statements, policy6, time6)
        /\ q.decided_at <= time6.issued_at}

DecisionsOn(type, d) == {q \in Derived : q.type = type /\ q.subject = d}

_required_quorum(d) ==
    CASE d.kind \in {"measurement-protocol", "growth-capability-frontier", "epistemic-contract",
                     "catalogue-revision"} -> "protocol_registration"
      [] d.kind = "protocol-amendment" -> "protocol_amendment"
      [] d.kind \in {"trial-result", "growth-observation", "epistemic-observation"} ->
             "acceleration_compatibility"
      [] OTHER -> "none"

Decided(d) ==
    _required_quorum(d) # "none" => Cardinality(DecisionsOn(_required_quorum(d), d)) = 1

DecidedStatements == {s \in BoundStatements : Decided(s.subject)}

\* The bytes and digests reconstruct_projection compares are the ones of one artifact.
reconstruct_projection(d) ==
    /\ d.source.raw = d.raw /\ d.source.intact
    /\ d.reconstructs

\* Mutant: the report of the runner is not asked for.
PromotableAlone(d) ==
    LET standing == StatementsOf(DecidedStatements, d)
    IN /\ Cardinality(DecisionsOn("projection_promotion", d)) = 1
       /\ \E s \in standing : s.role = "projection_authority" /\ s.principal = d.author
       /\ \E s \in standing : s.role = "projection_verifier"
       /\ d.raw \in Stored

\* A projection is promoted on one decision, one statement of its producer, one of
\* another verifier, a receipt its runner signed and a source envelope that stands.
Promotable(d) ==
    LET standing == StatementsOf(DecidedStatements, d)
        One(role, Who(_)) ==
            Cardinality({s \in standing : s.role = role /\ Who(s.principal)}) = 1
        producer(p) == p = d.author
        another(p) == p # d.author
    IN /\ Cardinality(DecisionsOn("projection_promotion", d)) = 1
       /\ One("projection_authority", producer)
       /\ One("projection_verifier", another)
       /\ \E s \in StatementsOf(DecidedStatements, d.runner_receipt) :
              s.subject.kind = "runner-receipt" /\ s.principal = s.subject.author
       /\ StatementsOf(DecidedStatements, d.source) # {}
       /\ d.raw \in Stored
       /\ reconstruct_projection(d)

Pending(d) == d.kind = "pending-projection" /\ d.changes

Standing == {s \in DecidedStatements : Pending(s.subject) => Promotable(s.subject)}

Promoted == {s.subject.projected : s \in {t \in Standing : Pending(t.subject)}}

Authoritative == {s.subject : s \in Standing} \cup Derived \cup Promoted

\* Mutant: events are taken in the order of the ledger.
AsListed(es) == es

\* Events are sorted by their own times; sort is stable.
Sorted(es) ==
    LET before(i, j) == \/ es[i].occurred_at < es[j].occurred_at
                        \/ es[i].occurred_at = es[j].occurred_at /\ i <= j
        rank(j) == Cardinality({i \in DOMAIN es : before(i, j)})
    IN [n \in DOMAIN es |-> es[CHOOSE j \in DOMAIN es : rank(j) = n]]

validate_history(es, head) ==
    /\ \A n \in DOMAIN es : es[n].prior = (IF n = 1 THEN 0 ELSE es[n - 1].number)
    /\ es[Len(es)].number = head

\* The head of the history is the event of the last commit.
HistoryAccepted == validate_history(Sorted(events), Len(events))

\* The view is valid when nothing at all was rejected.
Valid6 ==
    /\ ~Raises
    /\ Standing = Statements(active)
    /\ Derived = Decisions(active)
    /\ active \subseteq Statements(active) \cup Decisions(active)
    /\ \E s \in Verified : s.subject = policy6
    /\ \E s \in Verified : s.subject = time6
    /\ HistoryAccepted

-----------------------------------------------------------------------------
(* Commits.                                                                *)

Commit6(entries, at) ==
    /\ Len(events) <= MaxCommits
    /\ active' = entries
    /\ events' = Append(events, Event(Len(events) + 1, at))

Admit(x, at) ==
    /\ x \notin active
    /\ Commit6(active \cup {x}, at)
    /\ UNCHANGED <<policy6, time6>>

Supersede(x, at) ==
    /\ x \in active
    /\ Commit6(active \ {x}, at)
    /\ UNCHANGED <<policy6, time6>>

\* The operator moves to a later receipt; its statement is admitted with it.
AdvanceTime6(s, at) ==
    /\ verify_trusted_time_advance(time6, s, policy6)
    /\ Commit6(active \cup {s}, at)
    /\ time6' = s.subject
    /\ UNCHANGED policy6

UpdatePolicy6(candidate, statements, at) ==
    /\ verify_policy_update(policy6, candidate, statements, time6)
    /\ Commit6(active \cup statements, at)
    /\ policy6' = candidate
    /\ UNCHANGED time6

AuthorityNext ==
    \E at \in EventClock :
        \/ \E x \in Offered : Admit(x, at)
        \/ \E x \in active : Supersede(x, at)
        \/ \E s \in Statements(Offered) : s.subject.kind = "trusted-time-receipt" /\ AdvanceTime6(s, at)
        \/ \E p \in Successors : \E S \in SUBSET {s \in Statements(Offered) : s.subject = p} :
               UpdatePolicy6(p, S, at)

AuthoritySpec == AuthorityInit /\ [][AuthorityNext]_authority_vars

-----------------------------------------------------------------------------
\* Nothing signed for an earlier time receipt is authoritative: moving the time on takes
\* the authority from every statement that is not made anew, the genesis policy excepted.
AuthorityIsCurrent ==
    \A s \in Standing :
        \/ s = PinnedGenesis
        \/ s.receipt = time6 /\ s.signed <= time6.issued_at

\* A statement of a key that was stolen before it signed counts for nothing, neither by
\* itself nor in a decision, once the policy in force says so.
CompromisedNeverCounts ==
    \A s \in Standing \cup UNION {q.statements : q \in Derived} :
        s # PinnedGenesis =>
            LET p == policy6.principals[s.principal]
            IN p.compromised # Never /\ p.mode = "retroactive" => s.signed < p.compromised

\* An object nobody signed is authoritative only as the projection of a runner's output
\* that two principals vouched for and that the runner itself reported.
PromotedByTwo ==
    \A x \in Promoted : \E s, t, r \in Standing :
        /\ Pending(s.subject) /\ s.subject = t.subject /\ s.subject.projected = x
        /\ s.principal # t.principal
        /\ s.role = "projection_authority" /\ t.role = "projection_verifier"
        /\ r.subject = s.subject.runner_receipt /\ r.principal = r.subject.author
        /\ s.subject.raw \in Stored

\* The history is accepted as long as no commit is stamped with a time before that of an
\* earlier one, and never again afterwards: equal stamps are harmless.
HistoryFollowsClock ==
    HistoryAccepted <=>
        \A i, j \in DOMAIN events : i < j => events[i].occurred_at <= events[j].occurred_at
=============================================================================
