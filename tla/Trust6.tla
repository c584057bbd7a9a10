------------------------------- MODULE Trust6 -------------------------------
(***************************************************************************)
(* Statements, trusted time and quorums of v0.6: v6/trust.py.  A document  *)
(* stands for its digest; a statement is one DSSE envelope,                *)
(*   [subject, principal, role, signed, sequence, receipt, sound],         *)
(* whose `sound` stands for the checks that compare bytes: signature,      *)
(* payload and schema digests, tenant, workspace, scope, source system.    *)
(* A policy maps principals to                                             *)
(*   [public, roles, kinds, from, until, revoked, mode, compromised,       *)
(*    infrastructure, correlation], Never being the absence of a time.     *)
(***************************************************************************)
EXTENDS Integers, FiniteSets, Sequences

CONSTANTS Never, NoDocument

Pinned(policy) == DOMAIN policy.principals

validate_policy6(policy) ==
    LET P == policy.principals
        roots == {p \in DOMAIN P : "workspace_root" \in P[p].roles}
    IN /\ \A p, q \in DOMAIN P : P[p].public = P[q].public => p = q
       /\ \A p \in DOMAIN P : P[p].from < P[p].until
       /\ \A p \in DOMAIN P : P[p].compromised # Never => P[p].revoked # Never
       /\ roots = {policy.root}
       /\ policy.prior = NoDocument <=> policy.sequence = 0

\* Mutant: a retroactive revocation only reaches statements made after it.
RevokedLater(p, signed, now) ==
    /\ signed <= now
    /\ p.from <= signed /\ signed <= p.until
    /\ p.revoked # Never => signed < p.revoked

\* The key was valid when it signed, and is not known to be bad by now.
_time_status(p, signed, now) ==
    /\ signed <= now
    /\ p.from <= signed /\ signed <= p.until
    /\ p.revoked # Never =>
           IF p.mode = "prospective" THEN signed < p.revoked
           ELSE p.compromised # Never /\ signed < p.compromised

NotExpiredAtIssue(receipt) == receipt.issued_at <= receipt.valid_until

\* The time a statement is judged at: the receipt it was made for, which must be the
\* current one; without one, a receipt judges itself and the genesis policy is taken at
\* its own word.
JudgedAt(s, time) ==
    IF time # NoDocument THEN time.issued_at
    ELSE IF s.subject.kind = "trusted-time-receipt" THEN s.subject.issued_at
    ELSE s.signed

\* Mutant: a statement made for an earlier receipt still counts.
TimelyOnce(s, time) ==
    \/ time # NoDocument /\ NotExpiredAtIssue(time)
    \/ /\ time = NoDocument /\ s.subject.kind = "trusted-time-receipt"
       /\ s.subject.authority = s.principal /\ NotExpiredAtIssue(s.subject)
    \/ time = NoDocument /\ s.subject.kind = "trust-policy" /\ s.subject.sequence = 0

Timely(s, time) ==
    \/ time # NoDocument /\ s.receipt = time /\ NotExpiredAtIssue(time)
    \/ /\ time = NoDocument /\ s.subject.kind = "trusted-time-receipt"
       /\ s.subject.authority = s.principal /\ NotExpiredAtIssue(s.subject)
    \/ time = NoDocument /\ s.subject.kind = "trust-policy" /\ s.subject.sequence = 0

verify_envelope(s, policy, time) ==
    /\ validate_policy6(policy)
    /\ s.principal \in Pinned(policy)
    /\ s.sound
    /\ s.sequence <= policy.sequence
    /\ Timely(s, time)
    /\ LET p == policy.principals[s.principal]
       IN /\ s.role \in p.roles
          /\ s.subject.kind \in p.kinds
          /\ _time_status(p, s.signed, JudgedAt(s, time))

Distinct(S, f(_)) == \A s, t \in S : f(s) = f(t) => s = t

\* Exactly one counted statement for each role of the rule, by distinct principals, of
\* distinct infrastructure and correlation domains where the rule says so; what does not verify is not counted.
evaluate_quorum(type, subject, statements, policy, time) ==
    /\ type \in DOMAIN policy.rules
    /\ LET counted == {s \in statements : verify_envelope(s, policy, time)}
           P(s) == policy.principals[s.principal]
           infrastructure(s) == P(s).infrastructure
           correlation(s) == P(s).correlation
           principal(s) == s.principal
       IN /\ \A s \in counted : s.subject = subject
          /\ {s.role : s \in counted} = policy.rules[type].roles
          /\ Cardinality(counted) = Cardinality(policy.rules[type].roles)
          /\ Distinct(counted, principal)
          /\ policy.rules[type].distinct_infrastructure => Distinct(counted, infrastructure)
          /\ policy.rules[type].distinct_correlation => Distinct(counted, correlation)

\* The genesis policy is pinned out of band: its envelope, and the key of its root.
inspect_genesis(s, pinned, fingerprint) ==
    /\ s = pinned
    /\ s.subject.kind = "trust-policy" /\ s.subject.sequence = 0
    /\ s.subject.root \in Pinned(s.subject)
    /\ s.subject.principals[s.subject.root].public = fingerprint
    /\ verify_envelope(s, s.subject, NoDocument)

verify_policy_update(policy, candidate, statements, time) ==
    /\ validate_policy6(candidate)
    /\ candidate.sequence = policy.sequence + 1
    /\ candidate.prior = policy
    /\ evaluate_quorum("trust_update", candidate, statements, policy, time)

\* A receipt stands by itself, is bound to itself, and is later than the one before.
verify_trusted_time_advance(previous, s, policy) ==
    /\ s.subject.kind = "trusted-time-receipt"
    /\ verify_envelope(s, policy, NoDocument)
    /\ verify_envelope(s, policy, s.subject)
    /\ s.subject.issued_at > previous.issued_at
    /\ s.subject.nonce # previous.nonce
=============================================================================
