------------------------------- MODULE Trust5 -------------------------------
(***************************************************************************)
(* Signed statements, trust policies and role quorums of the local v0.5    *)
(* workspace (trust_v5.py).  Times are numbers.  A policy is a record      *)
(*   seq, previous, root, rules, principals : [key -> principal]           *)
(* and a principal is a record                                             *)
(*   public, roles, schemas, domains, not_before, not_after, revoked,      *)
(*   revoked_at, compromised_at                                            *)
(* where domains holds both its infrastructure and its correlation domains *)
(* and Never stands for an absent time.  Policies bind a principal_id and a*)
(* key_id to each other, so the key stands for both.  A statement is a     *)
(* record with at least                                                    *)
(*   schema, role, key, signed, sound                                      *)
(* where sound says that the header is of this version, the payload fits   *)
(* its schema and its digest, the signature is the key's, and source       *)
(* system and scope are the ones the key is registered for.                *)
(***************************************************************************)
EXTENDS Integers, FiniteSets

CONSTANTS
    Policies,   \* trust-policy documents by name; a name stands for a digest
    Never       \* a time after every other

QUORUM_ROLES ==
    [trust_update |-> {"workspace_root", "trust_auditor", "timestamp"},
     protocol_registration |-> {"protocol_author", "registration", "timestamp"},
     acceleration_compatibility |-> {"evaluator", "quality_safety_verifier", "timestamp"},
     projection_promotion |-> {"projection_authority", "projection_verifier"}]

validate_policy(policy) ==
    LET P == policy.principals
        Given(time) == time # Never
    IN /\ \A j, k \in DOMAIN P : j # k => P[j].public # P[k].public
       /\ \A k \in DOMAIN P :
              /\ P[k].revoked <=> Given(P[k].revoked_at)
              /\ Given(P[k].revoked_at) /\ Given(P[k].compromised_at)
                     => P[k].compromised_at <= P[k].revoked_at
       /\ {k \in DOMAIN P : "workspace_root" \in P[k].roles} = {policy.root}
       /\ policy.rules = QUORUM_ROLES

verify_statement(s, policy, at) ==
    /\ s.sound
    /\ s.key \in DOMAIN policy.principals
    /\ LET p == policy.principals[s.key]
       IN /\ s.role \in p.roles
          /\ s.schema \in p.schemas
          /\ p.not_before <= s.signed /\ s.signed <= at /\ at <= p.not_after
          /\ p.revoked => s.signed < p.revoked_at
          /\ s.signed < p.compromised_at

Expect(s, schema, role) == s.schema = schema /\ s.role = role

\* A receipt is judged at the time it states.
verify_time_receipt(r, policy) ==
    /\ verify_statement(r, policy, r.event_time)
    /\ Expect(r, "trusted-time-receipt", "timestamp")
    /\ r.serial >= 0

verify_genesis(name, s, fingerprint, at) ==
    LET policy == Policies[name]
    IN /\ validate_policy(policy)
       /\ policy.principals[policy.root].public = fingerprint
       /\ s.payload = name
       /\ verify_statement(s, policy, at)
       /\ Expect(s, "trust-policy", "workspace_root")
       /\ s.key = policy.root

\* No two statements come from one principal or share a domain.
Disjoint(S, policy) ==
    /\ \A s \in S : s.key \in DOMAIN policy.principals
    /\ \A s, t \in S : s # t =>
           /\ s.key # t.key
           /\ policy.principals[s.key].domains \cap policy.principals[t.key].domains = {}

\* Mutant: principals are not compared.
QuorumOfAnyone(S, policy, decision, at, subject) ==
    /\ \A s \in S : verify_statement(s, policy, at) /\ s.schema = "trust-quorum-decision"
    /\ {s.role : s \in S} = QUORUM_ROLES[decision]

verify_role_quorum(S, policy, decision, at, subject) ==
    /\ \A s \in S :
           /\ verify_statement(s, policy, at)
           /\ s.schema = "trust-quorum-decision"
           /\ s.role \in QUORUM_ROLES[decision]
           /\ s.payload = [decision |-> decision, subject |-> subject, sequence |-> policy.seq]
    /\ \A role \in QUORUM_ROLES[decision] : Cardinality({s \in S : s.role = role}) = 1
    /\ Disjoint(S, policy)
=============================================================================
