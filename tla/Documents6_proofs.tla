------------------------- MODULE Documents6_proofs --------------------------
(***************************************************************************)
(* Proofs about the loader of a v0.6 generation (Authority6), the          *)
(* assessment of a trial (Trials6) and the judgement of a coordination     *)
(* session (Coordination6).                                                *)
(***************************************************************************)
EXTENDS Authority6, Trials6, Coordination6, FiniteSetTheorems, WellFoundedInduction, TLAPS

-----------------------------------------------------------------------------
(* The loader.                                                             *)

\* There is always a time receipt: JudgedAt and Timely have a case without one, which
\* belongs to the genesis policy alone.  The history has as many events as commits, each
\* naming the one before it.
LoaderInvariant ==
    /\ time6 # NoDocument
    /\ events \in Seq([number : Nat, prior : Int, occurred_at : Int])
    /\ Len(events) > 0
    /\ \A n \in DOMAIN events : events[n].number = n /\ events[n].prior = n - 1

\* A generation always has a time receipt and a history numbered without gaps.
LEMMA LoaderInvariantHolds == AuthoritySpec => []LoaderInvariant
<1> DEFINE E == [number : Nat, prior : Int, occurred_at : Int]
<1>1. AuthorityInit => LoaderInvariant
  BY AuthorityAssumption DEF AuthorityInit, LoaderInvariant, Event
<1>2. LoaderInvariant /\ [AuthorityNext]_authority_vars => LoaderInvariant'
  <2> SUFFICES ASSUME LoaderInvariant, [AuthorityNext]_authority_vars
               PROVE  LoaderInvariant'
    OBVIOUS
  <2>1. ASSUME NEW at \in EventClock, NEW entries, Commit6(entries, at)
        PROVE  /\ events' \in Seq(E)
               /\ Len(events') > 0
               /\ \A n \in DOMAIN events' : events'[n].number = n /\ events'[n].prior = n - 1
    <3> DEFINE e == Event(Len(events) + 1, at)
    <3>1. events' = Append(events, e)
      BY <2>1 DEF Commit6
    <3>2. e \in E /\ e.number = Len(events) + 1 /\ e.prior = Len(events)
      BY AuthorityAssumption DEF Event, LoaderInvariant
    <3> QED
      BY <3>1, <3>2, SMTT(30) DEF LoaderInvariant
  <2>2. ASSUME NEW at \in EventClock, NEW x, Admit(x, at) \/ Supersede(x, at)
        PROVE  LoaderInvariant'
    BY <2>2, <2>1 DEF Admit, Supersede, LoaderInvariant
  <2>3. ASSUME NEW at \in EventClock, NEW s \in Statements(Offered), AdvanceTime6(s, at)
        PROVE  LoaderInvariant'
    BY <2>3, <2>1, AuthorityAssumption DEF AdvanceTime6, LoaderInvariant
  <2>4. ASSUME NEW at \in EventClock, NEW p, NEW S, UpdatePolicy6(p, S, at)
        PROVE  LoaderInvariant'
    BY <2>4, <2>1 DEF UpdatePolicy6, LoaderInvariant
  <2>5. CASE UNCHANGED authority_vars
    BY <2>5 DEF authority_vars, LoaderInvariant
  <2> QED
    BY <2>2, <2>3, <2>4, <2>5 DEF AuthorityNext
<1> QED
  BY <1>1, <1>2, PTL DEF AuthoritySpec

\* What a statement that stands has passed.
LEMMA StandingVerified ==
    ASSUME NEW s \in Standing \cup UNION {q.statements : q \in Derived}
    PROVE  /\ s \in Verified
           /\ s # PinnedGenesis => verify_envelope(s, policy6, time6)
<1>1. s \in Verified
  BY DEF Standing, Derived, DecidedStatements, BoundStatements
<1> QED
  BY <1>1 DEF Verified, inspect_genesis

\* Nothing signed for an earlier time receipt is authoritative (the stages of
\* load_authoritative_generation, with verify_envelope and _time_status of trust.py).
THEOREM AuthorityStaysCurrent == AuthoritySpec => []AuthorityIsCurrent
<1>1. LoaderInvariant => AuthorityIsCurrent
  <2> SUFFICES ASSUME LoaderInvariant, NEW s \in Standing, s # PinnedGenesis
               PROVE  s.receipt = time6 /\ s.signed <= time6.issued_at
    BY DEF AuthorityIsCurrent
  <2>1. verify_envelope(s, policy6, time6)
    BY StandingVerified
  <2> QED
    BY <2>1 DEF LoaderInvariant, verify_envelope, Timely, JudgedAt, _time_status
<1> QED
  BY <1>1, LoaderInvariantHolds, PTL

\* A statement of a stolen key counts for nothing once the policy in force says when it
\* was stolen (_time_status of trust.py, on every statement and every decision).
THEOREM CompromisedDoesNotCount == AuthoritySpec => []CompromisedNeverCounts
<1>1. CompromisedNeverCounts
  <2> SUFFICES ASSUME NEW s \in Standing \cup UNION {q.statements : q \in Derived},
                      s # PinnedGenesis,
                      policy6.principals[s.principal].compromised # Never,
                      policy6.principals[s.principal].mode = "retroactive"
               PROVE  s.signed < policy6.principals[s.principal].compromised
    BY DEF CompromisedNeverCounts
  <2> DEFINE p == policy6.principals[s.principal]
  <2>1. verify_envelope(s, policy6, time6)
    BY StandingVerified
  <2>2. p.revoked # Never
    BY <2>1 DEF verify_envelope, validate_policy6, Pinned
  <2> QED
    BY <2>1, <2>2 DEF verify_envelope, _time_status
<1> QED
  BY <1>1, PTL

\* An object nobody signed is authoritative only as a projection two principals vouched
\* for and the runner reported (the promotion stage of load_authoritative_generation).
THEOREM PromotionTakesTwo == AuthoritySpec => []PromotedByTwo
<1>1. PromotedByTwo
  <2> SUFFICES ASSUME NEW x \in Promoted
               PROVE  \E s, t, r \in Standing :
                   /\ Pending(s.subject) /\ s.subject = t.subject /\ s.subject.projected = x
                   /\ s.principal # t.principal
                   /\ s.role = "projection_authority" /\ t.role = "projection_verifier"
                   /\ r.subject = s.subject.runner_receipt /\ r.principal = r.subject.author
                   /\ s.subject.raw \in Stored
    BY DEF PromotedByTwo
  <2>1. PICK u \in Standing : Pending(u.subject) /\ u.subject.projected = x
    BY DEF Promoted
  <2> DEFINE d == u.subject
  <2>2. Promotable(d)
    BY <2>1 DEF Standing
  <2>3. \A s \in StatementsOf(DecidedStatements, d) : s \in Standing /\ s.subject = d
    BY <2>2 DEF StatementsOf, Standing
  <2> DEFINE standing == StatementsOf(DecidedStatements, d)
             producers == {s \in standing : s.role = "projection_authority" /\ s.principal = d.author}
             verifiers == {s \in standing : s.role = "projection_verifier" /\ s.principal # d.author}
  <2>4. Cardinality(producers) = 1 /\ Cardinality(verifiers) = 1
    BY <2>2, Zenon DEF Promotable
  <2>5. PICK s \in producers, t \in verifiers : TRUE
    <3>1. producers # {} /\ verifiers # {}
      <4> HIDE DEF producers, verifiers
      <4> QED
        BY <2>4, FS_EmptySet
    <3> QED
      BY <3>1
  <2>6. PICK r \in StatementsOf(DecidedStatements, d.runner_receipt) :
            r.subject.kind = "runner-receipt" /\ r.principal = r.subject.author
    BY <2>2 DEF Promotable
  <2>7. r \in Standing /\ r.subject = d.runner_receipt
    BY <2>6 DEF StatementsOf, Standing, Pending
  <2>8. d.raw \in Stored
    BY <2>2 DEF Promotable
  <2> QED
    BY <2>1, <2>3, <2>5, <2>6, <2>7, <2>8
<1> QED
  BY <1>1, PTL

-----------------------------------------------------------------------------
(* Sorting by counting: the elements that come before one give its place.  *)

Before6(S, order, x) == {y \in S : <<y, x>> \in order}
RankIn(S, order, x) == Cardinality(Before6(S, order, x))

TotallyOrders(order, S) ==
    /\ \A x \in S : <<x, x>> \in order
    /\ \A x, y \in S : <<x, y>> \in order \/ <<y, x>> \in order
    /\ \A x, y \in S : <<x, y>> \in order /\ <<y, x>> \in order => x = y
    /\ \A x, y, z \in S : <<x, y>> \in order /\ <<y, z>> \in order => <<x, z>> \in order

\* The rank of an element of a finite totally ordered set is one of its positions.
LEMMA RankType ==
    ASSUME NEW S, IsFiniteSet(S), NEW order, TotallyOrders(order, S), NEW x \in S
    PROVE  RankIn(S, order, x) \in 1 .. Cardinality(S)
<1>1. Before6(S, order, x) \subseteq S /\ x \in Before6(S, order, x)
  BY DEF Before6, TotallyOrders
<1> HIDE DEF Before6
<1>2. /\ Cardinality(S) \in Nat
      /\ IsFiniteSet(Before6(S, order, x))
      /\ RankIn(S, order, x) <= Cardinality(S)
  BY <1>1, FS_Subset, FS_CardinalityType DEF RankIn
<1>3. RankIn(S, order, x) \in Nat /\ RankIn(S, order, x) # 0
  BY <1>1, <1>2, FS_CardinalityType, FS_EmptySet DEF RankIn
<1> QED
  BY <1>2, <1>3

\* A later element has the greater rank.
LEMMA RankGrows ==
    ASSUME NEW S, IsFiniteSet(S), NEW order, TotallyOrders(order, S),
           NEW x \in S, NEW y \in S, x # y, <<x, y>> \in order
    PROVE  RankIn(S, order, x) < RankIn(S, order, y)
<1> DEFINE X == Before6(S, order, x)
           Y == Before6(S, order, y)
<1>1. X \subseteq Y /\ Y \subseteq S /\ y \in Y /\ y \notin X
  BY DEF Before6, TotallyOrders
<1> HIDE DEF X, Y
<1>2. IsFiniteSet(Y)
  BY <1>1, FS_Subset
<1>3. IsFiniteSet(X) /\ Cardinality(X) <= Cardinality(Y) /\ Cardinality(X) # Cardinality(Y)
  BY <1>1, <1>2, FS_Subset
<1>4. Cardinality(X) \in Nat /\ Cardinality(Y) \in Nat
  BY <1>2, <1>3, FS_CardinalityType
<1> QED
  BY <1>3, <1>4 DEF X, Y, RankIn

\* Every place is taken.
LEMMA RanksFill ==
    ASSUME NEW S, IsFiniteSet(S), NEW order, TotallyOrders(order, S),
           NEW n \in 1 .. Cardinality(S)
    PROVE  \E x \in S : RankIn(S, order, x) = n
<1> DEFINE N == 1 .. Cardinality(S)
           f == [x \in S |-> RankIn(S, order, x)]
<1>1. Cardinality(S) \in Nat
  BY FS_CardinalityType
<1>2. IsFiniteSet(N) /\ Cardinality(N) = Cardinality(S)
  BY <1>1, FS_Interval
<1>3. f \in [S -> N]
  BY RankType
<1>4. \A x, y \in S : f[x] = f[y] => x = y
  <2> SUFFICES ASSUME NEW x \in S, NEW y \in S, x # y
               PROVE  RankIn(S, order, x) # RankIn(S, order, y)
    OBVIOUS
  <2>1. RankIn(S, order, x) \in Int /\ RankIn(S, order, y) \in Int
    BY <1>1, RankType
  <2>2. <<x, y>> \in order \/ <<y, x>> \in order
    BY DEF TotallyOrders
  <2> QED
    BY <2>1, <2>2, RankGrows
<1>5. f \in Injection(S, N)
  BY <1>3, <1>4 DEF Injection, IsInjective
<1>6. f \in Surjection(S, N)
  <2> HIDE DEF f, N
  <2> QED
    BY <1>2, <1>5, FS_Injection
<1> QED
  BY <1>6 DEF Surjection

-----------------------------------------------------------------------------
(* The history.                                                            *)

EventBefore(i, j) ==
    \/ events[i].occurred_at < events[j].occurred_at
    \/ events[i].occurred_at = events[j].occurred_at /\ i <= j

EventOrder == {x \in (DOMAIN events) \X (DOMAIN events) : EventBefore(x[1], x[2])}

EventRank(j) == RankIn(DOMAIN events, EventOrder, j)

\* The event the sort puts at place n.
EventAt(n) == CHOOSE j \in DOMAIN events : EventRank(j) = n

\* The events of a history are totally ordered by their clocks, ties by their places.
LEMMA EventsOrdered ==
    ASSUME LoaderInvariant
    PROVE  /\ Len(events) \in Nat /\ DOMAIN events = 1 .. Len(events)
           /\ IsFiniteSet(DOMAIN events) /\ Cardinality(DOMAIN events) = Len(events)
           /\ \A j \in DOMAIN events : events[j].occurred_at \in Int
           /\ \A i, j \in DOMAIN events : <<i, j>> \in EventOrder <=> EventBefore(i, j)
           /\ TotallyOrders(EventOrder, DOMAIN events)
<1> DEFINE D == DOMAIN events
<1>1. Len(events) \in Nat /\ D = 1 .. Len(events)
  BY DEF LoaderInvariant
<1>2. IsFiniteSet(D) /\ Cardinality(D) = Len(events)
  <2> DEFINE L == Len(events)
  <2> HIDE DEF L
  <2>1. L \in Nat => IsFiniteSet(1 .. L) /\ Cardinality(1 .. L) = L
    BY FS_Interval
  <2> QED
    BY <1>1, <2>1 DEF L
<1>3. \A j \in D : events[j].occurred_at \in Int
  <2> DEFINE E == [number : Nat, prior : Int, occurred_at : Int]
  <2>1. events \in Seq(E)
    BY DEF LoaderInvariant
  <2> HIDE DEF E
  <2>2. \A j \in D : events[j] \in E
    BY <1>1, <2>1
  <2> QED
    BY <2>2 DEF E
<1>4. \A i, j \in D : <<i, j>> \in EventOrder <=> EventBefore(i, j)
  BY DEF EventOrder
<1>5. TotallyOrders(EventOrder, D)
  BY <1>1, <1>3, <1>4 DEF TotallyOrders, EventBefore
<1> QED
  BY <1>1, <1>2, <1>3, <1>4, <1>5

\* Sorting (storage.py) puts at place n the event of rank n.
LEMMA SortedIsByRank ==
    ASSUME LoaderInvariant
    PROVE  /\ Sorted(events) = [n \in DOMAIN events |-> events[EventAt(n)]]
           /\ \A n \in DOMAIN events :
                  EventAt(n) \in DOMAIN events /\ EventRank(EventAt(n)) = n
           /\ Sorted(events) \in Seq([number : Nat, prior : Int, occurred_at : Int])
           /\ Len(Sorted(events)) = Len(events)
<1> DEFINE D == DOMAIN events
           R(j) == Cardinality({i \in D :
                       \/ events[i].occurred_at < events[j].occurred_at
                       \/ events[i].occurred_at = events[j].occurred_at /\ i <= j})
<1>1. \A j \in D : EventRank(j) = R(j)
  <2> SUFFICES ASSUME NEW j \in D PROVE EventRank(j) = R(j)
    OBVIOUS
  <2>1. Before6(D, EventOrder, j) =
            {i \in D : \/ events[i].occurred_at < events[j].occurred_at
                       \/ events[i].occurred_at = events[j].occurred_at /\ i <= j}
    BY EventsOrdered DEF Before6, EventBefore
  <2> QED
    BY <2>1 DEF EventRank, RankIn
<1>2. \A n : (CHOOSE j \in D : R(j) = n) = EventAt(n)
  <2> HIDE DEF R
  <2> SUFFICES ASSUME NEW n PROVE (CHOOSE j \in D : R(j) = n) = EventAt(n)
    OBVIOUS
  <2>1. \A j : (j \in D /\ R(j) = n) <=> (j \in D /\ EventRank(j) = n)
    BY <1>1
  <2> QED
    BY <2>1, Zenon DEF EventAt
<1>3. Sorted(events) = [n \in D |-> events[CHOOSE j \in D : R(j) = n]]
  BY Zenon DEF Sorted
<1>4. Sorted(events) = [n \in D |-> events[EventAt(n)]]
  <2> HIDE DEF R
  <2> QED
    BY <1>2, <1>3, Zenon
<1>5. \A n \in D : EventAt(n) \in D /\ EventRank(EventAt(n)) = n
  <2> SUFFICES ASSUME NEW n \in D PROVE EventAt(n) \in D /\ EventRank(EventAt(n)) = n
    OBVIOUS
  <2>1. \E j \in D : EventRank(j) = n
    BY EventsOrdered, RanksFill DEF EventRank
  <2> QED
    BY <2>1, Zenon DEF EventAt
<1>6. /\ Sorted(events) \in [1 .. Len(events) -> [number : Nat, prior : Int, occurred_at : Int]]
      /\ Len(events) \in Nat
  <2> DEFINE E == [number : Nat, prior : Int, occurred_at : Int]
  <2>1. events \in Seq(E)
    BY DEF LoaderInvariant
  <2> HIDE DEF E
  <2>2. D = 1 .. Len(events) /\ Len(events) \in Nat
    BY EventsOrdered
  <2>3. \A n \in D : events[EventAt(n)] \in E
    BY <1>5, <2>1, <2>2
  <2>4. Sorted(events) \in [1 .. Len(events) -> E]
    BY <1>4, <2>2, <2>3
  <2> QED
    BY <2>2, <2>4 DEF E
<1> QED
  BY <1>4, <1>5, <1>6

\* The numbers of the sorted history chain only when the sort moved nothing.
LEMMA ChainedIsUnmoved ==
    ASSUME LoaderInvariant, HistoryAccepted
    PROVE  \A n \in DOMAIN events : EventAt(n) = n
<1> DEFINE D == DOMAIN events
           T == {n \in D : EventAt(n) # n}
<1>1. D = 1 .. Len(events) /\ Len(events) \in Nat /\ Len(events) > 0
  BY EventsOrdered DEF LoaderInvariant
<1>2. \A n \in D : /\ EventAt(n) \in D
                   /\ Sorted(events)[n] = events[EventAt(n)]
                   /\ Sorted(events)[n].number = EventAt(n)
                   /\ Sorted(events)[n].prior = EventAt(n) - 1
  BY SortedIsByRank DEF LoaderInvariant
<1>3. \A n \in D : EventAt(n) - 1 = IF n = 1 THEN 0 ELSE EventAt(n - 1)
  <2> SUFFICES ASSUME NEW n \in D
               PROVE  EventAt(n) - 1 = IF n = 1 THEN 0 ELSE EventAt(n - 1)
    OBVIOUS
  <2>1. n \in DOMAIN Sorted(events)
    BY SortedIsByRank
  <2>2. Sorted(events)[n].prior = IF n = 1 THEN 0 ELSE Sorted(events)[n - 1].number
    BY <2>1 DEF HistoryAccepted, validate_history
  <2>3. n # 1 => n - 1 \in D
    BY <1>1
  <2> QED
    BY <1>2, <2>2, <2>3
<1>4. SUFFICES ASSUME T # {} PROVE FALSE
  OBVIOUS
<1>5. PICK m \in T : \A k \in T : ~(<<k, m>> \in OpToRel(<, Nat))
  <2>1. T \subseteq Nat
    BY <1>1
  <2> HIDE DEF T
  <2> QED
    BY <1>4, <2>1, NatLessThanWellFounded, WFMin
<1>6. \A k \in T : ~(k < m)
  <2> SUFFICES ASSUME NEW k \in T, k < m PROVE FALSE
    OBVIOUS
  <2>1. k \in Nat /\ m \in Nat
    BY <1>1
  <2> HIDE DEF T
  <2>2. <<k, m>> \in OpToRel(<, Nat)
    BY <2>1 DEF OpToRel
  <2> QED
    BY <1>5, <2>2
<1>7. CASE m = 1
  BY <1>1, <1>2, <1>3, <1>7
<1>8. CASE m # 1
  <2>1. m - 1 \in D /\ m - 1 < m
    BY <1>1, <1>8
  <2>2. EventAt(m - 1) = m - 1
    BY <1>6, <2>1
  <2> QED
    BY <1>1, <1>2, <1>3, <1>8, <2>1, <2>2
<1> QED
  BY <1>7, <1>8

\* The history is accepted exactly as long as the stamps follow the order of the commits
\* (the history check of storage.py, which sorts by the events' own times).
THEOREM HistoryIsByClock == AuthoritySpec => []HistoryFollowsClock
<1> DEFINE D == DOMAIN events
           Monotone == \A i, j \in D : i < j => events[i].occurred_at <= events[j].occurred_at
<1>1. LoaderInvariant => HistoryFollowsClock
  <2> SUFFICES ASSUME LoaderInvariant PROVE HistoryAccepted <=> Monotone
    BY DEF HistoryFollowsClock
  <2>0. /\ D = 1 .. Len(events) /\ Len(events) \in Nat /\ Len(events) > 0
        /\ IsFiniteSet(D) /\ TotallyOrders(EventOrder, D)
        /\ \A j \in D : events[j].occurred_at \in Int
    BY EventsOrdered DEF LoaderInvariant
  <2>1. ASSUME HistoryAccepted, NEW i \in D, NEW j \in D, i < j
        PROVE  events[i].occurred_at <= events[j].occurred_at
    <3>1. EventRank(i) = i /\ EventRank(j) = j
      BY <2>1, ChainedIsUnmoved, SortedIsByRank
    <3>2. SUFFICES ASSUME events[i].occurred_at > events[j].occurred_at PROVE FALSE
      BY <2>0
    <3>3. <<j, i>> \in EventOrder /\ i # j
      BY <2>0, <2>1, <3>2, EventsOrdered DEF EventBefore
    <3>4. EventRank(j) < EventRank(i)
      BY <2>0, <3>3, RankGrows DEF EventRank
    <3> QED
      BY <2>0, <2>1, <3>1, <3>4
  <2>2. ASSUME Monotone PROVE HistoryAccepted
    <3>1. ASSUME NEW n \in D PROVE EventRank(n) = n
      <4>1. Before6(D, EventOrder, n) = 1 .. n
        <5>1. \A i \in D : EventBefore(i, n) <=> i <= n
          BY <2>0, <2>2, <3>1 DEF EventBefore
        <5> QED
          BY <2>0, <3>1, <5>1, EventsOrdered DEF Before6
      <4>2. n \in Nat
        BY <2>0, <3>1
      <4> QED
        BY <4>1, <4>2, FS_Interval DEF EventRank, RankIn
    <3>2. \A n \in D : EventAt(n) = n
      BY <3>1, SortedIsByRank
    <3>3. \A n \in D : /\ Sorted(events)[n].number = n
                       /\ Sorted(events)[n].prior = n - 1
      BY <3>2, SortedIsByRank DEF LoaderInvariant
    <3>4. DOMAIN Sorted(events) = D /\ Len(Sorted(events)) = Len(events)
      BY SortedIsByRank
    <3>5. \A n \in D : n # 1 => n - 1 \in D
      BY <2>0
    <3> QED
      BY <2>0, <3>3, <3>4, <3>5 DEF HistoryAccepted, validate_history
  <2> QED
    BY <2>1, <2>2
<1> QED
  BY <1>1, LoaderInvariantHolds, PTL

-----------------------------------------------------------------------------
(* Trials.                                                                 *)

\* The documents are finitely many, and valid each by itself.
TrialInvariant == trial_objects \subseteq TrialDocument /\ IsFiniteSet(trial_objects)

\* The documents of a trial stay finitely many, and valid each by itself.
LEMMA TrialInvariantHolds == TrialSpec => []TrialInvariant
<1>1. TrialInit => TrialInvariant
  BY FS_EmptySet DEF TrialInit, TrialInvariant
<1>2. TrialInvariant /\ [TrialNext]_trial_objects => TrialInvariant'
  BY FS_AddElement DEF TrialInvariant, TrialNext, AdmitDocument
<1> QED
  BY <1>1, <1>2, PTL DEF TrialSpec

\* A set of one element has no two.
LEMMA OneOnly ==
    ASSUME NEW S, IsFiniteSet(S), Cardinality(S) = 1
    PROVE  \E x \in S : \A y \in S : y = x
<1>1. PICK x : S = {x}
  BY FS_Singleton
<1> QED
  BY <1>1

AmendmentOrder ==
    {x \in Amendments6(trial_objects) \X Amendments6(trial_objects) :
        \/ x[1].sequence < x[2].sequence
        \/ x[1].sequence = x[2].sequence /\ x[1].id <= x[2].id}

\* The amendments of a trial are totally ordered, and a place is a rank.
LEMMA AmendmentsOrdered ==
    ASSUME TrialInvariant
    PROVE  LET A == Amendments6(trial_objects)
           IN /\ IsFiniteSet(A)
              /\ TotallyOrders(AmendmentOrder, A)
              /\ \A a \in A : Place(trial_objects, a) = RankIn(A, AmendmentOrder, a)
<1> DEFINE A == Amendments6(trial_objects)
<1>1. IsFiniteSet(A)
  BY FS_Subset DEF TrialInvariant, Amendments6, OfKind
<1>2. \A a \in A : a \in TrialDocument /\ a.kind = "protocol-amendment"
  BY DEF TrialInvariant, Amendments6, OfKind
<1>3. \A a \in A : a.sequence \in Nat /\ a.id \in Nat
  BY <1>2, TrialAssumption
<1>4. \A a, b \in A : a.id = b.id => a = b
  BY <1>2, TrialAssumption
<1> HIDE DEF A
<1>5. \A a, b \in A : <<a, b>> \in AmendmentOrder <=>
          a.sequence < b.sequence \/ (a.sequence = b.sequence /\ a.id <= b.id)
  <2>1. AmendmentOrder = {x \in A \X A :
            \/ x[1].sequence < x[2].sequence
            \/ x[1].sequence = x[2].sequence /\ x[1].id <= x[2].id}
    BY DEF AmendmentOrder, A
  <2> SUFFICES ASSUME NEW a \in A, NEW b \in A
               PROVE  <<a, b>> \in AmendmentOrder <=>
                   a.sequence < b.sequence \/ (a.sequence = b.sequence /\ a.id <= b.id)
    OBVIOUS
  <2> DEFINE x == <<a, b>>
  <2>2. x \in A \X A /\ x[1] = a /\ x[2] = b
    OBVIOUS
  <2> HIDE DEF x
  <2>3. x \in AmendmentOrder <=>
            a.sequence < b.sequence \/ (a.sequence = b.sequence /\ a.id <= b.id)
    BY <2>1, <2>2
  <2> QED
    BY <2>3 DEF x
<1>6. TotallyOrders(AmendmentOrder, A)
  <2>1. \A x \in A : <<x, x>> \in AmendmentOrder
    BY <1>3, <1>5
  <2>2. ASSUME NEW x \in A, NEW y \in A
        PROVE  <<x, y>> \in AmendmentOrder \/ <<y, x>> \in AmendmentOrder
    <3>1. x.sequence \in Nat /\ x.id \in Nat /\ y.sequence \in Nat /\ y.id \in Nat
      BY <1>3
    <3> QED
      BY <1>5, <3>1
  <2>3. \A x, y \in A :
            <<x, y>> \in AmendmentOrder /\ <<y, x>> \in AmendmentOrder => x = y
    BY <1>3, <1>4, <1>5
  <2>4. \A x, y, z \in A :
            <<x, y>> \in AmendmentOrder /\ <<y, z>> \in AmendmentOrder
                => <<x, z>> \in AmendmentOrder
    BY <1>3, <1>5
  <2> QED
    BY <2>1, <2>2, <2>3, <2>4 DEF TotallyOrders
<1>7. ASSUME NEW a \in A
      PROVE  Place(trial_objects, a) = RankIn(A, AmendmentOrder, a)
  <2>1. Before6(A, AmendmentOrder, a) =
            {b \in A : \/ b.sequence < a.sequence
                       \/ b.sequence = a.sequence /\ b.id <= a.id}
    <3>1. \A b \in A : <<b, a>> \in AmendmentOrder <=>
              b.sequence < a.sequence \/ (b.sequence = a.sequence /\ b.id <= a.id)
      BY <1>5
    <3> QED
      BY <3>1, Zenon DEF Before6
  <2> QED
    BY <2>1 DEF Place, RankIn, A
<1> QED
  BY <1>1, <1>6, <1>7 DEF A

\* An untangled chain has a predecessor for every amendment but the first.
LEMMA AmendmentsChained ==
    ASSUME TrialInvariant, ~AmendmentsTangled(trial_objects),
           NEW a \in Amendments6(trial_objects), a.sequence > 1
    PROVE  \E b \in Amendments6(trial_objects) : b.id = a.prior /\ b.sequence = a.sequence - 1
<1> DEFINE A == Amendments6(trial_objects)
           B == Before(trial_objects, a)
           n == Place(trial_objects, a)
<1>1. \A b \in A : b.sequence = Place(trial_objects, b)
  BY DEF AmendmentsTangled
<1>2. a.prior = (IF n = 1 THEN 0 ELSE (CHOOSE b \in B : TRUE).id)
  BY DEF AmendmentsTangled
<1>3. IsFiniteSet(A) /\ Cardinality(A) \in Nat
  BY AmendmentsOrdered, FS_CardinalityType
<1>4. n \in 1 .. Cardinality(A) /\ n > 1
  BY <1>1, <1>3, AmendmentsOrdered, RankType
<1>5. n - 1 \in 1 .. Cardinality(A)
  BY <1>3, <1>4
<1>6. PICK b \in A : RankIn(A, AmendmentOrder, b) = n - 1
  <2> HIDE DEF A, n
  <2> QED
    BY <1>5, AmendmentsOrdered, RanksFill DEF A
<1>7. b \in B
  BY <1>6, AmendmentsOrdered DEF Before
<1>8. PICK c : c = (CHOOSE x \in B : TRUE)
  OBVIOUS
<1>9. c \in B
  BY <1>7, <1>8, Zenon
<1>10. c \in A /\ c.sequence = n - 1 /\ c.id = a.prior
  BY <1>1, <1>2, <1>4, <1>8, <1>9 DEF Before
<1> QED
  BY <1>1, <1>10

\* A favourable assessment rests on what was fixed before the trial began (assess_trial of
\* v6/trials.py).
THEOREM CompatibleIsRegistered == TrialSpec => []CompatibleWasRegistered
<1> DEFINE O == trial_objects
<1>1. TrialInvariant => CompatibleWasRegistered
  <2> SUFFICES ASSUME TrialInvariant, assess_trial(O) \in DOMAIN TIER_ORDER \ {"unmeasured"}
               PROVE  CompatibleWasRegistered
    BY DEF CompatibleWasRegistered
  <2>1. Results6(O) # {} /\ ~Contradicted(O) /\ ~Blocked(O)
    BY DEF assess_trial, TIER_ORDER
  <2>2. \A S : S \subseteq O => IsFiniteSet(S)
    BY FS_Subset DEF TrialInvariant
  <2>3. \E d \in O :
            /\ d.kind = "quorum-decision" /\ d.type = "protocol_registration"
            /\ d.subject = Trial6.id /\ d.decided_at < Trial6.time_zero
            /\ \A e \in O :
                   e.kind = "quorum-decision" /\ e.type = d.type /\ e.subject = d.subject => e = d
    <3>1. Registrations(O) \subseteq O /\ Cardinality(Registrations(O)) = 1
      BY <2>1 DEF Blocked, Registrations, _decisions, OfKind
    <3>2. PICK d \in Registrations(O) : \A e \in Registrations(O) : e = d
      BY <2>2, <3>1, OneOnly
    <3>3. ~(d.decided_at >= Trial6.time_zero)
      BY <2>1, <3>1 DEF Contradicted, Deviation, RegisteredLate
    <3>4. d \in O /\ d.kind = "quorum-decision" /\ d.type = "protocol_registration" /\ d.subject = Trial6.id
      BY DEF Registrations, _decisions, OfKind
    <3>5. d.decided_at < Trial6.time_zero
      BY <3>3, <3>4, TrialAssumption DEF TrialInvariant
    <3> QED
      BY <3>2, <3>4, <3>5 DEF Registrations, _decisions, OfKind
  <2>4. \E r \in O :
            /\ r.kind = "trial-result" /\ r.protocol = Trial6.id /\ r.name = Trial6.primary
            /\ r.evaluator = Trial6.evaluator /\ r.records = Trial6.records
            /\ \A s \in O : s.kind = "trial-result" /\ s.protocol = Trial6.id => s = r
            /\ \A o \in DOMAIN Trial6.outcomes : r.effects[o].quality >= Trial6.outcomes[o].floor
            /\ \E d \in O :
                   d.kind = "quorum-decision" /\ d.subject = r.id /\ d.decided_at >= r.issued_at
    <3>1. Primary(O) = Results6(O) /\ ~(Cardinality(Primary(O)) > 1) /\ Results6(O) \subseteq O
      BY <2>1 DEF Contradicted, Deviation, Results6, OfKind
    <3>2. Cardinality(Results6(O)) = 1
      <4>1. Cardinality(Results6(O)) \in Nat /\ Cardinality(Results6(O)) # 0
        BY <2>1, <2>2, <3>1, FS_CardinalityType, FS_EmptySet
      <4> QED
        BY <3>1, <4>1
    <3>3. PICK r \in Results6(O) : \A s \in Results6(O) : s = r
      BY <2>2, <3>1, <3>2, OneOnly
    <3>4. /\ r \in O /\ r.kind = "trial-result" /\ r.protocol = Trial6.id
          /\ r.name = Trial6.primary
      BY <3>1 DEF Results6, Primary, OfKind
    <3>5. ~ResultBlocked(O, r) /\ ~ResultDeviates(O, r) /\ ~BelowFloor(r)
      BY <2>1 DEF Blocked, Contradicted, Deviation
    <3>6. \A o \in DOMAIN Trial6.outcomes : r.effects[o].quality >= Trial6.outcomes[o].floor
      <4> SUFFICES ASSUME NEW o \in Outcomes
                   PROVE  r.effects[o].quality >= Trial6.outcomes[o].floor
        BY DEF Outcomes
      <4>1. o \in DOMAIN r.effects
        BY <3>5 DEF ResultDeviates
      <4>2. ~(r.effects[o].quality < Trial6.outcomes[o].floor)
        BY <3>5, <4>1 DEF BelowFloor
      <4>3. r.effects[o].quality \in Int /\ Trial6.outcomes[o].floor \in Int
        BY <3>4, <4>1, TrialAssumption DEF TrialInvariant
      <4> QED
        BY <4>2, <4>3
    <3>7. \E d \in O :
              d.kind = "quorum-decision" /\ d.subject = r.id /\ d.decided_at >= r.issued_at
      <4> DEFINE D == _decisions(O, "acceleration_compatibility", r.id)
      <4>1. D \subseteq O /\ Cardinality(D) = 1
        BY <3>5 DEF ResultBlocked, _decisions, OfKind
      <4>2. PICK d \in D : TRUE
        BY <2>2, <4>1, OneOnly
      <4>3. ~(d.decided_at < r.issued_at)
        BY <3>5, <4>1 DEF ResultDeviates
      <4>4. d \in O /\ d.kind = "quorum-decision" /\ d.subject = r.id
        BY DEF _decisions, OfKind
      <4>5. d.decided_at \in Int /\ r.issued_at \in Int
        BY <3>4, <4>4, TrialAssumption DEF TrialInvariant
      <4> QED
        BY <4>3, <4>4, <4>5
    <3>8. r.evaluator = Trial6.evaluator /\ r.records = Trial6.records
      BY <3>5 DEF ResultBlocked
    <3> QED
      BY <3>3, <3>4, <3>6, <3>7, <3>8 DEF Results6, OfKind
  <2>5. ASSUME NEW a \in O, a.kind = "protocol-amendment", a.protocol = Trial6.id
        PROVE  /\ a.amended_at < Trial6.time_zero
               /\ a.sequence > 1 => \E b \in O :
                      b.kind = "protocol-amendment" /\ b.id = a.prior /\ b.sequence = a.sequence - 1
    <3>1. a \in Amendments6(O)
      BY <2>5 DEF Amendments6, OfKind
    <3>2. ~(a.amended_at >= Trial6.time_zero)
      BY <2>1, <3>1 DEF Contradicted, Deviation, AmendedLate
    <3>3. a.amended_at < Trial6.time_zero
      BY <2>5, <3>2, TrialAssumption DEF TrialInvariant
    <3>4. ~AmendmentsTangled(O)
      BY <2>1 DEF Contradicted
    <3>5. Amendments6(O) \subseteq OfKind(O, "protocol-amendment")
      BY DEF Amendments6
    <3> QED
      BY <3>1, <3>3, <3>4, <3>5, AmendmentsChained DEF OfKind
  <2> QED
    BY <2>3, <2>4, <2>5 DEF CompatibleWasRegistered
<1> QED
  BY <1>1, TrialInvariantHolds, PTL

-----------------------------------------------------------------------------
(* Induction over numbers.                                                 *)

\* A set of numbers that is not empty has a least one.
LEMMA LeastNumber ==
    ASSUME NEW T \in SUBSET Nat, T # {}
    PROVE  \E x \in T : \A y \in T : x <= y
<1> DEFINE R == OpToRel(<, Nat)
<1>1. IsWellFoundedOn(R, Nat)
  BY NatLessThanWellFounded
<1>2. \A x, y \in Nat : y < x => <<y, x>> \in R
  BY DEF OpToRel
<1> HIDE DEF R
<1>3. PICK x \in T : \A y \in T : ~(<<y, x>> \in R)
  BY <1>1, WFMin
<1>4. \A y \in T : x \in Nat /\ y \in Nat /\ ~(y < x)
  BY <1>2, <1>3
<1>5. \A y \in T : x <= y
  BY <1>4
<1> QED
  BY <1>5

\* What holds of 0, and of a number when it holds of the one before, holds up to the bound.
LEMMA UpTo ==
    ASSUME NEW N \in Nat, NEW S, 0 \in S,
           \A n \in 0 .. N : n > 0 /\ n - 1 \in S => n \in S
    PROVE  \A n \in 0 .. N : n \in S
<1> SUFFICES ASSUME NEW b \in (0 .. N) \ S
             PROVE  FALSE
  OBVIOUS
<1> DEFINE T == (0 .. N) \ S
<1>1. T \in SUBSET Nat /\ T # {}
  OBVIOUS
<1> HIDE DEF T
<1>2. PICK x \in T : \A y \in T : x <= y
  BY <1>1, LeastNumber
<1> QED
  BY <1>2 DEF T

-----------------------------------------------------------------------------
(* The chain of a coordination session: a walk that gathers every event    *)
(* visits them in the order they were admitted.                            *)

\* The prefixes of the chain, one event at a time.
Prefixes(log, path) ==
    path = [n \in 0 .. Len(log) |-> IF n = 0 THEN <<>> ELSE Follow(log, path[n - 1])]

\* The walk along the chain is what its loop computes.
LEMMA ChainUnfolds ==
    ASSUME NEW log, Len(log) \in Nat
    PROVE  \E path : Prefixes(log, path) /\ _ordered_events(log) = path[Len(log)]
<1> DEFINE N == Len(log)
           Upto(m, f) == f = [n \in 0 .. m |-> IF n = 0 THEN <<>> ELSE Follow(log, f[n - 1])]
           S == {m \in 0 .. N : \E f : Upto(m, f)}
<1>0. N \in Nat
  OBVIOUS
<1>1. 0 \in S
  <2> DEFINE f == [n \in 0 .. 0 |-> <<>>]
  <2>1. f = [n \in 0 .. 0 |-> IF n = 0 THEN <<>> ELSE Follow(log, f[n - 1])]
    OBVIOUS
  <2> HIDE DEF f
  <2>2. Upto(0, f)
    BY <2>1
  <2> QED
    BY <2>2
<1>2. ASSUME NEW m \in 0 .. N, m > 0, m - 1 \in S
      PROVE  m \in S
  <2>1. PICK f : Upto(m - 1, f)
    BY <1>2
  <2> DEFINE g == [n \in 0 .. m |-> IF n = m THEN Follow(log, f[m - 1]) ELSE f[n]]
  <2>2. \A n \in 0 .. m : g[n] = IF n = 0 THEN <<>> ELSE Follow(log, g[n - 1])
    BY <1>2, <2>1
  <2>3. Upto(m, g)
    BY <2>2
  <2> QED
    BY <2>3
<1>3. N \in S
  <2> HIDE DEF S, N
  <2>1. \A m \in 0 .. N : m > 0 /\ m - 1 \in S => m \in S
    BY <1>2
  <2>2. \A m \in 0 .. N : m \in S
    BY <1>0, <1>1, <2>1, UpTo
  <2> QED
    BY <1>0, <2>2
<1>4. \E path : Prefixes(log, path)
  BY <1>3 DEF Prefixes
<1>5. Prefixes(log, CHOOSE path : Prefixes(log, path))
  BY <1>4
<1> QED
  BY <1>5 DEF Prefixes, _ordered_events

\* What the walk has gathered: events of the log, one after the other.
Gathered(path, N, n) ==
    /\ path \in Seq(1 .. N) /\ Len(path) <= n
    /\ \A i \in 1 .. Len(path) : i > 1 => path[i - 1] < path[i]

\* Every event names one that was admitted before it.
NamesEarlier(log) == \A i \in DOMAIN log : log[i].prior \in 0 .. i - 1

\* A step of the walk appends an event admitted after the last one, or nothing.
LEMMA FollowGathers ==
    ASSUME NEW N \in Nat, NEW log, DOMAIN log = 1 .. N, NamesEarlier(log),
           NEW n \in Nat, NEW path, Gathered(path, N, n)
    PROVE  Gathered(Follow(log, path), N, n + 1)
<1> DEFINE last == IF path = <<>> THEN 0 ELSE path[Len(path)]
           next == Children(log, last)
           j == CHOOSE x \in next : TRUE
<1>1. CASE Cardinality(next) = 1
  <2>1. next # {}
    <3> HIDE DEF next
    <3> QED
      BY <1>1, FS_EmptySet
  <2>2. j \in next
    BY <2>1
  <2>3. j \in 1 .. N /\ log[j].prior = last
    BY <2>2 DEF Children
  <2>4. last < j
    BY <2>3 DEF NamesEarlier
  <2>5. Follow(log, path) = Append(path, j)
    BY <1>1 DEF Follow
  <2> HIDE DEF j, next
  <2>6. path = <<>> \/ (Len(path) > 0 /\ last = path[Len(path)])
    BY DEF Gathered
  <2> DEFINE q == Append(path, j)
  <2>7. q \in Seq(1 .. N) /\ Len(q) = Len(path) + 1 /\ q[Len(path) + 1] = j
    BY <2>3 DEF Gathered
  <2>8. \A i \in 1 .. Len(path) : q[i] = path[i]
    BY <2>3 DEF Gathered
  <2>9. ASSUME NEW i \in 1 .. Len(q), i > 1
        PROVE  q[i - 1] < q[i]
    <3> HIDE DEF q, last
    <3>1. CASE i = Len(path) + 1
      <4>1. path # <<>> /\ Len(path) > 0
        BY <3>1, <2>9, <2>6
      <4> QED
        BY <4>1, <3>1, <2>4, <2>6, <2>7, <2>8 DEF Gathered
    <3>2. CASE i # Len(path) + 1
      <4>1. Len(path) \in Nat /\ i \in 1 .. Len(path) /\ i - 1 \in 1 .. Len(path)
        BY <3>2, <2>9, <2>7 DEF Gathered
      <4>2. q[i] = path[i] /\ q[i - 1] = path[i - 1]
        BY <4>1, <2>8
      <4> QED
        BY <4>1, <4>2, <2>9 DEF Gathered
    <3> QED
      BY <3>1, <3>2
  <2>10. Len(q) <= n + 1
    BY <2>7 DEF Gathered
  <2> HIDE DEF q
  <2>11. Gathered(q, N, n + 1)
    BY <2>7, <2>9, <2>10 DEF Gathered
  <2> QED
    BY <2>5, <2>11 DEF q
<1>2. CASE Cardinality(next) # 1
  <2>1. Follow(log, path) = path
    BY <1>2 DEF Follow
  <2> QED
    BY <2>1 DEF Gathered
<1> QED
  BY <1>1, <1>2

\* N growing numbers out of the first N are those numbers in order.
LEMMA GrowingIsInOrder ==
    ASSUME NEW N \in Nat, NEW path, Gathered(path, N, N), Len(path) = N
    PROVE  \A i \in 1 .. N : path[i] = i
<1> DEFINE Low == {i \in 0 .. N : i > 0 => path[i] >= i}
           High == {k \in 0 .. N : k < N => path[N - k] <= N - k}
<1>1. /\ \A i \in 1 .. N : path[i] \in 1 .. N
      /\ \A i \in 2 .. N : path[i - 1] < path[i]
  BY DEF Gathered
<1>2. \A i \in 0 .. N : i \in Low
  <2>1. 0 \in Low
    OBVIOUS
  <2>2. ASSUME NEW i \in 0 .. N, i > 0, i - 1 \in Low
        PROVE  i \in Low
    <3>1. CASE i = 1
      BY <3>1, <1>1
    <3>2. CASE i > 1
      <4>1. path[i - 1] < path[i] /\ path[i] \in 1 .. N /\ path[i - 1] \in 1 .. N
        <5>1. i \in 1 .. N /\ i \in 2 .. N /\ i - 1 \in 1 .. N
          BY <3>2, <2>2
        <5> QED
          BY <5>1, <1>1
      <4> QED
        BY <4>1, <3>2, <2>2
    <3> QED
      BY <3>1, <3>2, <2>2
  <2> HIDE DEF Low
  <2>3. \A i \in 0 .. N : i > 0 /\ i - 1 \in Low => i \in Low
    BY <2>2
  <2> QED
    BY <2>1, <2>3, UpTo
<1>3. \A k \in 0 .. N : k \in High
  <2>1. 0 \in High
    BY <1>1
  <2>2. ASSUME NEW k \in 0 .. N, k > 0, k - 1 \in High
        PROVE  k \in High
    <3>1. CASE k < N
      <4> DEFINE m == N - k
      <4>1. m + 1 \in 2 .. N /\ m \in 1 .. N /\ N - (k - 1) = m + 1
        BY <3>1, <2>2
      <4> HIDE DEF m
      <4>2. path[m] < path[m + 1] /\ path[m] \in 1 .. N /\ path[m + 1] \in 1 .. N
        BY <4>1, <1>1
      <4>3. path[m + 1] <= m + 1
        BY <4>1, <2>2
      <4>4. path[m] <= m
        BY <4>1, <4>2, <4>3
      <4> QED
        BY <4>4 DEF m
    <3> QED
      BY <3>1
  <2> HIDE DEF High
  <2>3. \A k \in 0 .. N : k > 0 /\ k - 1 \in High => k \in High
    BY <2>2
  <2> QED
    BY <2>1, <2>3, UpTo
<1>4. ASSUME NEW i \in 1 .. N
      PROVE  path[i] = i
  <2>1. path[i] >= i
    BY <1>2
  <2>2. N - i \in High
    BY <1>3
  <2>3. N - (N - i) = i
    OBVIOUS
  <2>4. path[i] <= i
    BY <2>2, <2>3
  <2> QED
    BY <1>1, <2>1, <2>4
<1> QED
  BY <1>4

\* A chain that holds every event of the log visits them in the order of admission.
LEMMA ChainInOrder ==
    ASSUME NEW N \in Nat, NEW log, DOMAIN log = 1 .. N, Len(log) = N, NamesEarlier(log),
           Len(_ordered_events(log)) = N
    PROVE  \A i \in 1 .. N : _ordered_events(log)[i] = i
<1>1. PICK path : Prefixes(log, path) /\ _ordered_events(log) = path[N]
  BY ChainUnfolds
<1> DEFINE S == {n \in 0 .. N : Gathered(path[n], N, n)}
<1>2. 0 \in S
  BY <1>1 DEF Prefixes, Gathered
<1>3. ASSUME NEW n \in 0 .. N, n > 0, n - 1 \in S
      PROVE  n \in S
  <2>1. path[n] = Follow(log, path[n - 1])
    BY <1>1, <1>3 DEF Prefixes
  <2>2. Gathered(path[n - 1], N, n - 1)
    BY <1>3
  <2> DEFINE before == path[n - 1]
             m == n - 1
  <2>3. m \in Nat /\ m + 1 = n /\ Gathered(before, N, m)
    BY <1>3, <2>2
  <2> HIDE DEF before, m
  <2>4. Gathered(Follow(log, before), N, m + 1)
    BY <2>3, FollowGathers
  <2> QED
    BY <2>1, <2>3, <2>4 DEF before
<1>4. N \in S
  <2> HIDE DEF S
  <2>1. \A n \in 0 .. N : n > 0 /\ n - 1 \in S => n \in S
    BY <1>3
  <2>2. \A n \in 0 .. N : n \in S
    BY <1>2, <2>1, UpTo
  <2> QED
    BY <2>2
<1> QED
  BY <1>1, <1>4, GrowingIsInOrder

-----------------------------------------------------------------------------
(* What a handler does when it finds nothing wrong.                        *)

\* The state after each event of a chain visited in order.
States(log, N, after) ==
    after = [n \in 0 .. N |-> IF n = 0 THEN Fresh ELSE Apply(after[n - 1], log[_ordered_events(log)[n]])]

\* What the judgement computes, event by event.
LEMMA OutcomeUnfolds ==
    ASSUME NEW N \in Nat, NEW log, Len(_ordered_events(log)) = N
    PROVE  \E after : States(log, N, after) /\ Outcome6(log) = after[N]
<1> DEFINE order == _ordered_events(log)
           Upto(m, f) ==
               f = [n \in 0 .. m |-> IF n = 0 THEN Fresh ELSE Apply(f[n - 1], log[order[n]])]
           S == {m \in 0 .. N : \E f : Upto(m, f)}
<1>1. 0 \in S
  <2> DEFINE f == [n \in 0 .. 0 |-> Fresh]
  <2>1. f = [n \in 0 .. 0 |-> IF n = 0 THEN Fresh ELSE Apply(f[n - 1], log[order[n]])]
    OBVIOUS
  <2> HIDE DEF f
  <2>2. Upto(0, f)
    BY <2>1
  <2> QED
    BY <2>2
<1>2. ASSUME NEW m \in 0 .. N, m > 0, m - 1 \in S
      PROVE  m \in S
  <2>1. PICK f : Upto(m - 1, f)
    BY <1>2
  <2> HIDE DEF order
  <2> DEFINE g == [n \in 0 .. m |-> IF n = m THEN Apply(f[m - 1], log[order[m]]) ELSE f[n]]
  <2>2. \A n \in 0 .. m : g[n] = IF n = 0 THEN Fresh ELSE Apply(g[n - 1], log[order[n]])
    BY <1>2, <2>1
  <2>3. Upto(m, g)
    BY <2>2
  <2> QED
    BY <2>3
<1>3. N \in S
  <2> HIDE DEF S
  <2>1. \A m \in 0 .. N : m > 0 /\ m - 1 \in S => m \in S
    BY <1>2
  <2>2. \A m \in 0 .. N : m \in S
    BY <1>1, <2>1, UpTo
  <2> QED
    BY <2>2
<1>4. \E after : States(log, N, after)
  BY <1>3 DEF States
<1>5. States(log, N, CHOOSE after : States(log, N, after))
  BY <1>4
<1> QED
  BY <1>5 DEF States, Outcome6

Fields == {"state", "commitments", "reveals", "verified", "load", "exposures", "last", "ok"}

\* The shape of the state of the judgement.
Shaped(st) == DOMAIN st = Fields

\* What dating an event adds to what its handler does.
LEMMA ApplyAdds ==
    ASSUME NEW st, NEW e, Shaped(Transition(st, e))
    PROVE  LET t == Apply(st, e) u == Transition(st, e) IN
           /\ Shaped(t)
           /\ t.state = u.state /\ t.commitments = u.commitments /\ t.reveals = u.reveals
           /\ t.verified = u.verified /\ t.load = u.load
           /\ t.ok => u.ok
<1> DEFINE u == Transition(st, e)
<1> HIDE DEF u
<1> QED
  BY DEF Apply, Shaped, Fields, u

\* Entering a state changes nothing else.
LEMMA GoesTo ==
    ASSUME NEW st, Shaped(st), NEW to, NEW good \in BOOLEAN
    PROVE  /\ Shaped(Goes(st, to, good)) /\ Goes(st, to, good).state = to
           /\ Goes(st, to, good).commitments = st.commitments
           /\ Goes(st, to, good).reveals = st.reveals
           /\ Goes(st, to, good).verified = st.verified
           /\ Goes(st, to, good).load = st.load
           /\ Goes(st, to, good).ok => st.ok /\ good
  BY DEF Goes, Shaped, Fields

\* Which event may come in which state.
Placed(type, from) ==
    \/ type = "open_commit" /\ from = "CREATED"
    \/ type \in {"commit", "close_commit"} /\ from = "COMMIT_OPEN"
    \/ type = "open_reveal" /\ from = "COMMIT_CLOSED"
    \/ type = "reveal" /\ from = "REVEAL_OPEN"
    \/ type = "exposure" /\ from \in {"COMMIT_OPEN", "REVEAL_OPEN", "VERIFY"}
    \/ type = "verification" /\ from \in {"REVEAL_OPEN", "VERIFY"}
    \/ type = "integration" /\ from = "VERIFY"
    \/ type = "terminate" /\ from = "INTEGRATE"

\* An event is judged by the handler of its type, or has no place.
LEMMA TransitionOf ==
    ASSUME NEW st, NEW e
    PROVE  /\ ~Placed(e.type, st.state) => Transition(st, e) = Misplaced(st)
           /\ Placed(e.type, st.state) =>
                  Transition(st, e) = CASE e.type = "open_commit" -> OpenCommit(st, e)
                                       [] e.type = "commit" -> CommitEvent(st, e)
                                       [] e.type = "close_commit" -> CloseCommit(st, e)
                                       [] e.type = "open_reveal" -> OpenReveal(st, e)
                                       [] e.type = "reveal" -> RevealEvent(st, e)
                                       [] e.type = "exposure" -> Exposure(st, e)
                                       [] e.type = "verification" -> Verification(st, e)
                                       [] e.type = "integration" -> Integration(st, e)
                                       [] e.type = "terminate" -> Terminate(st, e)
  BY DEF Transition, Placed

\* The state an event leads to.
Leads(type, from) ==
    CASE type = "open_commit" -> "COMMIT_OPEN"
      [] type = "close_commit" -> "COMMIT_CLOSED"
      [] type = "open_reveal" -> "REVEAL_OPEN"
      [] type = "verification" -> "VERIFY"
      [] type = "integration" -> "INTEGRATE"
      [] type = "terminate" -> "TERMINATED"
      [] OTHER -> from

\* What an event of each type leaves behind when it is in order.
Effect(st, e, t) ==
    /\ Placed(e.type, st.state) /\ t.state = Leads(e.type, st.state)
    /\ e.type # "commit" => t.commitments = st.commitments
    /\ e.type # "reveal" => t.reveals = st.reveals
    /\ e.type # "verification" => t.verified = st.verified /\ t.load = st.load
    /\ e.type = "commit" =>
           /\ e.proposal \notin DOMAIN st.commitments
           /\ t.commitments = Put(st.commitments, e.proposal, <<e.actor, e.commitment>>)
    /\ e.type = "reveal" =>
           /\ Matches(st, e) /\ e.at <= SessionPlan.reveal_deadline
           /\ t.reveals = Put(st.reveals, e.proposal, e.artifact)
    /\ e.type = "verification" =>
           /\ e.actor \in SessionPlan.verifiers /\ e.artifact \in Revealed(st)
           /\ t.load = [st.load EXCEPT ![e.actor] = @ + 1]
           /\ t.load[e.actor] <= SessionPlan.capacity[e.actor]
           /\ t.verified = Put(st.verified, e.artifact, e.status)
    /\ e.type = "integration" => \A a \in Revealed(st) : Passed(st, a)

\* The handlers keep the shape of the state.
LEMMA HandlersShape ==
    ASSUME NEW st, Shaped(st), NEW e
    PROVE  /\ Shaped(CommitEvent(st, e)) /\ Shaped(RevealEvent(st, e))
           /\ Shaped(Verification(st, e)) /\ Shaped(Exposure(st, e))
  BY DEF CommitEvent, RevealEvent, Verification, Exposure, Goes, Shaped, Fields

\* Judging an event keeps the shape of the state.
LEMMA TransitionShape ==
    ASSUME NEW st, Shaped(st), NEW e
    PROVE  Shaped(Transition(st, e))
<1>2. CASE Placed(e.type, st.state)
  <2>1. \/ Transition(st, e) \in {OpenCommit(st, e), CloseCommit(st, e), OpenReveal(st, e),
                                  Integration(st, e), Terminate(st, e)}
        \/ Transition(st, e) \in {CommitEvent(st, e), RevealEvent(st, e), Verification(st, e),
                                  Exposure(st, e)}
    BY <1>2, TransitionOf DEF Placed
  <2>2. /\ Shaped(OpenCommit(st, e)) /\ Shaped(CloseCommit(st, e)) /\ Shaped(OpenReveal(st, e))
        /\ Shaped(Integration(st, e)) /\ Shaped(Terminate(st, e))
    BY DEF OpenCommit, CloseCommit, OpenReveal, Integration, Terminate, Goes, Shaped, Fields
  <2> QED
    BY <2>1, <2>2, HandlersShape
<1>3. CASE ~Placed(e.type, st.state)
  <2>1. Shaped(Misplaced(st))
    BY DEF Misplaced, Goes, Shaped, Fields
  <2> QED
    BY <1>3, <2>1, TransitionOf
<1> QED
  BY <1>2, <1>3

\* A commitment that is in order.
LEMMA CommitEffect ==
    ASSUME NEW st, Shaped(st), NEW e, CommitEvent(st, e).ok
    PROVE  LET t == CommitEvent(st, e) IN
           /\ st.ok /\ e.proposal \notin DOMAIN st.commitments
           /\ t.state = st.state /\ t.reveals = st.reveals
           /\ t.verified = st.verified /\ t.load = st.load
           /\ t.commitments = Put(st.commitments, e.proposal, <<e.actor, e.commitment>>)
<1> DEFINE good == /\ e.at <= SessionPlan.commit_deadline
                   /\ e.proposal \notin DOMAIN st.commitments
                   /\ ~ \E p \in DOMAIN st.commitments : st.commitments[p][1] = e.actor
           g == Goes(st, st.state, good)
<1>0. good \in BOOLEAN
  OBVIOUS
<1> HIDE DEF good
<1>1. /\ Shaped(g) /\ g.state = st.state
      /\ g.commitments = st.commitments /\ g.reveals = st.reveals
      /\ g.verified = st.verified /\ g.load = st.load
      /\ g.ok => st.ok /\ good
  BY <1>0, GoesTo
<1> USE DEF good
<1>2. CommitEvent(st, e)
          = [g EXCEPT !.commitments = Put(@, e.proposal, <<e.actor, e.commitment>>)]
  BY DEF CommitEvent
<1> HIDE DEF g
<1>3. CommitEvent(st, e).ok = g.ok
  BY <1>1, <1>2 DEF Shaped, Fields
<1>4. e.proposal \notin DOMAIN st.commitments /\ st.ok
  BY <1>1, <1>3
<1> QED
  BY <1>1, <1>2, <1>4 DEF Shaped, Fields

\* A reveal that is in order.
LEMMA RevealEffect ==
    ASSUME NEW st, Shaped(st), NEW e, RevealEvent(st, e).ok
    PROVE  LET t == RevealEvent(st, e) IN
           /\ st.ok /\ Matches(st, e) /\ e.at <= SessionPlan.reveal_deadline
           /\ t.state = st.state /\ t.commitments = st.commitments
           /\ t.verified = st.verified /\ t.load = st.load
           /\ t.reveals = Put(st.reveals, e.proposal, e.artifact)
<1> DEFINE good == Matches(st, e) /\ e.at <= SessionPlan.reveal_deadline
           g == Goes(st, st.state, good)
<1>0. good \in BOOLEAN
  OBVIOUS
<1> HIDE DEF good
<1>1. /\ Shaped(g) /\ g.state = st.state
      /\ g.commitments = st.commitments /\ g.reveals = st.reveals
      /\ g.verified = st.verified /\ g.load = st.load
      /\ g.ok => st.ok /\ good
  BY <1>0, GoesTo
<1> USE DEF good
<1>2. RevealEvent(st, e)
          = IF Matches(st, e) THEN [g EXCEPT !.reveals = Put(@, e.proposal, e.artifact)] ELSE g
  BY DEF RevealEvent
<1> HIDE DEF g
<1>3. RevealEvent(st, e).ok = g.ok
  BY <1>1, <1>2 DEF Shaped, Fields
<1>4. Matches(st, e) /\ e.at <= SessionPlan.reveal_deadline /\ st.ok
  BY <1>1, <1>3
<1> QED
  BY <1>1, <1>2, <1>4 DEF Shaped, Fields

\* A verification that is in order.
LEMMA VerificationEffect ==
    ASSUME NEW st, Shaped(st), NEW e, Verification(st, e).ok
    PROVE  LET t == Verification(st, e) IN
           /\ st.ok /\ t.state = "VERIFY"
           /\ t.commitments = st.commitments /\ t.reveals = st.reveals
           /\ e.actor \in SessionPlan.verifiers /\ e.artifact \in Revealed(st)
           /\ t.load = [st.load EXCEPT ![e.actor] = @ + 1]
           /\ t.load[e.actor] <= SessionPlan.capacity[e.actor]
           /\ t.verified = Put(st.verified, e.artifact, e.status)
<1> DEFINE registered == e.actor \in SessionPlan.verifiers
           counted == IF registered THEN [st EXCEPT !.load[e.actor] = @ + 1] ELSE st
           revealed == e.artifact \in Revealed(st)
           good == /\ registered /\ revealed
                   /\ registered => counted.load[e.actor] <= SessionPlan.capacity[e.actor]
           g == Goes(counted, "VERIFY", good)
<1>1. /\ Shaped(counted) /\ counted.ok = st.ok
      /\ counted.commitments = st.commitments /\ counted.reveals = st.reveals
      /\ counted.verified = st.verified
      /\ registered => counted.load = [st.load EXCEPT ![e.actor] = @ + 1]
  BY DEF Shaped, Fields
<1>0. good \in BOOLEAN
  OBVIOUS
<1> HIDE DEF counted, good
<1>2. /\ Shaped(g) /\ g.state = "VERIFY"
      /\ g.commitments = counted.commitments /\ g.reveals = counted.reveals
      /\ g.verified = counted.verified /\ g.load = counted.load
      /\ g.ok => counted.ok /\ good
  BY <1>0, <1>1, GoesTo
<1> USE DEF good
<1>3. Verification(st, e)
          = IF revealed THEN [g EXCEPT !.verified = Put(@, e.artifact, e.status)] ELSE g
  BY DEF Verification, counted
<1> HIDE DEF g
<1>4. Verification(st, e).ok = g.ok
  BY <1>2, <1>3 DEF Shaped, Fields
<1>5. good /\ st.ok
  BY <1>1, <1>2, <1>4
<1>6. registered /\ revealed /\ counted.load[e.actor] <= SessionPlan.capacity[e.actor]
  BY <1>5
<1> HIDE DEF registered, revealed, good
<1>7. LET t == Verification(st, e) IN
      /\ t.state = "VERIFY"
      /\ t.commitments = g.commitments /\ t.reveals = g.reveals /\ t.load = g.load
      /\ t.verified = Put(g.verified, e.artifact, e.status)
  BY <1>2, <1>3, <1>6 DEF Shaped, Fields
<1> QED
  BY <1>1, <1>2, <1>5, <1>6, <1>7 DEF registered, revealed

\* The exposure of an artifact that is in order.
LEMMA ExposureEffect ==
    ASSUME NEW st, Shaped(st), NEW e, Exposure(st, e).ok
    PROVE  LET t == Exposure(st, e) IN
           /\ st.ok /\ t.state = st.state
           /\ t.commitments = st.commitments /\ t.reveals = st.reveals
           /\ t.verified = st.verified /\ t.load = st.load
<1> DEFINE good == e.recipient \in SessionPlan.participants
           g == Goes(st, st.state, good)
<1>0. good \in BOOLEAN
  OBVIOUS
<1> HIDE DEF good
<1>1. /\ Shaped(g) /\ g.state = st.state
      /\ g.commitments = st.commitments /\ g.reveals = st.reveals
      /\ g.verified = st.verified /\ g.load = st.load
      /\ g.ok => st.ok /\ good
  BY <1>0, GoesTo
<1> USE DEF good
<1>2. Exposure(st, e) = [g EXCEPT !.exposures = @ + 1]
  BY DEF Exposure
<1> HIDE DEF g
<1>3. Exposure(st, e).ok = g.ok
  BY <1>1, <1>2 DEF Shaped, Fields
<1> QED
  BY <1>1, <1>2, <1>3 DEF Shaped, Fields

\* An event that only moves the session, when it is in order.
LEMMA MovingEffect ==
    ASSUME NEW st, Shaped(st), NEW e, NEW to, NEW good \in BOOLEAN,
           Transition(st, e) = Goes(st, to, good), Transition(st, e).ok
    PROVE  /\ st.ok /\ good /\ Transition(st, e).state = to
           /\ Transition(st, e).commitments = st.commitments
           /\ Transition(st, e).reveals = st.reveals
           /\ Transition(st, e).verified = st.verified /\ Transition(st, e).load = st.load
  BY GoesTo

\* Every event in order has the effect of its type.
LEMMA TransitionEffect ==
    ASSUME NEW st, Shaped(st), NEW e, Transition(st, e).ok
    PROVE  st.ok /\ Effect(st, e, Transition(st, e))
<1> DEFINE t == Transition(st, e)
<1>1. ASSUME ~Placed(e.type, st.state)
      PROVE  FALSE
  <2>1. t = Goes(st, st.state, FALSE)
    BY <1>1, TransitionOf DEF Misplaced
  <2> QED
    BY <2>1, MovingEffect
<1>2. CASE Placed(e.type, st.state)
  <2>1. CASE e.type = "open_commit"
    <3>1. t = Goes(st, "COMMIT_OPEN", e.actor = SessionPlan.plan_principal)
      BY <1>2, <2>1, TransitionOf DEF OpenCommit
    <3> QED
      BY <1>2, <2>1, <3>1, MovingEffect DEF Effect, Leads
  <2>2. CASE e.type = "commit"
    <3>1. t = CommitEvent(st, e) /\ st.state = "COMMIT_OPEN"
      BY <1>2, <2>2, TransitionOf DEF Placed
    <3> QED
      BY <1>2, <2>2, <3>1, CommitEffect DEF Effect, Leads
  <2>3. CASE e.type = "close_commit"
    <3> DEFINE good == /\ e.actor = SessionPlan.plan_principal
                       /\ Cardinality(DOMAIN st.commitments) >= SessionPlan.required
    <3>1. t = Goes(st, "COMMIT_CLOSED", good) /\ good \in BOOLEAN
      BY <1>2, <2>3, TransitionOf DEF CloseCommit
    <3> HIDE DEF good
    <3> QED
      BY <1>2, <2>3, <3>1, MovingEffect DEF Effect, Leads
  <2>4. CASE e.type = "open_reveal"
    <3>1. t = Goes(st, "REVEAL_OPEN", e.actor = SessionPlan.plan_principal)
      BY <1>2, <2>4, TransitionOf DEF OpenReveal
    <3> QED
      BY <1>2, <2>4, <3>1, MovingEffect DEF Effect, Leads
  <2>5. CASE e.type = "reveal"
    <3>1. t = RevealEvent(st, e) /\ st.state = "REVEAL_OPEN"
      BY <1>2, <2>5, TransitionOf DEF Placed
    <3> QED
      BY <1>2, <2>5, <3>1, RevealEffect DEF Effect, Leads
  <2>6. CASE e.type = "exposure"
    <3>1. t = Exposure(st, e)
      BY <1>2, <2>6, TransitionOf
    <3> QED
      BY <1>2, <2>6, <3>1, ExposureEffect DEF Effect, Leads
  <2>7. CASE e.type = "verification"
    <3>1. t = Verification(st, e)
      BY <1>2, <2>7, TransitionOf
    <3> QED
      BY <1>2, <2>7, <3>1, VerificationEffect DEF Effect, Leads
  <2>8. CASE e.type = "integration"
    <3> DEFINE good == /\ e.actor = SessionPlan.integration_principal
                       /\ DOMAIN st.reveals # {} /\ \A a \in Revealed(st) : Passed(st, a)
    <3>1. t = Goes(st, "INTEGRATE", good) /\ good \in BOOLEAN
      BY <1>2, <2>8, TransitionOf DEF Integration
    <3> HIDE DEF good
    <3>2. /\ st.ok /\ good /\ t.state = "INTEGRATE"
          /\ t.commitments = st.commitments /\ t.reveals = st.reveals
          /\ t.verified = st.verified /\ t.load = st.load
      BY <3>1, MovingEffect
    <3>3. \A a \in Revealed(st) : Passed(st, a)
      BY <3>2 DEF good
    <3> QED
      BY <1>2, <2>8, <3>2, <3>3 DEF Effect, Leads
  <2>9. CASE e.type = "terminate"
    <3> DEFINE good == /\ e.actor = SessionPlan.integration_principal
                       /\ e.reason = "all_verified" => \A a \in DOMAIN st.verified : Passed(st, a)
    <3>1. t = Goes(st, "TERMINATED", good) /\ good \in BOOLEAN
      BY <1>2, <2>9, TransitionOf DEF Terminate
    <3> HIDE DEF good
    <3> QED
      BY <1>2, <2>9, <3>1, MovingEffect DEF Effect, Leads
  <2> QED
    BY <1>2, <2>1, <2>2, <2>3, <2>4, <2>5, <2>6, <2>7, <2>8, <2>9 DEF Placed
<1> QED
  BY <1>1, <1>2

\* An event judged in order has the effect of its type, and so had all before it.
LEMMA ApplyEffect ==
    ASSUME NEW st, Shaped(st), NEW e
    PROVE  /\ Shaped(Apply(st, e))
           /\ Apply(st, e).ok => st.ok /\ Effect(st, e, Apply(st, e))
<1> DEFINE t == Apply(st, e)
           u == Transition(st, e)
<1>1. Shaped(u)
  BY TransitionShape
<1>2. /\ Shaped(t)
      /\ t.state = u.state /\ t.commitments = u.commitments /\ t.reveals = u.reveals
      /\ t.verified = u.verified /\ t.load = u.load
      /\ t.ok => u.ok
  BY <1>1, ApplyAdds
<1>3. u.ok => st.ok /\ Effect(st, e, u)
  BY TransitionEffect
<1> HIDE DEF t, u
<1>4. Effect(st, e, u) => Effect(st, e, t)
  BY <1>2 DEF Effect
<1> QED
  BY <1>2, <1>3, <1>4 DEF t

-----------------------------------------------------------------------------
(* What the events judged so far have left behind.                         *)

\* The first k events of one type, by position.
Among(log, k, type) == {i \in 1 .. k : log[i].type = type}

\* The verifications one verifier made.
LoadOf(log, k, p) == {v \in Among(log, k, "verification") : log[v].actor = p}

PhaseKept(log, k, st) ==
    /\ st.state \in {"CREATED", "COMMIT_OPEN", "COMMIT_CLOSED"} =>
           Among(log, k, "reveal") = {} /\ DOMAIN st.reveals = {}
    /\ st.state \notin {"VERIFY", "INTEGRATE", "TERMINATED"} => Among(log, k, "verification") = {}
    /\ st.state \notin {"INTEGRATE", "TERMINATED"} => Among(log, k, "integration") = {}
    /\ st.state \in {"INTEGRATE", "TERMINATED"} =>
           /\ \E i \in 1 .. k : Among(log, k, "integration") = {i}
           /\ \A p \in DOMAIN st.reveals : Passed(st, st.reveals[p])
    /\ st.state = "TERMINATED" => k > 0 /\ log[k].type = "terminate"

CommitsKept(log, k, st) ==
    \A p \in DOMAIN st.commitments : \E c \in Among(log, k, "commit") :
        log[c].proposal = p /\ st.commitments[p] = <<log[c].actor, log[c].commitment>>

RevealsMatch(st) ==
    \A p \in DOMAIN st.reveals :
        /\ p \in DOMAIN st.commitments
        /\ st.commitments[p][2] = <<p, st.commitments[p][1], st.reveals[p]>>

RevealKept(log, k, st, r) ==
    /\ log[r].at <= SessionPlan.reveal_deadline
    /\ \A x \in Among(log, k, "commit") : x < r
    /\ \E c \in Among(log, k, "commit") :
           /\ log[c].actor = log[r].actor
           /\ log[c].commitment = <<log[c].proposal, log[r].actor, log[r].artifact>>
    /\ \E p \in DOMAIN st.reveals : st.reveals[p] = log[r].artifact

LastOf(log, k, a, status, v) ==
    /\ v \in Among(log, k, "verification") /\ log[v].artifact = a /\ log[v].status = status
    /\ \A w \in Among(log, k, "verification") : w > v => log[w].artifact # a

VerifiedKept(log, k, st) ==
    /\ \A r \in Among(log, k, "reveal"), v \in Among(log, k, "verification") : r < v
    /\ \A a \in DOMAIN st.verified : \E v \in 1 .. k : LastOf(log, k, a, st.verified[a], v)

LoadKept(log, k, st) ==
    /\ st.load \in [SessionPlan.verifiers -> Nat]
    /\ \A p \in SessionPlan.verifiers :
           /\ IsFiniteSet(LoadOf(log, k, p)) /\ Cardinality(LoadOf(log, k, p)) = st.load[p]
           /\ st.load[p] <= SessionPlan.capacity[p]

\* What the first k events, all in order, have left behind.
Kept(log, k, st) ==
    /\ PhaseKept(log, k, st) /\ CommitsKept(log, k, st) /\ RevealsMatch(st)
    /\ \A r \in Among(log, k, "reveal") : RevealKept(log, k, st, r)
    /\ VerifiedKept(log, k, st) /\ LoadKept(log, k, st)

\* Nothing has happened yet.
LEMMA FreshKept ==
    ASSUME NEW log
    PROVE  Shaped(Fresh) /\ Kept(log, 0, Fresh)
<1>1. \A type : Among(log, 0, type) = {}
  BY DEF Among
<1>2. \A p : LoadOf(log, 0, p) = {}
  BY <1>1 DEF LoadOf
<1>3. Shaped(Fresh) /\ Fresh.state = "CREATED" /\ DOMAIN Fresh.commitments = {}
      /\ DOMAIN Fresh.reveals = {} /\ DOMAIN Fresh.verified = {}
      /\ Fresh.load = [v \in SessionPlan.verifiers |-> 0]
  BY DEF Fresh, Shaped, Fields
<1>4. SessionPlan.capacity \in [SessionPlan.verifiers -> Nat \ {0}]
  BY PlanAssumption DEF coordination_plan_integrity
<1> HIDE DEF Among, LoadOf, Fresh
<1>5. LoadKept(log, 0, Fresh)
  <2>1. IsFiniteSet({}) /\ Cardinality({}) = 0
    BY FS_EmptySet
  <2> QED
    BY <1>2, <1>3, <1>4, <2>1 DEF LoadKept
<1> QED
  BY <1>1, <1>3, <1>5 DEF Kept, PhaseKept, CommitsKept, RevealsMatch, VerifiedKept

\* The events of a type after one more.
LEMMA AmongGrows ==
    ASSUME NEW log, NEW k \in Nat, NEW type
    PROVE  /\ log[k + 1].type = type => Among(log, k + 1, type) = Among(log, k, type) \cup {k + 1}
           /\ log[k + 1].type # type => Among(log, k + 1, type) = Among(log, k, type)
           /\ \A i \in Among(log, k, type) : i \in 1 .. k
           /\ k + 1 \notin Among(log, k, type)
  BY DEF Among

\* Commitments are recorded as they were made.
LEMMA CommitsStep ==
    ASSUME NEW log, NEW k \in Nat, NEW st, NEW t, Effect(st, log[k + 1], t),
           CommitsKept(log, k, st)
    PROVE  CommitsKept(log, k + 1, t)
<1> DEFINE e == log[k + 1]
<1>1. CASE e.type # "commit"
  <2>1. t.commitments = st.commitments
    BY <1>1 DEF Effect
  <2>2. Among(log, k + 1, "commit") = Among(log, k, "commit")
    BY <1>1, AmongGrows
  <2> QED
    BY <2>1, <2>2 DEF CommitsKept
<1>2. CASE e.type = "commit"
  <2>1. t.commitments = Put(st.commitments, e.proposal, <<e.actor, e.commitment>>)
    BY <1>2 DEF Effect
  <2>2. Among(log, k + 1, "commit") = Among(log, k, "commit") \cup {k + 1}
    BY <1>2, AmongGrows
  <2>3. ASSUME NEW p \in DOMAIN t.commitments
        PROVE  \E c \in Among(log, k + 1, "commit") :
                   log[c].proposal = p /\ t.commitments[p] = <<log[c].actor, log[c].commitment>>
    <3>1. CASE p = e.proposal
      <4>1. t.commitments[p] = <<e.actor, e.commitment>>
        BY <2>1, <3>1 DEF Put
      <4> QED
        BY <2>2, <3>1, <4>1
    <3>2. CASE p # e.proposal
      <4>1. p \in DOMAIN st.commitments /\ t.commitments[p] = st.commitments[p]
        BY <2>1, <3>2 DEF Put
      <4> QED
        BY <2>2, <4>1 DEF CommitsKept
    <3> QED
      BY <3>1, <3>2
  <2> QED
    BY <2>3 DEF CommitsKept
<1> QED
  BY <1>1, <1>2

\* A commitment matched is the one recorded, and it hashes what is revealed.
LEMMA MatchedCommit ==
    ASSUME NEW st, NEW e, Matches(st, e)
    PROVE  /\ e.proposal \in DOMAIN st.commitments
           /\ st.commitments[e.proposal][1] = e.actor
           /\ st.commitments[e.proposal][2] = <<e.proposal, e.actor, e.artifact>>
  BY DEF Matches, proposal_commitment_digest

\* What was revealed goes on matching its commitment: commitments come before it.
LEMMA RevealsMatchStep ==
    ASSUME NEW log, NEW k \in Nat, NEW st, NEW t, Effect(st, log[k + 1], t),
           PhaseKept(log, k, st), RevealsMatch(st)
    PROVE  /\ RevealsMatch(t)
           /\ \A p \in DOMAIN st.reveals : p \in DOMAIN t.reveals /\ t.reveals[p] = st.reveals[p]
<1> DEFINE e == log[k + 1]
<1>1. CASE e.type = "commit"
  <2>1. DOMAIN st.reveals = {}
    BY <1>1 DEF Effect, Placed, PhaseKept
  <2>2. t.reveals = st.reveals
    BY <1>1 DEF Effect
  <2> QED
    BY <2>1, <2>2 DEF RevealsMatch
<1>2. CASE e.type = "reveal"
  <2>1. /\ Matches(st, e) /\ t.commitments = st.commitments
        /\ t.reveals = Put(st.reveals, e.proposal, e.artifact)
    BY <1>2 DEF Effect
  <2>2. /\ DOMAIN t.reveals = DOMAIN st.reveals \cup {e.proposal}
        /\ t.reveals[e.proposal] = e.artifact
        /\ \A p \in DOMAIN st.reveals : p # e.proposal => t.reveals[p] = st.reveals[p]
    BY <2>1 DEF Put
  <2>3. /\ e.proposal \in DOMAIN st.commitments
        /\ st.commitments[e.proposal][1] = e.actor
        /\ st.commitments[e.proposal][2] = <<e.proposal, e.actor, e.artifact>>
    BY <2>1, MatchedCommit
  <2>4. e.proposal \in DOMAIN st.reveals => st.reveals[e.proposal] = e.artifact
    BY <2>3 DEF RevealsMatch
  <2> HIDE DEF e
  <2> QED
    BY <2>1, <2>2, <2>3, <2>4 DEF RevealsMatch
<1>3. CASE e.type # "commit" /\ e.type # "reveal"
  <2>1. t.commitments = st.commitments /\ t.reveals = st.reveals
    BY <1>3 DEF Effect
  <2> QED
    BY <2>1 DEF RevealsMatch
<1> QED
  BY <1>1, <1>2, <1>3

\* A reveal in order keeps what is asked of it, and no later event undoes that.
LEMMA RevealStep ==
    ASSUME NEW log, NEW k \in Nat, NEW st, NEW t, Effect(st, log[k + 1], t),
           PhaseKept(log, k, st), CommitsKept(log, k, st), RevealsMatch(st),
           \A r \in Among(log, k, "reveal") : RevealKept(log, k, st, r)
    PROVE  \A r \in Among(log, k + 1, "reveal") : RevealKept(log, k + 1, t, r)
<1> DEFINE e == log[k + 1]
           before == Among(log, k, "commit")
           now == Among(log, k + 1, "commit")
<1>1. \A p \in DOMAIN st.reveals : p \in DOMAIN t.reveals /\ t.reveals[p] = st.reveals[p]
  BY RevealsMatchStep
<1>2. ASSUME NEW r \in Among(log, k, "reveal")
      PROVE  RevealKept(log, k + 1, t, r)
  <2>1. e.type # "commit"
    <3>1. Among(log, k, "reveal") # {}
      BY <1>2
    <3> HIDE DEF e
    <3> QED
      BY <3>1 DEF Effect, Placed, PhaseKept, e
  <2>2. now = before
    BY <2>1, AmongGrows
  <2>3. RevealKept(log, k, st, r)
    BY <1>2
  <2> QED
    BY <1>1, <2>2, <2>3 DEF RevealKept
<1>3. ASSUME e.type = "reveal"
      PROVE  RevealKept(log, k + 1, t, k + 1)
  <2>1. /\ Matches(st, e) /\ e.at <= SessionPlan.reveal_deadline
        /\ t.reveals = Put(st.reveals, e.proposal, e.artifact)
    BY <1>3 DEF Effect
  <2>2. e.proposal \in DOMAIN t.reveals /\ t.reveals[e.proposal] = e.artifact
    BY <2>1 DEF Put
  <2>3. now = before
    BY <1>3, AmongGrows
  <2>4. \A x \in now : x < k + 1
    BY <2>3 DEF Among
  <2>5. /\ e.proposal \in DOMAIN st.commitments
        /\ st.commitments[e.proposal][1] = e.actor
        /\ st.commitments[e.proposal][2] = <<e.proposal, e.actor, e.artifact>>
    BY <2>1, MatchedCommit
  <2>6. PICK c \in before : /\ log[c].proposal = e.proposal
                            /\ st.commitments[e.proposal] = <<log[c].actor, log[c].commitment>>
    BY <2>5 DEF CommitsKept
  <2>7. /\ log[c].actor = e.actor
        /\ log[c].commitment = <<log[c].proposal, e.actor, e.artifact>>
    BY <2>5, <2>6
  <2> HIDE DEF before, now
  <2> QED
    BY <2>1, <2>2, <2>3, <2>4, <2>7 DEF RevealKept, before, now
<1>4. \A r \in Among(log, k + 1, "reveal") :
          r \in Among(log, k, "reveal") \/ (r = k + 1 /\ e.type = "reveal")
  BY DEF Among
<1> QED
  BY <1>2, <1>3, <1>4

\* The last verification of an artifact is the one recorded, and none comes before a reveal.
LEMMA VerifiedStep ==
    ASSUME NEW log, NEW k \in Nat, NEW st, NEW t, Effect(st, log[k + 1], t),
           PhaseKept(log, k, st), VerifiedKept(log, k, st)
    PROVE  VerifiedKept(log, k + 1, t)
<1> DEFINE e == log[k + 1]
           before == Among(log, k, "verification")
           now == Among(log, k + 1, "verification")
<1>1. CASE e.type = "verification"
  <2>1. t.verified = Put(st.verified, e.artifact, e.status)
    BY <1>1 DEF Effect
  <2>2. now = before \cup {k + 1} /\ Among(log, k + 1, "reveal") = Among(log, k, "reveal")
    BY <1>1, AmongGrows
  <2>3. \A x \in before \cup Among(log, k, "reveal") : x \in 1 .. k
    BY DEF Among
  <2>4. ASSUME NEW a \in DOMAIN t.verified
        PROVE  \E v \in 1 .. k + 1 : LastOf(log, k + 1, a, t.verified[a], v)
    <3>1. CASE a = e.artifact
      <4>1. t.verified[a] = e.status
        BY <2>1, <3>1 DEF Put
      <4>2. LastOf(log, k + 1, a, t.verified[a], k + 1)
        BY <2>2, <2>3, <3>1, <4>1 DEF LastOf
      <4> QED
        BY <4>2
    <3>2. CASE a # e.artifact
      <4>1. a \in DOMAIN st.verified /\ t.verified[a] = st.verified[a]
        BY <2>1, <3>2 DEF Put
      <4>2. PICK v \in 1 .. k : LastOf(log, k, a, st.verified[a], v)
        BY <4>1 DEF VerifiedKept
      <4>3. LastOf(log, k + 1, a, t.verified[a], v)
        BY <2>2, <3>2, <4>1, <4>2 DEF LastOf
      <4> QED
        BY <4>3
    <3> QED
      BY <3>1, <3>2
  <2>5. \A r \in Among(log, k + 1, "reveal"), v \in now : r < v
    <3> HIDE DEF before, now
    <3> QED
      BY <2>2, <2>3 DEF VerifiedKept, before
  <2> QED
    BY <2>4, <2>5 DEF VerifiedKept
<1>2. CASE e.type # "verification"
  <2>1. t.verified = st.verified
    BY <1>2 DEF Effect
  <2>2. now = before
    BY <1>2, AmongGrows
  <2>3. \A a, s, v : LastOf(log, k, a, s, v) => LastOf(log, k + 1, a, s, v)
    BY <2>2 DEF LastOf
  <2>4. \A a \in DOMAIN t.verified : \E v \in 1 .. k + 1 : LastOf(log, k + 1, a, t.verified[a], v)
    <3> HIDE DEF now, before
    <3> QED
      BY <2>1, <2>3 DEF VerifiedKept
  <2>5. \A r \in Among(log, k + 1, "reveal"), v \in now : r < v
    <3>1. CASE e.type = "reveal"
      <4>1. before = {}
        BY <3>1 DEF Effect, Placed, PhaseKept
      <4> HIDE DEF before, now
      <4> QED
        BY <2>2, <4>1
    <3>2. CASE e.type # "reveal"
      <4>1. Among(log, k + 1, "reveal") = Among(log, k, "reveal")
        BY <3>2, AmongGrows
      <4> HIDE DEF before, now
      <4> QED
        BY <2>2, <4>1 DEF VerifiedKept, before
    <3> QED
      BY <3>1, <3>2
  <2> QED
    BY <2>4, <2>5 DEF VerifiedKept
<1> QED
  BY <1>1, <1>2

\* The load of a verifier is the number of its verifications, within its capacity.
LEMMA LoadStep ==
    ASSUME NEW log, NEW k \in Nat, NEW st, NEW t, Effect(st, log[k + 1], t),
           LoadKept(log, k, st)
    PROVE  LoadKept(log, k + 1, t)
<1> DEFINE e == log[k + 1]
<1>1. \A p \in SessionPlan.verifiers : st.load[p] \in Nat
  BY DEF LoadKept
<1>2. CASE e.type = "verification"
  <2>1. /\ e.actor \in SessionPlan.verifiers
        /\ t.load = [st.load EXCEPT ![e.actor] = @ + 1]
        /\ t.load[e.actor] <= SessionPlan.capacity[e.actor]
    BY <1>2 DEF Effect
  <2>2. t.load \in [SessionPlan.verifiers -> Nat]
    BY <1>1, <2>1 DEF LoadKept
  <2>3. ASSUME NEW p \in SessionPlan.verifiers
        PROVE  /\ IsFiniteSet(LoadOf(log, k + 1, p))
               /\ Cardinality(LoadOf(log, k + 1, p)) = t.load[p]
               /\ t.load[p] <= SessionPlan.capacity[p]
    <3> DEFINE before == LoadOf(log, k, p)
               now == LoadOf(log, k + 1, p)
    <3>1. IsFiniteSet(before) /\ Cardinality(before) = st.load[p]
      BY DEF LoadKept
    <3>2. k + 1 \notin before
      BY AmongGrows DEF LoadOf
    <3>3. CASE p = e.actor
      <4>1. now = before \cup {k + 1}
        <5>1. Among(log, k + 1, "verification") = Among(log, k, "verification") \cup {k + 1}
          BY <1>2, AmongGrows
        <5> QED
          BY <3>3, <5>1 DEF LoadOf
      <4> HIDE DEF before, now
      <4>2. IsFiniteSet(now) /\ Cardinality(now) = Cardinality(before) + 1
        BY <3>1, <3>2, <4>1, FS_AddElement
      <4>3. t.load[p] = st.load[p] + 1
        BY <2>1, <3>3 DEF LoadKept
      <4> QED
        BY <2>1, <3>1, <3>3, <4>2, <4>3 DEF now
    <3>4. CASE p # e.actor
      <4>1. now = before
        BY <1>2, <3>4, AmongGrows DEF LoadOf
      <4>2. t.load[p] = st.load[p]
        BY <2>1, <3>4 DEF LoadKept
      <4> HIDE DEF before, now
      <4> QED
        BY <3>1, <4>1, <4>2 DEF LoadKept, now
    <3> QED
      BY <3>3, <3>4
  <2> QED
    BY <2>2, <2>3 DEF LoadKept
<1>3. CASE e.type # "verification"
  <2>1. t.load = st.load
    BY <1>3 DEF Effect
  <2>2. \A p : LoadOf(log, k + 1, p) = LoadOf(log, k, p)
    BY <1>3, AmongGrows DEF LoadOf
  <2> QED
    BY <2>1, <2>2 DEF LoadKept
<1> QED
  BY <1>2, <1>3

\* Each kind of event belongs to its phase.
LEMMA PhaseStep ==
    ASSUME NEW log, NEW k \in Nat, NEW st, NEW t, Effect(st, log[k + 1], t),
           PhaseKept(log, k, st)
    PROVE  PhaseKept(log, k + 1, t)
<1> DEFINE e == log[k + 1]
           grows(type) == IF e.type = type THEN Among(log, k, type) \cup {k + 1}
                                           ELSE Among(log, k, type)
<1>1. Placed(e.type, st.state) /\ t.state = Leads(e.type, st.state)
  BY DEF Effect
<1>2. \A type : Among(log, k + 1, type) = grows(type)
  BY DEF Among
<1>3. CASE e.type = "integration"
  <2>1. st.state = "VERIFY" /\ t.state = "INTEGRATE"
    BY <1>1, <1>3 DEF Placed, Leads
  <2>2. Among(log, k + 1, "integration") = {k + 1}
    BY <1>2, <1>3, <2>1 DEF PhaseKept
  <2>3. /\ t.reveals = st.reveals /\ t.verified = st.verified
        /\ \A a \in Revealed(st) : Passed(st, a)
    BY <1>3 DEF Effect
  <2>4. \A p \in DOMAIN t.reveals : Passed(t, t.reveals[p])
    BY <2>3 DEF Revealed, Passed
  <2> HIDE DEF e
  <2> QED
    BY <2>1, <2>2, <2>4 DEF PhaseKept
<1>4. CASE e.type = "terminate"
  <2>1. st.state = "INTEGRATE" /\ t.state = "TERMINATED"
    BY <1>1, <1>4 DEF Placed, Leads
  <2>2. t.reveals = st.reveals /\ t.verified = st.verified
    BY <1>4 DEF Effect
  <2>3. Among(log, k + 1, "integration") = Among(log, k, "integration")
    BY <1>4, AmongGrows
  <2>4. \A p \in DOMAIN t.reveals : Passed(t, t.reveals[p])
    BY <2>1, <2>2 DEF PhaseKept, Passed
  <2>5. PICK i \in 1 .. k : Among(log, k, "integration") = {i}
    BY <2>1 DEF PhaseKept
  <2> QED
    BY <1>4, <2>1, <2>3, <2>4, <2>5 DEF PhaseKept
<1>5. CASE e.type = "reveal"
  <2>1. st.state = "REVEAL_OPEN" /\ t.state = "REVEAL_OPEN"
    BY <1>1, <1>5 DEF Placed, Leads
  <2>2. /\ Among(log, k + 1, "verification") = Among(log, k, "verification")
        /\ Among(log, k + 1, "integration") = Among(log, k, "integration")
    BY <1>5, AmongGrows
  <2> HIDE DEF e
  <2> QED
    BY <2>1, <2>2 DEF PhaseKept
<1>6. CASE e.type = "verification"
  <2>1. st.state \in {"REVEAL_OPEN", "VERIFY"} /\ t.state = "VERIFY"
    BY <1>1, <1>6 DEF Placed, Leads
  <2>2. Among(log, k + 1, "integration") = Among(log, k, "integration")
    BY <1>6, AmongGrows
  <2> HIDE DEF e
  <2> QED
    BY <2>1, <2>2 DEF PhaseKept
<1>7. CASE e.type \in {"open_commit", "commit", "close_commit", "open_reveal", "exposure"}
  <2>1. /\ Among(log, k + 1, "reveal") = Among(log, k, "reveal")
        /\ Among(log, k + 1, "verification") = Among(log, k, "verification")
        /\ Among(log, k + 1, "integration") = Among(log, k, "integration")
    BY <1>7, AmongGrows
  <2>2. t.reveals = st.reveals
    BY <1>7 DEF Effect
  <2>3. /\ t.state \notin {"INTEGRATE", "TERMINATED"} /\ st.state \notin {"INTEGRATE", "TERMINATED"}
        /\ t.state = "VERIFY" <=> st.state = "VERIFY"
        /\ t.state \in {"CREATED", "COMMIT_OPEN", "COMMIT_CLOSED"} =>
               st.state \in {"CREATED", "COMMIT_OPEN", "COMMIT_CLOSED"}
    BY <1>1, <1>7 DEF Placed, Leads
  <2> HIDE DEF e
  <2> QED
    BY <2>1, <2>2, <2>3 DEF PhaseKept
<1> QED
  BY <1>1, <1>3, <1>4, <1>5, <1>6, <1>7 DEF Placed

\* An event in order keeps everything.
LEMMA KeptStep ==
    ASSUME NEW log, NEW k \in Nat, NEW st, NEW t, Effect(st, log[k + 1], t), Kept(log, k, st)
    PROVE  Kept(log, k + 1, t)
<1>1. PhaseKept(log, k + 1, t) /\ LoadKept(log, k + 1, t) /\ CommitsKept(log, k + 1, t)
  BY PhaseStep, LoadStep, CommitsStep DEF Kept
<1>2. RevealsMatch(t) /\ VerifiedKept(log, k + 1, t)
  BY RevealsMatchStep, VerifiedStep DEF Kept
<1>3. \A r \in Among(log, k + 1, "reveal") : RevealKept(log, k + 1, t, r)
  BY RevealStep DEF Kept
<1> QED
  BY <1>1, <1>2, <1>3 DEF Kept

\* A session that is not broken, its chain whole, has kept its promise so far.
LEMMA JudgedKept ==
    ASSUME NEW N \in Nat, NEW log, DOMAIN log = 1 .. N, Len(log) = N, NamesEarlier(log),
           Len(_ordered_events(log)) = N
    PROVE  Outcome6(log).ok => Kept(log, N, Outcome6(log))
<1>1. PICK after : States(log, N, after) /\ Outcome6(log) = after[N]
  BY OutcomeUnfolds
<1>2. \A n \in 1 .. N : _ordered_events(log)[n] = n
  BY ChainInOrder
<1> DEFINE S == {n \in 0 .. N : /\ Shaped(after[n])
                                /\ after[n].ok => Kept(log, n, after[n])}
<1>3. 0 \in S
  <2>1. after[0] = Fresh
    BY <1>1 DEF States
  <2> QED
    BY <2>1, FreshKept
<1>4. ASSUME NEW n \in 0 .. N, n > 0, n - 1 \in S
      PROVE  n \in S
  <2> DEFINE m == n - 1
             st == after[m]
             t == after[n]
  <2>1. m \in Nat /\ n = m + 1 /\ n \in 1 .. N
    BY <1>4
  <2>2. t = Apply(st, log[n])
    BY <1>1, <1>2, <2>1 DEF States
  <2>3. Shaped(st) /\ (st.ok => Kept(log, m, st))
    BY <1>4
  <2> HIDE DEF m, st, t
  <2>4. Shaped(t) /\ (t.ok => st.ok /\ Effect(st, log[n], t))
    BY <2>2, <2>3, ApplyEffect
  <2>5. t.ok => Kept(log, m + 1, t)
    BY <2>1, <2>3, <2>4, KeptStep
  <2> QED
    BY <2>1, <2>4, <2>5 DEF t
<1>5. N \in S
  <2>1. \A n \in 0 .. N : n > 0 /\ n - 1 \in S => n \in S
    BY <1>4
  <2> HIDE DEF S
  <2>2. \A n \in 0 .. N : n \in S
    BY <1>3, <2>1, UpTo
  <2> QED
    BY <2>2
<1> QED
  BY <1>1, <1>5

\* The log is a sequence, and each event names one admitted before it.
SessionLog == log6 \in Seq({log6[i] : i \in DOMAIN log6}) /\ NamesEarlier(log6)

\* Events are admitted one by one, each after the one it names (SignEvent).
LEMMA SessionLogHolds == CoordinationSpec => []SessionLog
<1>1. CoordinationInit => SessionLog
  BY DEF CoordinationInit, SessionLog, NamesEarlier
<1>2. SessionLog /\ [CoordinationNext]_log6 => SessionLog'
  <2> SUFFICES ASSUME SessionLog, [CoordinationNext]_log6
               PROVE  SessionLog'
    OBVIOUS
  <2>1. ASSUME NEW e \in SessionEvent, NEW prior \in 0 .. Len(log6), SignEvent(e, prior)
        PROVE  SessionLog'
    <3> DEFINE x == Put(e, "prior", prior)
               V == {log6[i] : i \in DOMAIN log6} \cup {x}
    <3>1. x.prior = prior
      BY DEF Put
    <3> HIDE DEF x
    <3>2. log6 \in Seq(V) /\ log6' = Append(log6, x)
      BY <2>1 DEF SessionLog, SignEvent, x
    <3> HIDE DEF V
    <3>3. /\ log6' \in Seq(V) /\ Len(log6') = Len(log6) + 1 /\ log6'[Len(log6) + 1] = x
          /\ \A i \in 1 .. Len(log6) : log6'[i] = log6[i]
      BY <3>2 DEF V
    <3>4. log6' \in Seq({log6'[i] : i \in DOMAIN log6'})
      BY <3>3
    <3>5. NamesEarlier(log6')
      BY <3>1, <3>2, <3>3 DEF NamesEarlier, SessionLog
    <3> QED
      BY <3>4, <3>5 DEF SessionLog
  <2>2. CASE UNCHANGED log6
    BY <2>2 DEF SessionLog
  <2> QED
    BY <2>1, <2>2 DEF CoordinationNext
<1> QED
  BY <1>1, <1>2, PTL DEF CoordinationSpec

\* A satisfied session kept its promise (validate_coordination and _ordered_events): a
\* chain that is whole visits the events in the order they were admitted, and each
\* handler that found nothing wrong keeps what the promise needs.
THEOREM SatisfiedSessionKept == CoordinationSpec => []SatisfiedKeptPromise
<1>1. SessionLog => SatisfiedKeptPromise
  <2> SUFFICES ASSUME SessionLog, validate_coordination(log6) = "satisfied"
               PROVE  SatisfiedKeptPromise
    BY DEF SatisfiedKeptPromise
  <2> DEFINE N == Len(log6)
             st == Outcome6(log6)
  <2>1. st.ok /\ Len(_ordered_events(log6)) = N /\ st.state = "TERMINATED"
    BY DEF validate_coordination, Broken, ChainWhole
  <2>2. N \in Nat /\ DOMAIN log6 = 1 .. N
    BY DEF SessionLog
  <2>3. Kept(log6, N, st)
    BY <2>1, <2>2, JudgedKept DEF SessionLog
  <2>4. \A type : Positions(type) = Among(log6, N, type)
    BY <2>2 DEF Positions, Among
  <2> HIDE DEF N, st
  <2>5. ASSUME NEW r \in Positions("reveal")
        PROVE  /\ log6[r].at <= SessionPlan.reveal_deadline
               /\ \A x \in Positions("commit") : x < r
               /\ \E c \in Positions("commit") :
                      /\ log6[c].actor = log6[r].actor
                      /\ log6[c].commitment = <<log6[c].proposal, log6[r].actor, log6[r].artifact>>
               /\ \E v \in Positions("verification") :
                      /\ v > r /\ log6[v].artifact = log6[r].artifact /\ log6[v].status = "passed"
                      /\ \A w \in Positions("verification") :
                             w > v => log6[w].artifact # log6[v].artifact
    <3>1. RevealKept(log6, N, st, r)
      BY <2>3, <2>4 DEF Kept
    <3>2. PICK p \in DOMAIN st.reveals : st.reveals[p] = log6[r].artifact
      BY <3>1 DEF RevealKept
    <3> DEFINE a == log6[r].artifact
    <3>3. a \in DOMAIN st.verified /\ st.verified[a] = "passed"
      BY <2>1, <2>3, <3>2 DEF Kept, PhaseKept, Passed
    <3>4. PICK v \in 1 .. N : LastOf(log6, N, a, "passed", v)
      BY <2>3, <3>3 DEF Kept, VerifiedKept
    <3>5. v \in Among(log6, N, "verification") /\ r < v /\ v > r
      <4>1. v \in Among(log6, N, "verification") /\ r \in Among(log6, N, "reveal")
        BY <2>4, <3>4 DEF LastOf
      <4>2. r < v
        BY <2>3, <4>1 DEF Kept, VerifiedKept
      <4>3. r \in Nat
        BY <2>2, <4>1 DEF Among
      <4> QED
        BY <4>1, <4>2, <4>3
    <3>6. /\ log6[r].at <= SessionPlan.reveal_deadline
          /\ \A x \in Positions("commit") : x < r
          /\ \E c \in Positions("commit") :
                 /\ log6[c].actor = log6[r].actor
                 /\ log6[c].commitment = <<log6[c].proposal, log6[r].actor, log6[r].artifact>>
      BY <2>4, <3>1 DEF RevealKept
    <3> QED
      BY <2>4, <3>4, <3>5, <3>6 DEF LastOf
  <2>6. \A p \in SessionPlan.verifiers :
            Cardinality({v \in Positions("verification") : log6[v].actor = p})
                <= SessionPlan.capacity[p]
    BY <2>3, <2>4 DEF Kept, LoadKept, LoadOf
  <2>7. Cardinality(Positions("integration")) = 1
    <3>1. PICK i \in 1 .. N : Positions("integration") = {i}
      BY <2>1, <2>3, <2>4 DEF Kept, PhaseKept
    <3> QED
      BY <3>1, FS_Singleton
  <2>8. log6[Len(log6)].type = "terminate"
    BY <2>1, <2>3 DEF Kept, PhaseKept, N
  <2> QED
    BY <2>5, <2>6, <2>7, <2>8 DEF SatisfiedKeptPromise
<1> QED
  BY <1>1, SessionLogHolds, PTL

=============================================================================
