---------------------------- MODULE Structural6 ----------------------------
(***************************************************************************)
(* The bounded exact analyses of v6/structural_analysis.py over a network: *)
(* a function from transformation identifiers to transformations, each a   *)
(* record of its inputs and outputs (functions from coordinates to         *)
(* quantities), catalyst clauses, inhibitors, and required evidence and    *)
(* authority. Identifiers and coordinates are numbers, in the order the    *)
(* code sorts them. What the code returns as tuples in sorted order is a   *)
(* set here. Budgets are in Science6.                                      *)
(***************************************************************************)
EXTENDS Fractions6, Sequences, FiniteSets, FiniteSetsExt, Functions, TLC

CONSTANTS
    MaximumCoordinates,      \* 20 in the code
    MaximumTransformations,  \* 20 in the code
    MaximumEvents,           \* 4096 in the code
    MaximumFlux              \* the solver finds every sign pattern within 0..MaximumFlux

Sq == INSTANCE SequencesExt

-----------------------------------------------------------------------------
(* Flows, siphons and closures.                                            *)

_flows(t) == [consumed |-> {c \in DOMAIN t.inputs : t.inputs[c] > 0},
              produced |-> {c \in DOMAIN t.outputs : t.outputs[c] > 0}]

\* A transformation without clauses that is not declared uncatalyzed can never happen.
Catalyzed(t, available) ==
    t.uncatalyzed \/ \E k \in DOMAIN t.clauses : t.clauses[k] \subseteq available

Authorized(t, evidence, authority) == t.evidence \subseteq evidence /\ t.authority \subseteq authority

\* The candidates of a size are looked at after all smaller ones, and skipped when they
\* contain one already found.
InOrderOfSize(good, U) ==
    LET found[k \in 0..Cardinality(U)] ==
          LET before == IF k = 0 THEN {} ELSE found[k - 1]
          IN before \cup {c \in good : Cardinality(c) = k /\ \A e \in before : ~(e \subseteq c)}
    IN found[Cardinality(U)]

\* Mutant: a siphon whose producers need to consume all of it.
SiphonOfAll(S, network) ==
    \A i \in DOMAIN network :
       LET f == _flows(network[i]) IN f.produced \cap S # {} => S \subseteq f.consumed

Siphon(S, network) ==
    \A i \in DOMAIN network :
       LET f == _flows(network[i]) IN f.produced \cap S # {} => f.consumed \cap S # {}

enumerate_minimal_siphons(network, coordinates) ==
    [exhaustive |-> Cardinality(coordinates) <= MaximumCoordinates,
     values |-> IF Cardinality(coordinates) > MaximumCoordinates THEN {}
                ELSE InOrderOfSize({S \in (SUBSET coordinates) \ {{}} : Siphon(S, network)}, coordinates)]

unfed_siphons(siphons, marked, supplied) == {S \in siphons : S \cap (marked \cup supplied) = {}}

RECURSIVE structural_closure(_, _, _)
structural_closure(available, network, allowed) ==
    LET enabled == {i \in allowed : _flows(network[i]).consumed \subseteq available}
        more == available \cup UNION {_flows(network[i]).produced : i \in enabled}
    IN IF more = available THEN available ELSE structural_closure(more, network, allowed)

_raf_closure(food, identifiers, network) == structural_closure(food, network, identifiers)

\* ({},) stands for a target that is out of reach with nothing removed.
enumerate_minimal_cut_sets(initial, targets, network) ==
    LET ids == DOMAIN network
        cuts == {C \in (SUBSET ids) \ {{}} :
                   ~(targets \subseteq structural_closure(initial, network, ids \ C))}
    IN IF Cardinality(ids) > MaximumTransformations THEN [values |-> {}, exhaustive |-> FALSE]
       ELSE [exhaustive |-> TRUE,
             values |-> IF targets \subseteq structural_closure(initial, network, ids)
                        THEN InOrderOfSize(cuts, ids) ELSE {{}}]

enumerate_minimal_enablement_sets(initial, targets, network) ==
    LET ids == DOMAIN network
    IN IF Cardinality(ids) > MaximumTransformations THEN [values |-> {}, exhaustive |-> FALSE]
       ELSE [exhaustive |-> TRUE,
             values |-> InOrderOfSize(
                {E \in SUBSET ids : targets \subseteq structural_closure(initial, network, E)}, ids)]

-----------------------------------------------------------------------------
(* Reflexively autocatalytic, food-generated sets.                         *)

_is_generalized_raf(identifiers, network, closure, evidence, authority) ==
    /\ identifiers # {}
    /\ \A i \in identifiers :
          LET t == network[i]
          IN /\ _flows(t).consumed \subseteq closure
             /\ t.inhibitors \cap closure = {}
             /\ Authorized(t, evidence, authority)
             /\ Catalyzed(t, closure)

Ready(t, available, evidence, authority) ==
    /\ _flows(t).consumed \subseteq available
    /\ t.inhibitors \cap available = {}
    /\ Authorized(t, evidence, authority)
    /\ Catalyzed(t, available)

\* Strictly prior layers: what a layer produces is available to the next one only.
RECURSIVE GenerativeLayers(_, _, _, _, _, _)
GenerativeLayers(layers, available, remaining, network, evidence, authority) ==
    LET layer == {i \in remaining : Ready(network[i], available, evidence, authority)}
    IN IF layer = {} THEN [layers |-> layers, closure |-> available]
       ELSE GenerativeLayers(Append(layers, layer),
                             available \cup UNION {_flows(network[i]).produced : i \in layer},
                             remaining \ layer, network, evidence, authority)

RafResult(food, ids, whole, valid, prior) ==
    [maximal_rafs |-> {S \in valid : ~ \E R \in valid : S \subseteq R /\ S # R},
     full_set_is_raf |-> ids \in valid,
     generalized_closure |-> IF ids \in valid THEN whole ELSE food,
     generative_layers |-> prior.layers, generative_closure |-> prior.closure, exhaustive |-> TRUE]

exact_generalized_generative_raf(network, food, evidence, authority) ==
    IF Cardinality(DOMAIN network) > MaximumTransformations
    THEN [maximal_rafs |-> {}, full_set_is_raf |-> FALSE, generalized_closure |-> food,
          generative_layers |-> <<>>, generative_closure |-> food, exhaustive |-> FALSE]
    ELSE RafResult(food, DOMAIN network, _raf_closure(food, DOMAIN network, network),
                   {S \in SUBSET DOMAIN network :
                      _is_generalized_raf(S, network, _raf_closure(food, S, network), evidence, authority)},
                   GenerativeLayers(<<>>, food, DOMAIN network, network, evidence, authority))

-----------------------------------------------------------------------------
(* Arrival and service curves: sequences of points <<time, value>>. An     *)
(* instant that may be missing is a set of at most one.                    *)

curve_integrity(points) ==
    /\ points[1] = <<Whole(0), Whole(0)>>
    /\ \A k \in 2..Len(points) : Below(points[k - 1][1], points[k][1]) /\ AtMost(points[k - 1][2], points[k][2])

Last(points) == points[Len(points)]

\* The value at an instant of the line through two points.
OnLine(l, r, at) == Plus(l[2], Over(Times(Minus(r[2], l[2]), Minus(at, l[1])), Minus(r[1], l[1])))

Segment(points, k, at) == OnLine(points[k - 1], points[k], at)

_interpolate(points, at) ==
    IF Below(at, points[1][1]) \/ Below(Last(points)[1], at) THEN {}
    ELSE {Segment(points, Min({j \in 2..Len(points) : AtMost(at, points[j][1])}), at)}

\* From a start with value v, on the way to the point r.
Reaching(value, start, v, r) ==
    IF AtMost(value, v) THEN start
    ELSE Plus(start, Over(Times(Minus(value, v), Minus(r[1], start)), Minus(r[2], v)))

ReachingFrom(points, value, start, r) == {Reaching(value, start, v, r) : v \in _interpolate(points, start)}

\* The first instant from not_before on at which the curve has the value.
_inverse_crossing(points, value, not_before) ==
    LET reaching == {j \in 2..Len(points) :
                       AtMost(not_before, points[j][1]) /\ AtMost(value, points[j][2])}
    IN UNION {ReachingFrom(points, value, Most(points[k - 1][1], not_before), points[k]) :
              k \in {j \in reaching : \A i \in reaching : j <= i}}

Greatest(S) == CHOOSE x \in S : \A y \in S : AtMost(y, x)

Times6(arrival, service) == {p[1] : p \in Range(arrival) \cup Range(service)}

CandidateTimes(arrival, service) ==
    LET horizon == Least(Last(arrival)[1], Last(service)[1])
    IN {t \in Times6(arrival, service)
              \cup UNION {_inverse_crossing(arrival, p[2], Whole(0)) : p \in Range(service)} :
          AtMost(t, horizon)}

Crossing(arrival, service, t) ==
    UNION {_inverse_crossing(service, v, t) : v \in _interpolate(arrival, t)}

\* One pair of an instant and the set of its crossings for every candidate time.
CurveBounds(gaps, crossings) ==
    LET exhaustive == \A c \in crossings : c[2] # {}
    IN [backlog |-> Greatest(gaps \cup {Whole(0)}), exhaustive |-> exhaustive,
        delay |-> IF exhaustive
                  THEN {Greatest(UNION {{Minus(x, c[1]) : x \in c[2]} : c \in crossings} \cup {Whole(0)})}
                  ELSE {}]

BoundsAt(arrival, service, times) ==
    CurveBounds(UNION {{Minus(v, w) : v \in _interpolate(arrival, t), w \in _interpolate(service, t)} : t \in times},
                {<<t, Crossing(arrival, service, t)>> : t \in times})

\* The greatest vertical and horizontal distance at the candidate times.
deterministic_curve_bounds(arrival, service) ==
    BoundsAt(arrival, service, CandidateTimes(arrival, service))

-----------------------------------------------------------------------------
(* Flux coupling.                                                          *)

Quantity(f, c) == IF c \in DOMAIN f THEN f[c] ELSE 0

Coordinates(network) == UNION {DOMAIN network[i].inputs \cup DOMAIN network[i].outputs : i \in DOMAIN network}

_stoichiometric_matrix(network, ids) ==
    LET rows == Sq!SetToSortSeq(Coordinates(network), <)
    IN [r \in DOMAIN rows |-> [k \in DOMAIN ids |->
           Whole(Quantity(network[ids[k]].outputs, rows[r]) - Quantity(network[ids[k]].inputs, rows[r]))]]

\* The solver: nonnegative steady fluxes in which the one at index is positive.
Satisfiable(matrix, n, index) ==
    \E v \in [1..n -> 0..MaximumFlux] :
       /\ v[index] > 0
       /\ \A r \in DOMAIN matrix : MapThenSumSet(LAMBDA k : matrix[r][k][1] * v[k], 1..n) = 0

\* Clear a column of all rows but p, whose entry there becomes one.
Cleared(rows, p, scaled, column) ==
    [r \in DOMAIN rows |->
       IF r = p THEN scaled
       ELSE [k \in DOMAIN scaled |-> Minus(rows[r][k], Times(rows[r][column], scaled[k]))]]

Eliminated(rows, p, column) ==
    Cleared(rows, p, [k \in DOMAIN rows[p] |-> Over(rows[p][k], rows[p][column])], column)

Exchanged(rows, p, s) == [rows EXCEPT ![p] = rows[s], ![s] = rows[p]]

PivotAt(state, p, column, candidates) ==
    IF candidates = {} THEN state
    ELSE [pivots |-> Append(state.pivots, column),
          rows |-> Eliminated(Exchanged(state.rows, p, Min(candidates)), p, column)]

\* One column of the elimination: state is the rows and the pivot columns so far.
Pivot(state, column) ==
    PivotAt(state, Len(state.pivots) + 1, column,
            {r \in (Len(state.pivots) + 1)..Len(state.rows) : state.rows[r][column] # Whole(0)})

\* The solution in which the free column f is one and the other free ones are zero.
Solution(reduced, f, columns) ==
    [k \in 1..columns |->
       IF k = f THEN Whole(1)
       ELSE IF k \in Range(reduced.pivots)
            THEN Minus(Whole(0), reduced.rows[CHOOSE r \in DOMAIN reduced.pivots : reduced.pivots[r] = k][f])
            ELSE Whole(0)]

Basis(reduced, columns, free) == [b \in DOMAIN free |-> Solution(reduced, free[b], columns)]

BasisOf(reduced, columns) ==
    Basis(reduced, columns, Sq!SetToSortSeq((1..columns) \ Range(reduced.pivots), <))

_nullspace(matrix, columns) ==
    BasisOf(Sq!FoldLeft(Pivot, [rows |-> matrix, pivots |-> <<>>], [k \in 1..columns |-> k]), columns)

_proportional(left, right) ==
    LET used == {k \in DOMAIN left : left[k] # Whole(0) \/ right[k] # Whole(0)}
    IN /\ used # {}
       /\ \A k \in used : left[k] # Whole(0) /\ right[k] # Whole(0) /\ Over(left[k], right[k])[1] > 0
       /\ \A j, k \in used : Over(left[j], right[j]) = Over(left[k], right[k])

\* The classes that remain when every edge merges the classes it touches.
RECURSIVE UnionFind(_, _)
UnionFind(classes, edges) ==
    IF edges = {} THEN classes
    ELSE LET e == CHOOSE e \in edges : TRUE
             touched == {C \in classes : C \cap e # {}}
         IN UnionFind((classes \ touched) \cup {UNION touched}, edges \ {e})

\* The pairs of columns whose rows of the basis are proportional.
Coupled(basis, columns) ==
    {e \in {{j, k} : j, k \in columns} :
       Cardinality(e) = 2 /\ \A j, k \in e : j < k =>
          _proportional([b \in DOMAIN basis |-> basis[b][j]], [b \in DOMAIN basis |-> basis[b][k]])}

Coupling(ids, matrix, open) ==
    [blocked |-> Range(ids) \ {ids[k] : k \in Range(open)},
     fully_coupled_classes |->
        {{ids[open[k]] : k \in C} :
           C \in {C \in UnionFind({{k} : k \in DOMAIN open},
                     Coupled(_nullspace([r \in DOMAIN matrix |-> [k \in DOMAIN open |-> matrix[r][open[k]]]],
                                        Len(open)), DOMAIN open)) :
                    Cardinality(C) > 1}}]

Opened(ids, matrix) ==
    Sq!SetToSortSeq({k \in DOMAIN ids : Satisfiable(matrix, Len(ids), k)}, <)

CouplingOf(ids, matrix) == Coupling(ids, matrix, Opened(ids, matrix))

exact_flux_coupling(network) ==
    LET ids == Sq!SetToSortSeq(DOMAIN network, <)
    IN CouplingOf(ids, _stoichiometric_matrix(network, ids))

-----------------------------------------------------------------------------
(* The occurrence prefix of a 1-safe net. A marking is a function from the *)
(* states present to the conditions that hold them; conditions and events  *)
(* are numbered in the order they are made.                                *)

UnitFlows(network) ==
    \A i \in DOMAIN network :
       /\ \A c \in DOMAIN network[i].inputs : network[i].inputs[c] = 1
       /\ \A c \in DOMAIN network[i].outputs : network[i].outputs[c] = 1

Fires(t, marking) ==
    LET f == _flows(t)
        present == DOMAIN marking
    IN /\ f.consumed \subseteq present
       /\ t.inhibitors \cap present = {}
       /\ t.clauses = <<>> \/ Catalyzed(t, present)
       /\ f.produced \cap (present \ f.consumed) = {}

\* The event of i at a marking: its causes are the producers of what it consumes and of
\* the first clause that holds, and theirs.
EventAt(prefix, marking, i, t) ==
    LET preset == {marking[c] : c \in _flows(t).consumed}
        holding == {k \in DOMAIN t.clauses : t.clauses[k] \subseteq DOMAIN marking}
        clause == IF holding = {} THEN {} ELSE t.clauses[Min(holding)]
        direct == {prefix.conditions[b].producer : b \in preset \cup {marking[c] : c \in clause}} \ {0}
        causes == direct \cup UNION {prefix.events[e].causes : e \in direct}
    IN [transformation |-> i, preset |-> preset, causes |-> causes,
        conflicts |-> {e \in DOMAIN prefix.events :
                         prefix.events[e].preset \cap preset # {} /\ e \notin causes}]

\* Fire i at the marking at the head of the queue, unless it cannot or the prefix is full.
Extend(prefix, marking, depth, i, t) ==
    LET event == Len(prefix.events) + 1
        f == _flows(t)
        made == Sq!SetToSortSeq(f.produced, <)
        at(c) == Len(prefix.conditions) + (CHOOSE k \in DOMAIN made : made[k] = c)
        successor == [c \in (DOMAIN marking \ f.consumed) \cup f.produced |->
                        IF c \in f.produced THEN at(c) ELSE marking[c]]
        known == DOMAIN successor \in DOMAIN prefix.seen /\ prefix.seen[DOMAIN successor] <= depth + 1
    IN IF prefix.full \/ ~Fires(t, marking) THEN prefix
       ELSE IF event > MaximumEvents THEN [prefix EXCEPT !.full = TRUE, !.queue = <<>>]
       ELSE [conditions |-> prefix.conditions
                \o [k \in DOMAIN made |-> [state |-> made[k], producer |-> event]],
             events |-> Append(prefix.events, EventAt(prefix, marking, i, t)),
             cutoffs |-> IF known THEN prefix.cutoffs \cup {event} ELSE prefix.cutoffs,
             seen |-> IF known THEN prefix.seen ELSE (DOMAIN successor :> depth + 1) @@ prefix.seen,
             queue |-> IF known THEN prefix.queue ELSE Append(prefix.queue, <<successor, depth + 1>>),
             full |-> FALSE]

RECURSIVE Unfold(_, _)
Unfold(prefix, network) ==
    IF prefix.queue = <<>> THEN prefix
    ELSE LET head == Head(prefix.queue)
             ids == Sq!SetToSortSeq(DOMAIN network, <)
             Step(p, i) == Extend(p, head[1], head[2], i, network[i])
         IN Unfold(Sq!FoldLeft(Step, [prefix EXCEPT !.queue = Tail(@)], ids), network)

bounded_occurrence_prefix(initial, network) ==
    LET states == Sq!SetToSortSeq(initial, <)
        marking == [c \in initial |-> CHOOSE k \in DOMAIN states : states[k] = c]
        start == [conditions |-> [k \in DOMAIN states |-> [state |-> states[k], producer |-> 0]],
                  events |-> <<>>, cutoffs |-> {}, seen |-> initial :> 0,
                  queue |-> <<<<marking, 0>>>>, full |-> FALSE]
    IN IF UnitFlows(network) THEN Unfold(start, network) ELSE [start EXCEPT !.full = TRUE, !.conditions = <<>>]

\* Conflicts are recorded with the later event and reported with both.
InConflict(prefix, e, f) == e \in prefix.events[f].conflicts \/ f \in prefix.events[e].conflicts

-----------------------------------------------------------------------------
(* What the analyses promise, against definitions that do not enumerate as *)
(* the code does.                                                          *)

\* Everything is reachable exactly when no minimal siphon is unfed, and what is in an
\* unfed siphon is never reached.
SiphonsDecideReach(network, food) ==
    LET coordinates == Coordinates(network)
        siphons == enumerate_minimal_siphons(network, coordinates)
        unfed == unfed_siphons(siphons.values, food, {})
        reached == structural_closure(food, network, DOMAIN network)
    IN siphons.exhaustive =>
          /\ \A S \in unfed : S \cap reached = {}
          /\ unfed = {} <=> coordinates \subseteq reached

\* The minimal cut sets are the minimal sets that meet every enablement set.
CutsMeetEnablements(network, food, targets) ==
    LET enabling == enumerate_minimal_enablement_sets(food, targets, network)
        meeting == {C \in SUBSET DOMAIN network : \A E \in enabling.values : C \cap E # {}}
    IN enabling.exhaustive =>
          enumerate_minimal_cut_sets(food, targets, network).values =
             {C \in meeting : \A D \in meeting : D \subseteq C => D = C}

RafOf(network, reached, raf) ==
    raf.exhaustive =>
      /\ raf.generative_closure \subseteq reached
      /\ raf.full_set_is_raf => raf.maximal_rafs = {DOMAIN network}
      /\ (\A i \in DOMAIN network : network[i].inhibitors = {}) =>
            /\ Cardinality(raf.maximal_rafs) <= 1
            /\ UNION Range(raf.generative_layers) \subseteq UNION raf.maximal_rafs

\* Without inhibitors there is one maximal set, and it contains all generative layers;
\* with them a generated target is still in reach of the whole network.
RafsContainGenerated(network, food, evidence, authority) ==
    RafOf(network, structural_closure(food, network, DOMAIN network),
          exact_generalized_generative_raf(network, food, evidence, authority))

SteadyStates(ids, matrix) ==
    {v \in [DOMAIN ids -> 0..MaximumFlux] :
       \A r \in DOMAIN matrix : MapThenSumSet(LAMBDA k : matrix[r][k][1] * v[k], DOMAIN ids) = 0}

RatiosOf(ids, steady, coupling) ==
    \A j, k \in DOMAIN ids : j # k /\ {ids[j], ids[k]} \cap coupling.blocked = {} =>
       (\E C \in coupling.fully_coupled_classes : {ids[j], ids[k]} \subseteq C)
          <=> \A v, x \in steady : v[j] * x[k] = x[j] * v[k]

\* Two transformations are in one class exactly when their fluxes have one ratio in all
\* steady states.
CouplingIsRatio(network) ==
    LET ids == Sq!SetToSortSeq(DOMAIN network, <)
    IN RatiosOf(ids, SteadyStates(ids, _stoichiometric_matrix(network, ids)), exact_flux_coupling(network))

RECURSIVE ReachableMarkings(_, _)
ReachableMarkings(found, network) ==
    LET next == found \cup {(m \ _flows(network[i]).consumed) \cup _flows(network[i]).produced :
                   <<m, i>> \in {<<n, j>> \in found \X DOMAIN network :
                                   Fires(network[j], [c \in n |-> 0])}}
    IN IF next = found THEN found ELSE ReachableMarkings(next, network)

\* The prefix meets every reachable marking, and no event depends on two that conflict.
PrefixReachesAll(network, food) ==
    LET prefix == bounded_occurrence_prefix(food, network)
    IN ~prefix.full =>
          /\ DOMAIN prefix.seen = ReachableMarkings({food}, network)
          /\ \A e \in DOMAIN prefix.events :
                \A f, g \in prefix.events[e].causes \cup {e} : ~InConflict(prefix, f, g)
=============================================================================
