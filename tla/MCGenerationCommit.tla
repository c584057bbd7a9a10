------------------------- MODULE MCGenerationCommit -------------------------
(***************************************************************************)
(* Small instances of GenerationCommit for TLC: two workspaces of a        *)
(* tenant, the events e1..e6 and one document x that both may list.        *)
(***************************************************************************)
EXTENDS GenerationCommit, TLC

CONSTANTS w, v, x, e1, e2, e3, e4, e5, e6, Event, Doc, w0, v0, g1, g2, g3, g4, g5, g6,
          h1,
          k1, k2, k3, r1, r2, r3, c1, c2

Mut(ws, from, to, n, event, before, entries, admitted, key, request) ==
    [workspace |-> ws, expected |-> from, prior |-> from, digest |-> to,
     sequence |-> n, head |-> event, prior_event |-> before, ledger |-> entries,
     admissions |-> admitted, additions |-> {}, resolutions |-> {}, topic |-> TRUE,
     key |-> key, request |-> request, valid |-> TRUE]

Kinds == [o \in Object |-> IF o = x THEN Doc ELSE Event]

GenesisOf == [u \in Workspace |-> IF u = w THEN w0 ELSE v0]

Ev(S) == S \X {Event}

D == {<<x, Doc>>}

\* Two first generations of w.  Again and Rebased retry the request of First on
\* the new base: after its acknowledgement was lost, and after it lost the race.
First == Mut(w, w0, g1, 1, e1, None, Ev({e1}) \cup D, Ev({e1}) \cup D, k1, r1)
Rival == [Mut(w, w0, g2, 1, e2, None, Ev({e2}) \cup D, Ev({e2}) \cup D, k2, r2)
            EXCEPT !.topic = FALSE]
Again == Mut(w, g1, g3, 2, e3, e1, Ev({e1, e3}), Ev({e3}), k1, r1)
Rebased == Mut(w, g2, g4, 2, e4, e2, Ev({e2, e4}), Ev({e4}), k1, r1)

Second == Mut(w, g1, g3, 2, e3, e1, Ev({e1, e3}) \cup D, Ev({e3}), k3, r3)

Third == Mut(w, g3, g2, 3, e2, e3, Ev({e2}) \cup D, Ev({e2}), k2, r2)

\* Another workspace that lists x without admitting it, under a used key.
Other == Mut(v, v0, h1, 1, e4, None, Ev({e4}) \cup D, Ev({e4}), k3, r1)

\* Mutations a check of the unit of work refuses.
Restarted == Mut(w, g1, g5, 2, e5, None, Ev({e5}), Ev({e5}), k2, r3)
Skipped == Mut(w, g1, g4, 3, e6, e1, Ev({e1, e6}), Ev({e6}), k2, r3)
AsRaw == Mut(w, g1, g6, 2, e6, e1, Ev({e1, e6}) \cup {<<x, Raw>>},
             Ev({e6}) \cup {<<x, Raw>>}, k2, r3)

Racing == {First, Rival, Again, Rebased, [Restarted EXCEPT !.key = k1]}

\* On w, x is quarantined by the first generation, released by the second and
\* quarantined again by the third.
Shared == {[First EXCEPT !.additions = {x}], [Second EXCEPT !.resolutions = {x}],
           [Third EXCEPT !.additions = {x}], Other, Restarted, Skipped, AsRaw}

Events == {e1, e2, e3, e4, e5, e6}

AllObjects == Events \cup {x}

CallerSymmetry == Permutations(Caller)
=============================================================================
