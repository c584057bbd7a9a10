---------------------------- MODULE GenerationLog ----------------------------
(***************************************************************************)
(* What a generation repository promises: MemoryGenerationRepository, the  *)
(* reference of collective_phase_control_fabric/v6/storage.py, with the    *)
(* states it replaced kept.  A workspace is a log of generation digests    *)
(* that grows by compare-and-append.                                       *)
(***************************************************************************)
EXTENDS Integers, Sequences

CONSTANTS
    Workspace,
    Genesis,    \* Genesis[w]: digest of the state w is created with
    Document    \* <<workspace, prior digest, digest>> of the generations one may commit

VARIABLE log    \* log[w]: <<>> until w exists, then its genesis and generations

Init == log = [w \in Workspace |-> <<>>]

Create(w) ==
    /\ log[w] = <<>>
    /\ log' = [log EXCEPT ![w] = <<Genesis[w]>>]

\* The document names the last generation as the one it follows.
CompareAndAppend(w, prior, digest) ==
    /\ log[w] # <<>>
    /\ log[w][Len(log[w])] = prior
    /\ log' = [log EXCEPT ![w] = Append(@, digest)]

Next ==
    \/ \E w \in Workspace : Create(w)
    \/ \E d \in Document : CompareAndAppend(d[1], d[2], d[3])

Spec == Init /\ [][Next]_log
=============================================================================
