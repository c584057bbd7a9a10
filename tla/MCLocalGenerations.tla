------------------------- MODULE MCLocalGenerations -------------------------
(***************************************************************************)
(* Instance of the file store and of run_process, which share nothing: a   *)
(* behaviour is in one of two suites.  store: the founding change and two  *)
(* commands of which the second uses an object of the first, or two that   *)
(* would add the same object.  process: one child that may leave one       *)
(* descendant, more output than the pipe, a block or the limit holds.      *)
(***************************************************************************)
EXTENDS LocalGenerations, Process5, TLC

CONSTANTS found, left, right, twin, o1, o2, o3

VARIABLE suite

MCObjects == (found :> {o1}) @@ (left :> {o2}) @@ (right :> {o2, o3}) @@ (twin :> {o3})
MCSources == (found :> {}) @@ (left :> {o1}) @@ (right :> {o2}) @@ (twin :> {o2})

MCCaptureLimit == [stdout |-> 1, stderr |-> 1]
MCMaxOutput == [stdout |-> 3, stderr |-> 1]

MCInit == Init /\ InitProcess /\ suite \in {"store", "process"}

MCNext ==
    /\ UNCHANGED suite
    /\ \/ suite = "store" /\ Next /\ UNCHANGED processVars
       \/ suite = "process" /\ NextProcess /\ UNCHANGED vars

MCSpec ==
    /\ MCInit /\ [][MCNext]_<<vars, processVars, suite>>
    /\ \A p \in Process : WF_vars(Step(p))
    /\ FairProcess

\* A command on the workspace comes to its end (CommandsEnd), and so does the run of an
\* adapter unless a descendant the kill does not reach holds its output open (RunEnds).
LocalEnds == CommandsEnd /\ RunEnds
=============================================================================
