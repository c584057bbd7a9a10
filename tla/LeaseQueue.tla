----------------------------- MODULE LeaseQueue -----------------------------
(***************************************************************************)
(* What the runner gateway promises about a task, with registrations,      *)
(* idempotency, uploads and receipts left out: a task waits, is held by    *)
(* one principal until an instant fixed when it was handed out, and is     *)
(* finished once, by its holder, in time.  It passes to another holder     *)
(* only after that instant.                                                *)
(***************************************************************************)
EXTENDS Integers

CONSTANTS Item, Holder, NoHolder

VARIABLES clock, items

vars == <<clock, items>>

Phase == {"absent", "waiting", "held", "finished"}

Absent == [phase |-> "absent", holder |-> NoHolder, until |-> -1, round |-> 0]

Init ==
    /\ clock = 0
    /\ items = [i \in Item |-> Absent]

\* The previous holder, if there was one, can no longer finish the item.
Free(i) ==
    \/ items[i].phase = "waiting"
    \/ items[i].phase = "held" /\ items[i].until < clock

Advance == clock' = clock + 1 /\ UNCHANGED items

Add(i) ==
    /\ items[i].phase = "absent"
    /\ items' = [items EXCEPT ![i] = [Absent EXCEPT !.phase = "waiting"]]
    /\ UNCHANGED clock

Hand(i, h) ==
    /\ Free(i)
    /\ \E u \in clock..(clock + 300) :
          items' = [items EXCEPT ![i] = [phase |-> "held", holder |-> h, until |-> u,
                                         round |-> items[i].round + 1]]
    /\ UNCHANGED clock

\* A free item goes back to waiting without having been handed out.
Withdraw(i) ==
    /\ Free(i)
    /\ items' = [items EXCEPT ![i] = [phase |-> "waiting", holder |-> NoHolder,
                                      until |-> -1, round |-> items[i].round]]
    /\ UNCHANGED clock

Finish(i) ==
    /\ items[i].phase = "held"
    /\ clock <= items[i].until
    /\ items' = [items EXCEPT ![i].phase = "finished"]
    /\ UNCHANGED clock

Next ==
    \/ Advance
    \/ \E i \in Item : Add(i) \/ Withdraw(i) \/ Finish(i) \/ \E h \in Holder : Hand(i, h)

Spec == Init /\ [][Next]_vars
=============================================================================
