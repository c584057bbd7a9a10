------------------------------ MODULE Process5 ------------------------------
(***************************************************************************)
(* run_process of process.py on POSIX, as run_action_v5 calls it: with     *)
(* nothing to write to standard input.  The caller starts the child and    *)
(* two reader threads, waits with a timeout, kills the process group,      *)
(* joins the readers for a bounded time and reports what they have.        *)
(*                                                                         *)
(* The child is arbitrary: it writes, closes its streams, exits, or leaves *)
(* a descendant behind, in its process group (kin) or out of it (stray).   *)
(* A byte is modelled by its place in the stream.                          *)
(***************************************************************************)
EXTENDS Integers, Sequences, FiniteSets

CONSTANTS
    CaptureLimit,   \* CaptureLimit[s]: stdout_limit, stderr_limit
    BlockSize,      \* how much a reader asks for at once
    PipeSize,       \* what the pipe holds
    MaxOutput,      \* bound: MaxOutput[s], the bytes written to a stream
    MaxDescendants  \* bound: the processes the child leaves behind

VARIABLES
    writers,    \* the child and its descendants, with the streams they hold open
    written,    \* the bytes written to each stream so far
    pipe,       \* those no reader has taken yet
    readers,    \* the reader threads
    kept,       \* per stream, what the readers recorded: captured, totals, hashes
    main        \* the caller and the report it makes

processVars == <<writers, written, pipe, readers, kept, main>>

Stream == {"stdout", "stderr"}

ASSUME ProcessAssumption ==
    /\ CaptureLimit \in [Stream -> Nat] /\ MaxOutput \in [Stream -> Nat]
    /\ BlockSize \in Nat \ {0} /\ PipeSize \in Nat \ {0} /\ MaxDescendants \in Nat

Group == {"child", "kin"}
Writer == Group \cup {"stray"}

Unborn == [state |-> "unborn", holds |-> {}]
Running == [state |-> "alive", holds |-> Stream]
Dead == [state |-> "dead", holds |-> {}]

InitProcess ==
    /\ writers = [w \in Writer |-> Unborn]
    /\ written = [s \in Stream |-> 0]
    /\ pipe = [s \in Stream |-> <<>>]
    /\ readers = [s \in Stream |-> [pc |-> "unborn", block |-> <<>>]]
    /\ kept = [s \in Stream |-> [captured |-> <<>>, totals |-> 0, hashes |-> <<>>]]
    /\ main = [pc |-> "start", timed_out |-> FALSE, exit |-> "none", drain |-> "none",
               closed |-> {}, captured |-> <<>>, truncated |-> <<>>, report |-> <<>>]

\* Popen in a session of its own, the reader threads, standard input closed.
Start ==
    /\ main.pc = "start"
    /\ main' = [main EXCEPT !.pc = "wait"]
    /\ writers' = [writers EXCEPT !["child"] = Running]
    /\ readers' = [s \in Stream |-> [pc |-> "read", block |-> <<>>]]
    /\ UNCHANGED <<written, pipe, kept>>

-----------------------------------------------------------------------------
Alive(w) == writers[w].state = "alive"

Writes(w, s) ==
    /\ s \in writers[w].holds
    /\ written[s] < MaxOutput[s]
    /\ Len(pipe[s]) < PipeSize
    /\ written' = [written EXCEPT ![s] = @ + 1]
    /\ pipe' = [pipe EXCEPT ![s] = Append(@, written[s] + 1)]
    /\ UNCHANGED <<writers, readers, kept, main>>

Closes(w, s) ==
    /\ s \in writers[w].holds
    /\ writers' = [writers EXCEPT ![w].holds = @ \ {s}]
    /\ UNCHANGED <<written, pipe, readers, kept, main>>

Spawns(w) ==
    /\ Alive("child") /\ writers[w].state = "unborn"
    /\ Cardinality({v \in Writer \ {"child"} : writers[v].state # "unborn"}) < MaxDescendants
    /\ writers' = [writers EXCEPT ![w] = writers["child"]]
    /\ UNCHANGED <<written, pipe, readers, kept, main>>

Exits(w, status) ==
    /\ Alive(w)
    /\ w = "child" <=> status # "none"
    /\ writers' = [writers EXCEPT ![w] = Dead]
    /\ main' = [main EXCEPT !.exit = IF w = "child" THEN status ELSE @]
    /\ UNCHANGED <<written, pipe, readers, kept>>

-----------------------------------------------------------------------------
\* drain: BufferedReader.read returns a whole block, or less at the end of the stream;
\* the thread holds the lock of the stream until then.
EndOfStream(s) == pipe[s] = <<>> /\ \A w \in Writer : s \notin writers[w].holds

TakeByte(s) ==
    /\ readers[s].pc = "read" /\ s \notin main.closed
    /\ Len(readers[s].block) < BlockSize /\ pipe[s] # <<>>
    /\ readers' = [readers EXCEPT ![s].block = Append(@, Head(pipe[s]))]
    /\ pipe' = [pipe EXCEPT ![s] = Tail(@)]
    /\ UNCHANGED <<writers, written, kept, main>>

ReadReturns(s) ==
    /\ readers[s].pc = "read" /\ s \notin main.closed
    /\ Len(readers[s].block) = BlockSize \/ EndOfStream(s)
    /\ readers' = [readers EXCEPT ![s].pc = IF readers[s].block = <<>> THEN "ended" ELSE "count"]
    /\ UNCHANGED <<writers, written, pipe, kept, main>>

\* The stream was closed under the thread: it dies of the exception.
ReadFails(s) ==
    /\ readers[s].pc = "read" /\ s \in main.closed
    /\ readers' = [readers EXCEPT ![s].pc = "ended"]
    /\ UNCHANGED <<writers, written, pipe, kept, main>>

Count(s) ==
    /\ readers[s].pc = "count"
    /\ kept' = [kept EXCEPT ![s].totals = @ + Len(readers[s].block)]
    /\ readers' = [readers EXCEPT ![s].pc = "hash"]
    /\ UNCHANGED <<writers, written, pipe, main>>

Hash(s) ==
    /\ readers[s].pc = "hash"
    /\ kept' = [kept EXCEPT ![s].hashes = @ \o readers[s].block]
    /\ readers' = [readers EXCEPT ![s].pc = "keep"]
    /\ UNCHANGED <<writers, written, pipe, main>>

Smaller(a, b) == IF a < b THEN a ELSE b

\* Mutant: a block is kept whole or not at all.
KeepBlock(s) ==
    LET remaining == CaptureLimit[s] - Len(kept[s].captured)
    IN /\ readers[s].pc = "keep"
       /\ kept' = [kept EXCEPT ![s].captured =
                      IF remaining > 0 THEN @ \o readers[s].block ELSE @]
       /\ readers' = [readers EXCEPT ![s] = [pc |-> "read", block |-> <<>>]]
       /\ UNCHANGED <<writers, written, pipe, main>>

Keep(s) ==
    LET remaining == CaptureLimit[s] - Len(kept[s].captured)
        block == readers[s].block
    IN /\ readers[s].pc = "keep"
       /\ kept' = [kept EXCEPT ![s].captured =
                      @ \o SubSeq(block, 1, Smaller(remaining, Len(block)))]
       /\ readers' = [readers EXCEPT ![s] = [pc |-> "read", block |-> <<>>]]
       /\ UNCHANGED <<writers, written, pipe, main>>

ReaderStep(s) == TakeByte(s) \/ ReadReturns(s) \/ ReadFails(s) \/ Count(s) \/ Hash(s) \/ Keep(s)

-----------------------------------------------------------------------------
Onward(pc) == main' = [main EXCEPT !.pc = pc] /\ UNCHANGED <<writers, written, pipe, readers, kept>>

ChildDone == main.pc = "wait" /\ ~Alive("child") /\ Onward("join_stdout")

TimesOut ==
    /\ main.pc = "wait" /\ Alive("child")
    /\ main' = [main EXCEPT !.pc = "kill", !.timed_out = TRUE]
    /\ UNCHANGED <<writers, written, pipe, readers, kept>>

\* Mutant: only the child is killed.
KillChild ==
    /\ main.pc = "kill"
    /\ writers' = [writers EXCEPT !["child"] = Dead]
    /\ main' = [main EXCEPT !.pc = "join_stdout",
                            !.exit = IF Alive("child") THEN "killed" ELSE @]
    /\ UNCHANGED <<written, pipe, readers, kept>>

\* killpg, and process.wait.
KillGroup ==
    /\ main.pc = "kill"
    /\ writers' = [w \in Writer |-> IF w \in Group /\ Alive(w) THEN Dead ELSE writers[w]]
    /\ main' = [main EXCEPT !.pc = "join_stdout",
                            !.exit = IF Alive("child") THEN "killed" ELSE @]
    /\ UNCHANGED <<written, pipe, readers, kept>>

Ended(s) == readers[s].pc = "ended"

\* A join returns when the thread has ended or after five seconds.
JoinStdout == main.pc = "join_stdout" /\ Onward("join_stderr")
JoinStderr == main.pc = "join_stderr" /\ Onward("drained")

CheckDrained ==
    /\ main.pc = "drained"
    /\ main' = [main EXCEPT
                  !.drain = IF \A s \in Stream : Ended(s) THEN "complete" ELSE "incomplete",
                  !.pc = IF \A s \in Stream : Ended(s) THEN "capture" ELSE "close_stdout"]
    /\ UNCHANGED <<writers, written, pipe, readers, kept>>

\* Closing a stream needs its lock, which a thread inside read does not give up.
CloseStream(s, pc) ==
    /\ readers[s].pc # "read"
    /\ main' = [main EXCEPT !.pc = pc, !.closed = @ \cup {s}]
    /\ UNCHANGED <<writers, written, pipe, readers, kept>>

CloseStdout == main.pc = "close_stdout" /\ CloseStream("stdout", "close_stderr")
CloseStderr == main.pc = "close_stderr" /\ CloseStream("stderr", "capture")

\* The report is put together while a reader may still be recording its last block.
Capture ==
    /\ main.pc = "capture"
    /\ main' = [main EXCEPT !.pc = "truncate",
                            !.captured = [s \in Stream |-> kept[s].captured]]
    /\ UNCHANGED <<writers, written, pipe, readers, kept>>

Truncate ==
    /\ main.pc = "truncate"
    /\ main' = [main EXCEPT !.pc = "report",
                            !.truncated = [s \in Stream |-> kept[s].totals > CaptureLimit[s]]]
    /\ UNCHANGED <<writers, written, pipe, readers, kept>>

Report ==
    /\ main.pc = "report"
    /\ main' = [main EXCEPT !.pc = "returned",
                   !.report = [s \in Stream |-> [total |-> kept[s].totals,
                                                 digest |-> kept[s].hashes]]]
    /\ UNCHANGED <<writers, written, pipe, readers, kept>>

MainStep == ChildDone \/ TimesOut \/ KillGroup \/ JoinStdout \/ JoinStderr \/ CheckDrained
            \/ CloseStdout \/ CloseStderr \/ Capture \/ Truncate \/ Report

ChildStep ==
    \/ \E w \in Writer, s \in Stream : Writes(w, s) \/ Closes(w, s)
    \/ \E w \in Writer \ {"child"} : Spawns(w)
    \/ \E w \in Writer, status \in {"none", "zero", "other"} : Exits(w, status)

NextProcess == Start \/ ChildStep \/ (\E s \in Stream : ReaderStep(s)) \/ MainStep

ProcessSpec == InitProcess /\ [][NextProcess]_processVars

\* Threads and the clock of the caller go on; the child owes nothing.
FairProcess == (\A s \in Stream : WF_processVars(ReaderStep(s))) /\ WF_processVars(MainStep)

-----------------------------------------------------------------------------
\* What run_action_v5 asks of the report before it reads the output as a document.
Usable ==
    /\ main.pc = "returned"
    /\ main.exit = "zero" /\ ~main.timed_out /\ ~main.truncated["stdout"]
    /\ main.drain = "complete"

\* A report that says the streams were drained is exact, however the threads raced and
\* whoever was killed: totals and digests are those of everything anyone wrote, what is
\* captured is its beginning, up to the limit; a usable output is the whole of it.  The
\* readers never retain more than the limit.
CaptureExact ==
    /\ \A s \in Stream : Len(kept[s].captured) <= CaptureLimit[s]
    /\ main.pc = "returned" /\ main.drain = "complete" =>
           \A s \in Stream :
               /\ main.report[s].total = written[s]
               /\ main.report[s].digest = [i \in 1..written[s] |-> i]
               /\ main.captured[s] = [i \in 1..Smaller(written[s], CaptureLimit[s]) |-> i]
               /\ main.truncated[s] <=> written[s] > CaptureLimit[s]
    /\ Usable => main.captured["stdout"] = [i \in 1..written["stdout"] |-> i]

\* A descendant that outlives the child, and the kill if there was one, with a stream open.
Survivor ==
    \E w \in Writer \ {"child"} :
        writers[w].holds # {} /\ (w \in Group => ~main.timed_out)

\* run_process returns though the child may block or never exit: only a descendant the
\* kill does not reach, holding an output stream for ever, can keep it waiting.
RunEnds == <>[]~Survivor => (main.pc = "wait" ~> main.pc = "returned")
=============================================================================
