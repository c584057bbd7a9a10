-------------------------- MODULE Process5_proofs --------------------------
(***************************************************************************)
(* What run_process reports of an adapter's output, for every limit, block *)
(* and pipe size and every number of bytes and descendants.                *)
(*                                                                         *)
(* CaptureExact speaks of the end; on the way a byte is in the pipe, in    *)
(* the block a reader holds, or recorded, and while it is being recorded   *)
(* totals, hashes and captured disagree by one block.  InPlace says        *)
(* exactly where every byte is at each of the reader's steps; the rest of  *)
(* the invariant says when a reader may have ended without reading all,    *)
(* and that the caller then knows.                                         *)
(***************************************************************************)
EXTENDS Process5, SequenceTheorems, TLAPS

(***************************************************************************)
(* Consecutive places of a stream.                                         *)
(***************************************************************************)
\* The bytes after place a, up to place b.
Places(a, b) == [i \in 1..(b - a) |-> a + i]

(* Consecutive places are a sequence. *)
LEMMA PlacesType ==
    ASSUME NEW a \in Nat, NEW b \in Nat, a <= b
    PROVE  /\ Places(a, b) \in Seq(Nat)
           /\ Len(Places(a, b)) = b - a
           /\ \A i \in 1..(b - a) : Places(a, b)[i] = a + i
<1>1. b - a \in Nat
  OBVIOUS
<1>2. \A i \in 1..(b - a) : a + i \in Nat
  OBVIOUS
<1> QED
  BY <1>1, <1>2 DEF Places

(* A sequence that holds consecutive places is determined by them. *)
LEMMA PlacesAre ==
    ASSUME NEW a \in Nat, NEW b \in Nat, a <= b, NEW q \in Seq(Nat), Len(q) = b - a,
           \A i \in 1..(b - a) : q[i] = a + i
    PROVE  q = Places(a, b)
<1> DEFINE r == Places(a, b)
<1>1. r \in Seq(Nat) /\ Len(r) = b - a /\ \A i \in 1..(b - a) : r[i] = a + i
  BY PlacesType
<1> HIDE DEF r
<1>2. Len(q) = Len(r) /\ \A i \in 1..Len(q) : q[i] = r[i]
  BY <1>1
<1>3. q = r
  BY <1>1, <1>2, SeqEqual
<1> QED
  BY <1>3 DEF r

(* No places, no bytes. *)
LEMMA PlacesEmpty ==
    ASSUME NEW a \in Nat, NEW b \in Nat, a <= b
    PROVE  Places(a, b) = <<>> <=> a = b
<1>1. ASSUME a = b PROVE Places(a, b) = <<>>
  <2>1. <<>> \in Seq(Nat) /\ Len(<<>>) = 0
    BY EmptySeq
  <2> QED
    BY <1>1, <2>1, PlacesType, SeqEqual
<1>2. ASSUME Places(a, b) = <<>> PROVE a = b
  BY <1>2, PlacesType
<1> QED
  BY <1>1, <1>2

(* A byte that is written comes after all the others. *)
LEMMA PlacesAppend ==
    ASSUME NEW a \in Nat, NEW b \in Nat, a <= b
    PROVE  Append(Places(a, b), b + 1) = Places(a, b + 1)
<1> DEFINE p == Places(a, b)
           q == Append(p, b + 1)
<1>1. p \in Seq(Nat) /\ Len(p) = b - a /\ \A i \in 1..(b - a) : p[i] = a + i
  BY PlacesType
<1> HIDE DEF p
<1>2. b + 1 \in Nat
  OBVIOUS
<1>3. /\ q \in Seq(Nat) /\ Len(q) = Len(p) + 1
      /\ \A i \in 1..Len(p) : q[i] = p[i]
      /\ q[Len(p) + 1] = b + 1
  BY <1>1, <1>2, AppendProperties
<1> HIDE DEF q
<1>4. ASSUME NEW i \in 1..((b + 1) - a) PROVE q[i] = a + i
  <2>1. CASE i \in 1..(b - a)
    BY <1>1, <1>3, <2>1
  <2>2. CASE i = Len(p) + 1
    <3>1. q[i] = b + 1
      BY <1>3, <2>2
    <3>2. a + i = b + 1
      BY <1>1, <2>2
    <3> QED
      BY <3>1, <3>2
  <2>3. i \in 1..(b - a) \/ i = Len(p) + 1
    BY <1>1
  <2> QED
    BY <2>1, <2>2, <2>3
<1>5. Len(q) = (b + 1) - a /\ a <= b + 1
  BY <1>1, <1>3
<1>6. q = Places(a, b + 1)
  BY <1>2, <1>3, <1>4, <1>5, PlacesAre
<1> QED
  BY <1>6 DEF q, p

(* The byte that is taken is the first of those that wait. *)
LEMMA PlacesTail ==
    ASSUME NEW a \in Nat, NEW b \in Nat, a < b
    PROVE  Head(Places(a, b)) = a + 1 /\ Tail(Places(a, b)) = Places(a + 1, b)
<1> DEFINE q == Places(a, b)
<1>1. /\ q \in Seq(Nat) /\ Len(q) = b - a /\ q # <<>>
      /\ \A i \in 1..(b - a) : q[i] = a + i
  BY PlacesType, PlacesEmpty
<1> HIDE DEF q
<1>2. /\ Tail(q) \in Seq(Nat) /\ Len(Tail(q)) = b - (a + 1)
      /\ \A i \in 1..(b - (a + 1)) : Tail(q)[i] = q[i + 1]
      /\ Head(q) = q[1]
  BY <1>1, HeadTailProperties
<1>3. ASSUME NEW i \in 1..(b - (a + 1)) PROVE Tail(q)[i] = (a + 1) + i
  <2>1. i + 1 \in 1..(b - a) /\ Tail(q)[i] = q[i + 1]
    BY <1>2
  <2> QED
    BY <1>1, <2>1
<1>4. Tail(q) = Places(a + 1, b)
  <2>1. a + 1 \in Nat /\ a + 1 <= b
    OBVIOUS
  <2> QED
    BY <1>2, <1>3, <2>1, PlacesAre
<1> QED
  BY <1>1, <1>2, <1>4 DEF q

(* One block after the other. *)
LEMMA PlacesConcat ==
    ASSUME NEW a \in Nat, NEW b \in Nat, NEW c \in Nat, a <= b, b <= c
    PROVE  Places(a, b) \o Places(b, c) = Places(a, c)
<1> DEFINE p == Places(a, b)
           q == Places(b, c)
<1>1. /\ p \in Seq(Nat) /\ Len(p) = b - a /\ \A i \in 1..(b - a) : p[i] = a + i
      /\ q \in Seq(Nat) /\ Len(q) = c - b /\ \A i \in 1..(c - b) : q[i] = b + i
  BY PlacesType
<1> HIDE DEF p, q
<1>2. /\ p \o q \in Seq(Nat) /\ Len(p \o q) = Len(p) + Len(q)
      /\ \A i \in 1..(Len(p) + Len(q)) :
            (p \o q)[i] = IF i <= Len(p) THEN p[i] ELSE q[i - Len(p)]
  BY <1>1, ConcatProperties
<1> DEFINE r == p \o q
<1> HIDE DEF r
<1>3. ASSUME NEW i \in 1..(c - a) PROVE r[i] = a + i
  <2>1. r[i] = IF i <= Len(p) THEN p[i] ELSE q[i - Len(p)]
    BY <1>1, <1>2, SMTT(30) DEF r
  <2>2. CASE i <= Len(p)
    BY <1>1, <2>1, <2>2
  <2>3. CASE i > Len(p)
    <3>1. i - Len(p) \in 1..(c - b)
      BY <1>1, <2>3
    <3> QED
      BY <1>1, <2>1, <2>3, <3>1
  <2> QED
    BY <1>1, <2>2, <2>3
<1>4. r \in Seq(Nat) /\ Len(r) = c - a /\ a <= c
  BY <1>1, <1>2 DEF r
<1>5. r = Places(a, c)
  BY <1>3, <1>4, PlacesAre
<1> QED
  BY <1>5 DEF r, p, q

(* The beginning of a block. *)
LEMMA PlacesPrefix ==
    ASSUME NEW a \in Nat, NEW b \in Nat, NEW n \in Nat, a + n <= b
    PROVE  SubSeq(Places(a, b), 1, n) = Places(a, a + n)
<1> DEFINE q == Places(a, b)
<1>1. q \in Seq(Nat) /\ Len(q) = b - a /\ \A i \in 1..(b - a) : q[i] = a + i
  BY PlacesType
<1> HIDE DEF q
<1> DEFINE r == SubSeq(q, 1, n)
<1>2. \A i \in 1..n : q[i] \in Nat /\ q[i] = a + i
  BY <1>1
<1>3. /\ r \in Seq(Nat) /\ Len(r) = IF 1 <= n THEN n - 1 + 1 ELSE 0
      /\ \A i \in 1..(n - 1 + 1) : r[i] = q[1 + i - 1]
  BY <1>2, SubSeqProperties
<1> HIDE DEF r
<1>4. ASSUME NEW i \in 1..n PROVE r[i] = a + i
  <2>1. i \in 1..(n - 1 + 1) /\ 1 + i - 1 = i
    OBVIOUS
  <2> QED
    BY <1>2, <1>3, <2>1
<1>5. Len(r) = (a + n) - a /\ a + n \in Nat /\ a <= a + n /\ 1..((a + n) - a) = 1..n
  BY <1>3
<1>6. r = Places(a, a + n)
  BY <1>3, <1>4, <1>5, PlacesAre
<1> QED
  BY <1>6 DEF r, q

(***************************************************************************)
(* The invariant.                                                          *)
(***************************************************************************)
Recorded == [captured: Seq(Nat), totals: Nat, hashes: Seq(Nat)]
Reader == [pc: {"unborn", "read", "count", "hash", "keep", "ended"}, block: Seq(Nat)]
Undrained == {"start", "wait", "kill", "join_stdout", "join_stderr", "drained"}
Caller == [pc: Undrained \cup {"close_stdout", "close_stderr", "capture", "truncate",
                               "report", "returned"},
           timed_out: BOOLEAN, exit: {"none", "zero", "other", "killed"},
           drain: {"none", "complete", "incomplete"}, closed: SUBSET Stream,
           captured: {<<>>} \cup [Stream -> Seq(Nat)],
           truncated: {<<>>} \cup [Stream -> BOOLEAN],
           report: {<<>>} \cup [Stream -> [total: Nat, digest: Seq(Nat)]]]

ProcessTyped ==
    /\ writers \in [Writer -> [state: {"unborn", "alive", "dead"}, holds: SUBSET Stream]]
    /\ written \in [Stream -> Nat]
    /\ pipe \in [Stream -> Seq(Nat)]
    /\ readers \in [Stream -> Reader]
    /\ kept \in [Stream -> Recorded]
    /\ main \in Caller

\* Where the bytes of a stream are: recorded up to d, in the block up to t, the rest in
\* the pipe.
At(s, d, t) ==
    /\ d <= t /\ t <= written[s]
    /\ pipe[s] = Places(t, written[s])
    /\ readers[s].block = Places(d, t)
    /\ kept[s].totals = IF readers[s].pc \in {"hash", "keep"} THEN t ELSE d
    /\ kept[s].hashes = Places(0, IF readers[s].pc = "keep" THEN t ELSE d)
    /\ kept[s].captured = Places(0, Smaller(d, CaptureLimit[s]))

InPlace(s) == \E d, t \in 0..written[s] : At(s, d, t)

\* A reader that has ended has seen the end of its stream, or had it closed under it.
EndedWell(s) ==
    /\ readers[s].pc = "unborn" => readers[s].block = <<>>
    /\ Ended(s) => s \in main.closed \/ (readers[s].block = <<>> /\ EndOfStream(s))

\* What the caller knows of the readers, and what it has taken over from them.
CallerInOrder ==
    /\ main.pc = "start" => \A s \in Stream : readers[s].pc = "unborn"
    /\ main.pc \in Undrained <=> main.drain = "none"
    /\ main.pc \in {"close_stdout", "close_stderr"} => main.drain = "incomplete"
    /\ main.drain # "incomplete" => main.closed = {}
    /\ main.drain = "complete" =>
           \A s \in Stream :
               /\ Ended(s)
               /\ main.pc # "capture" => main.captured[s] = kept[s].captured
               /\ main.pc \in {"report", "returned"} =>
                      main.truncated[s] = (kept[s].totals > CaptureLimit[s])
               /\ main.pc = "returned" =>
                      /\ main.report[s].total = kept[s].totals
                      /\ main.report[s].digest = kept[s].hashes

ProcessInvariant ==
    /\ ProcessTyped
    /\ \A s \in Stream : InPlace(s) /\ EndedWell(s)
    /\ CallerInOrder

(* Before the child is started nothing is anywhere. *)
LEMMA ProcessInit == InitProcess => ProcessInvariant
<1> SUFFICES ASSUME InitProcess PROVE ProcessInvariant
  OBVIOUS
<1>1. <<>> \in Seq(Nat)
  OBVIOUS
<1>2. ProcessTyped
  BY <1>1 DEF InitProcess, ProcessTyped, Recorded, Reader, Caller, Undrained, Unborn
<1>3. ASSUME NEW s \in Stream PROVE InPlace(s) /\ EndedWell(s)
  <2>1. Places(0, 0) = <<>>
    BY PlacesEmpty
  <2>2. Smaller(0, CaptureLimit[s]) = 0
    BY ProcessAssumption DEF Smaller
  <2>3. At(s, 0, 0)
    BY <2>1, <2>2 DEF InitProcess, At
  <2>4. InPlace(s)
    BY <2>3 DEF InitProcess, InPlace
  <2> QED
    BY <2>4 DEF InitProcess, EndedWell, Ended
<1>4. CallerInOrder
  BY DEF InitProcess, CallerInOrder, Undrained
<1> QED
  BY <1>2, <1>3, <1>4 DEF ProcessInvariant

(***************************************************************************)
(* Steps.                                                                  *)
(***************************************************************************)
(* What is known of one stream. *)
LEMMA StreamTypes ==
    ASSUME ProcessTyped, NEW s \in Stream
    PROVE  /\ written[s] \in Nat /\ pipe[s] \in Seq(Nat)
           /\ readers[s] \in Reader /\ kept[s] \in Recorded
           /\ CaptureLimit[s] \in Nat
BY ProcessAssumption DEF ProcessTyped

(* A stream nobody touches stays as it is. *)
LEMMA InPlaceKept ==
    ASSUME NEW s \in Stream, InPlace(s), written'[s] = written[s], pipe'[s] = pipe[s],
           readers'[s] = readers[s], kept'[s] = kept[s]
    PROVE  InPlace(s)'
BY DEF InPlace, At

(* The child and its descendants: what they write goes to the end of the pipe. *)
LEMMA WritesStep ==
    ASSUME ProcessInvariant, NEW w \in Writer, NEW s \in Stream, Writes(w, s)
    PROVE  ProcessInvariant'
<1>1. /\ s \in writers[w].holds
      /\ written' = [written EXCEPT ![s] = @ + 1]
      /\ pipe' = [pipe EXCEPT ![s] = Append(@, written[s] + 1)]
      /\ UNCHANGED <<writers, readers, kept, main>>
  BY DEF Writes
<1>2. written[s] \in Nat /\ pipe[s] \in Seq(Nat)
  BY StreamTypes DEF ProcessInvariant
<1>3. /\ written'[s] = written[s] + 1 /\ pipe'[s] = Append(pipe[s], written[s] + 1)
      /\ \A u \in Stream : u # s => written'[u] = written[u] /\ pipe'[u] = pipe[u]
  BY <1>1 DEF ProcessInvariant, ProcessTyped
<1>4. ProcessTyped'
  <2>1. Append(pipe[s], written[s] + 1) \in Seq(Nat)
    BY <1>2
  <2> QED
    BY <1>1, <1>2, <2>1 DEF ProcessInvariant, ProcessTyped
<1>5. ASSUME NEW u \in Stream PROVE InPlace(u)'
  <2>1. CASE u # s
    BY <1>1, <1>3, <2>1, InPlaceKept DEF ProcessInvariant
  <2>2. CASE u = s
    <3>1. PICK d \in 0..written[s], t \in 0..written[s] : At(s, d, t)
      BY DEF ProcessInvariant, InPlace
    <3>2. d \in Nat /\ t \in Nat /\ t <= written[s] /\ written[s] + 1 \in Nat
      BY <1>2
    <3>3. Append(Places(t, written[s]), written[s] + 1) = Places(t, written[s] + 1)
      BY <1>2, <3>2, PlacesAppend
    <3>4. pipe'[s] = Places(t, written'[s])
      BY <1>3, <3>1, <3>3 DEF At
    <3>5. d <= t /\ t <= written'[s]
      BY <1>2, <1>3, <3>1, <3>2 DEF At
    <3>6. At(s, d, t)'
      BY <1>1, <3>1, <3>4, <3>5 DEF At
    <3>7. d \in 0..written'[s] /\ t \in 0..written'[s]
      BY <1>2, <1>3, <3>2, <3>5
    <3> QED
      BY <2>2, <3>6, <3>7 DEF InPlace
  <2> QED
    BY <2>1, <2>2
<1>6. ASSUME NEW u \in Stream PROVE EndedWell(u)'
  <2>1. EndOfStream(u) => u # s
    BY <1>1 DEF EndOfStream
  <2>2. EndOfStream(u) => EndOfStream(u)'
    BY <1>1, <1>3, <2>1 DEF EndOfStream
  <2> QED
    BY <1>1, <2>2 DEF ProcessInvariant, EndedWell, Ended
<1>7. CallerInOrder'
  BY <1>1 DEF ProcessInvariant, CallerInOrder, Ended
<1> QED
  BY <1>4, <1>5, <1>6, <1>7 DEF ProcessInvariant

(* Steps that leave the bytes and the readers alone and open no stream. *)
LEMMA WritersChange ==
    ASSUME ProcessInvariant, UNCHANGED <<written, pipe, readers, kept>>,
           ProcessTyped', CallerInOrder', main.closed \subseteq main'.closed,
           \A s \in Stream : (\A w \in Writer : s \notin writers[w].holds)
                                => \A w \in Writer : s \notin writers'[w].holds
    PROVE  ProcessInvariant'
<1>1. ASSUME NEW s \in Stream PROVE InPlace(s)'
  BY InPlaceKept DEF ProcessInvariant
<1>2. ASSUME NEW s \in Stream PROVE EndedWell(s)'
  BY DEF ProcessInvariant, EndedWell, Ended, EndOfStream
<1> QED
  BY <1>1, <1>2 DEF ProcessInvariant

(* A stream that is closed, a descendant, an exit: nothing is opened anew. *)
LEMMA ChildChange ==
    ASSUME ProcessInvariant,
           \/ \E w \in Writer, s \in Stream : Closes(w, s)
           \/ \E w \in Writer \ {"child"} : Spawns(w)
           \/ \E w \in Writer, status \in {"none", "zero", "other"} : Exits(w, status)
    PROVE  ProcessInvariant'
<1>1. UNCHANGED <<written, pipe, readers, kept>>
  BY DEF Closes, Spawns, Exits
<1> USE DEF ProcessInvariant
<1>2. ASSUME NEW w \in Writer, NEW s \in Stream, Closes(w, s) PROVE ProcessInvariant'
  <2>1. ProcessTyped'
    BY <1>1, <1>2 DEF Closes, ProcessTyped
  <2>2. CallerInOrder' /\ main' = main
    BY <1>1, <1>2 DEF Closes, CallerInOrder, Ended
  <2>3. \A v \in Writer : writers'[v].holds \subseteq writers[v].holds
    BY <1>2 DEF Closes, ProcessTyped
  <2> QED
    BY <1>1, <2>1, <2>2, <2>3, WritersChange
<1>3. ASSUME NEW w \in Writer \ {"child"}, Spawns(w) PROVE ProcessInvariant'
  <2>0. "child" \in Writer
    BY DEF Writer, Group
  <2>1. ProcessTyped'
    BY <1>1, <1>3, <2>0 DEF Spawns, ProcessTyped
  <2>2. CallerInOrder' /\ main' = main
    BY <1>1, <1>3 DEF Spawns, CallerInOrder, Ended
  <2>3. \A v \in Writer : writers'[v] = writers[v] \/ writers'[v] = writers["child"]
    BY <1>3 DEF Spawns, ProcessTyped
  <2> QED
    BY <1>1, <2>0, <2>1, <2>2, <2>3, WritersChange
<1>4. ASSUME NEW w \in Writer, NEW status \in {"none", "zero", "other"}, Exits(w, status)
      PROVE  ProcessInvariant'
  <2>1. writers' = [writers EXCEPT ![w] = Dead]
    BY <1>4 DEF Exits
  <2>2. main' = [main EXCEPT !.exit = IF w = "child" THEN status ELSE @]
    BY <1>4 DEF Exits
  <2>3. ProcessTyped'
    <3>1. main' \in Caller
      BY <2>2 DEF ProcessTyped, Caller
    <3> QED
      BY <1>1, <2>1, <3>1 DEF Dead, ProcessTyped
  <2>4. CallerInOrder' /\ main'.closed = main.closed
    BY <1>1, <2>2 DEF CallerInOrder, Ended, ProcessTyped, Caller
  <2>5. \A v \in Writer : writers'[v].holds \subseteq writers[v].holds
    BY <2>1 DEF Dead, ProcessTyped
  <2> QED
    BY <1>1, <2>3, <2>4, <2>5, WritersChange
<1> QED
  BY <1>2, <1>3, <1>4

(* A step of one reader, which has not ended, disturbs neither the other one nor *)
(* the caller.                                                                *)
LEMMA ReaderChange ==
    ASSUME ProcessInvariant, NEW s \in Stream, readers[s].pc \notin {"unborn", "ended"},
           UNCHANGED <<writers, written, main>>,
           readers' \in [Stream -> Reader], kept' \in [Stream -> Recorded],
           pipe' \in [Stream -> Seq(Nat)],
           \A u \in Stream : u # s => /\ readers'[u] = readers[u]
                                      /\ kept'[u] = kept[u] /\ pipe'[u] = pipe[u],
           InPlace(s)', EndedWell(s)'
    PROVE  ProcessInvariant'
<1>1. ProcessTyped'
  BY DEF ProcessInvariant, ProcessTyped
<1>2. ASSUME NEW u \in Stream PROVE InPlace(u)' /\ EndedWell(u)'
  <2>1. CASE u = s
    BY <2>1
  <2>2. CASE u # s
    <3>1. InPlace(u)'
      BY <2>2, InPlaceKept DEF ProcessInvariant
    <3>2. EndedWell(u)'
      BY <2>2 DEF ProcessInvariant, EndedWell, Ended, EndOfStream
    <3> QED
      BY <3>1, <3>2
  <2> QED
    BY <2>1, <2>2
<1>3. main.pc # "start" /\ main.drain # "complete"
  BY DEF ProcessInvariant, CallerInOrder, Ended
<1>4. CallerInOrder'
  BY <1>3 DEF ProcessInvariant, CallerInOrder
<1> QED
  BY <1>1, <1>2, <1>4 DEF ProcessInvariant

(* The byte a reader takes out of the pipe is the next one of its block. *)
LEMMA TakeByteStep ==
    ASSUME ProcessInvariant, NEW s \in Stream, TakeByte(s)
    PROVE  ProcessInvariant'
<1> DEFINE block == Append(readers[s].block, Head(pipe[s]))
<1>1. /\ readers[s].pc = "read" /\ pipe[s] # <<>>
      /\ readers' = [readers EXCEPT ![s].block = block]
      /\ pipe' = [pipe EXCEPT ![s] = Tail(@)]
      /\ UNCHANGED <<writers, written, kept, main>>
  BY DEF TakeByte
<1>2. /\ written[s] \in Nat /\ readers[s] \in Reader
      /\ readers \in [Stream -> Reader] /\ pipe \in [Stream -> Seq(Nat)]
      /\ kept \in [Stream -> Recorded]
  BY StreamTypes DEF ProcessInvariant, ProcessTyped
<1>3. PICK d \in 0..written[s], t \in 0..written[s] : At(s, d, t)
  BY DEF ProcessInvariant, InPlace
<1>4. d \in Nat /\ t \in Nat /\ t <= written[s] /\ d <= t /\ t + 1 \in Nat /\ d <= t + 1
  BY <1>2, <1>3 DEF At
<1>5. t < written[s]
  <2>1. t # written[s]
    BY <1>1, <1>2, <1>3, <1>4, PlacesEmpty DEF At
  <2> QED
    BY <1>2, <1>4, <2>1
<1>6. Head(pipe[s]) = t + 1 /\ Tail(pipe[s]) = Places(t + 1, written[s])
  BY <1>2, <1>3, <1>4, <1>5, PlacesTail DEF At
<1>7. block = Places(d, t + 1)
  BY <1>3, <1>4, <1>6, PlacesAppend DEF At
<1> HIDE DEF block
<1>8. block \in Seq(Nat) /\ Tail(pipe[s]) \in Seq(Nat)
  <2>1. Places(d, t + 1) \in Seq(Nat)
    BY <1>4, PlacesType
  <2>2. Places(t + 1, written[s]) \in Seq(Nat)
    <3>1. t + 1 <= written[s]
      BY <1>2, <1>4, <1>5
    <3> QED
      BY <1>2, <1>4, <3>1, PlacesType
  <2> QED
    BY <1>6, <1>7, <2>1, <2>2
<1>9. /\ readers' \in [Stream -> Reader]
      /\ readers'[s].pc = "read" /\ readers'[s].block = block
      /\ \A u \in Stream : u # s => readers'[u] = readers[u]
  BY <1>1, <1>2, <1>8 DEF Reader
<1>10. /\ pipe' \in [Stream -> Seq(Nat)] /\ pipe'[s] = Tail(pipe[s])
       /\ \A u \in Stream : u # s => pipe'[u] = pipe[u]
  BY <1>1, <1>2, <1>8
<1>11. At(s, d, t + 1)'
  BY <1>1, <1>2, <1>3, <1>4, <1>5, <1>6, <1>7, <1>9, <1>10 DEF At
<1>12. InPlace(s)'
  <2>1. d \in 0..written'[s] /\ t + 1 \in 0..written'[s]
    BY <1>1, <1>2, <1>4, <1>5
  <2> QED
    BY <1>11, <2>1 DEF InPlace
<1>13. EndedWell(s)'
  BY <1>9 DEF EndedWell, Ended
<1> QED
  BY <1>1, <1>2, <1>9, <1>10, <1>12, <1>13, ReaderChange

(* A reader that only moves on leaves every byte where it is. *)
LEMMA ReaderMoves ==
    ASSUME ProcessInvariant, NEW s \in Stream, NEW pc \in {"count", "ended"},
           readers[s].pc = "read", readers' = [readers EXCEPT ![s].pc = pc],
           UNCHANGED <<writers, written, pipe, kept, main>>,
           pc = "ended" => s \in main.closed \/ (readers[s].block = <<>> /\ EndOfStream(s))
    PROVE  ProcessInvariant'
<1>1. /\ readers[s] \in Reader /\ readers \in [Stream -> Reader]
      /\ kept \in [Stream -> Recorded] /\ pipe \in [Stream -> Seq(Nat)]
  BY StreamTypes DEF ProcessInvariant, ProcessTyped
<1>2. /\ readers' \in [Stream -> Reader]
      /\ readers'[s].pc = pc /\ readers'[s].block = readers[s].block
      /\ \A u \in Stream : u # s => readers'[u] = readers[u]
  BY <1>1 DEF Reader
<1>3. InPlace(s)'
  BY <1>2 DEF ProcessInvariant, InPlace, At
<1>4. EndedWell(s)'
  BY <1>2 DEF EndedWell, Ended, EndOfStream
<1> QED
  BY <1>1, <1>2, <1>3, <1>4, ReaderChange

(* The three steps of recording a block: counted, ... *)
LEMMA CountStep ==
    ASSUME ProcessInvariant, NEW s \in Stream, Count(s)
    PROVE  ProcessInvariant'
<1> DEFINE totals == kept[s].totals + Len(readers[s].block)
<1>1. /\ readers[s].pc = "count"
      /\ kept' = [kept EXCEPT ![s].totals = totals]
      /\ readers' = [readers EXCEPT ![s].pc = "hash"]
      /\ UNCHANGED <<writers, written, pipe, main>>
  BY DEF Count
<1>2. /\ written[s] \in Nat /\ readers[s] \in Reader /\ kept[s] \in Recorded
      /\ readers \in [Stream -> Reader] /\ pipe \in [Stream -> Seq(Nat)]
      /\ kept \in [Stream -> Recorded]
  BY StreamTypes DEF ProcessInvariant, ProcessTyped
<1>3. PICK d \in 0..written[s], t \in 0..written[s] : At(s, d, t)
  BY DEF ProcessInvariant, InPlace
<1>4. d \in Nat /\ t \in Nat /\ d <= t /\ t <= written[s]
  BY <1>2, <1>3 DEF At
<1>5. totals = t
  <2>1. Len(readers[s].block) = t - d
    BY <1>3, <1>4, PlacesType DEF At
  <2>2. kept[s].totals = d
    BY <1>1, <1>3 DEF At
  <2> QED
    BY <1>4, <2>1, <2>2
<1> HIDE DEF totals
<1>6. /\ readers' \in [Stream -> Reader]
      /\ readers'[s].pc = "hash" /\ readers'[s].block = readers[s].block
      /\ \A u \in Stream : u # s => readers'[u] = readers[u]
  BY <1>1, <1>2 DEF Reader
<1>7. /\ kept' \in [Stream -> Recorded]
      /\ kept'[s].totals = t /\ kept'[s].hashes = kept[s].hashes
      /\ kept'[s].captured = kept[s].captured
      /\ \A u \in Stream : u # s => kept'[u] = kept[u]
  BY <1>1, <1>2, <1>4, <1>5 DEF Recorded
<1>8. At(s, d, t)'
  BY <1>1, <1>3, <1>6, <1>7 DEF At
<1>9. InPlace(s)' /\ EndedWell(s)'
  BY <1>1, <1>6, <1>8 DEF InPlace, EndedWell, Ended
<1> QED
  BY <1>1, <1>2, <1>6, <1>7, <1>9, ReaderChange

(* ... hashed, ... *)
LEMMA HashStep ==
    ASSUME ProcessInvariant, NEW s \in Stream, Hash(s)
    PROVE  ProcessInvariant'
<1> DEFINE hashes == kept[s].hashes \o readers[s].block
<1>1. /\ readers[s].pc = "hash"
      /\ kept' = [kept EXCEPT ![s].hashes = hashes]
      /\ readers' = [readers EXCEPT ![s].pc = "keep"]
      /\ UNCHANGED <<writers, written, pipe, main>>
  BY DEF Hash
<1>2. /\ written[s] \in Nat /\ readers[s] \in Reader /\ kept[s] \in Recorded
      /\ readers \in [Stream -> Reader] /\ pipe \in [Stream -> Seq(Nat)]
      /\ kept \in [Stream -> Recorded]
  BY StreamTypes DEF ProcessInvariant, ProcessTyped
<1>3. PICK d \in 0..written[s], t \in 0..written[s] : At(s, d, t)
  BY DEF ProcessInvariant, InPlace
<1>4. d \in Nat /\ t \in Nat /\ d <= t /\ t <= written[s] /\ 0 <= d /\ 0 <= t
  BY <1>2, <1>3 DEF At
<1>5. hashes = Places(0, t)
  <2>1. kept[s].hashes = Places(0, d) /\ readers[s].block = Places(d, t)
    BY <1>1, <1>3 DEF At
  <2> QED
    BY <1>4, <2>1, PlacesConcat
<1>6. hashes \in Seq(Nat)
  BY <1>4, <1>5, PlacesType
<1> HIDE DEF hashes
<1>7. /\ readers' \in [Stream -> Reader]
      /\ readers'[s].pc = "keep" /\ readers'[s].block = readers[s].block
      /\ \A u \in Stream : u # s => readers'[u] = readers[u]
  BY <1>1, <1>2 DEF Reader
<1>8. /\ kept' \in [Stream -> Recorded]
      /\ kept'[s].totals = kept[s].totals /\ kept'[s].hashes = hashes
      /\ kept'[s].captured = kept[s].captured
      /\ \A u \in Stream : u # s => kept'[u] = kept[u]
  BY <1>1, <1>2, <1>6 DEF Recorded
<1>9. At(s, d, t)'
  BY <1>1, <1>3, <1>5, <1>7, <1>8 DEF At
<1>10. InPlace(s)' /\ EndedWell(s)'
  BY <1>1, <1>7, <1>9 DEF InPlace, EndedWell, Ended
<1> QED
  BY <1>1, <1>2, <1>7, <1>8, <1>10, ReaderChange

\* What is captured once a block has been kept.
Captured(captured, block, limit) ==
    captured \o SubSeq(block, 1, Smaller(limit - Len(captured), Len(block)))

(* The part of a block that still fits continues what was captured. *)
LEMMA CapturedFits ==
    ASSUME NEW limit \in Nat, NEW d \in Nat, NEW t \in Nat, d <= t
    PROVE  Captured(Places(0, Smaller(d, limit)), Places(d, t), limit)
              = Places(0, Smaller(t, limit))
<1> DEFINE captured == Places(0, Smaller(d, limit))
           block == Places(d, t)
           n == Smaller(limit - Len(captured), Len(block))
<1>a. /\ captured = Places(0, Smaller(d, limit)) /\ block = Places(d, t)
      /\ n = Smaller(limit - Len(captured), Len(block))
      /\ Captured(Places(0, Smaller(d, limit)), Places(d, t), limit)
            = captured \o SubSeq(block, 1, n)
  BY DEF Captured
<1>b. /\ n = Smaller(limit - Len(captured), Len(block)) /\ block = Places(d, t)
  OBVIOUS
<1> HIDE DEF captured, block, n
<1>1. Smaller(d, limit) \in Nat /\ 0 <= Smaller(d, limit) /\ 0 \in Nat
  BY DEF Smaller
<1>2. captured \in Seq(Nat) /\ Len(captured) = Smaller(d, limit) - 0
  BY <1>a, <1>1, PlacesType
<1>3. Len(block) = t - d
  BY <1>a, PlacesType
<1>4. CASE d < limit
  <2>1. captured = Places(0, d)
    BY <1>a, <1>4 DEF Smaller
  <2>2. /\ n \in Nat /\ d + n = Smaller(t, limit) /\ d + n <= t
        /\ d + n \in Nat /\ 0 <= d /\ d <= d + n
    <3>1. Len(captured) = d /\ n = Smaller(limit - d, t - d)
      BY <1>b, <1>2, <1>3, <1>4 DEF Smaller
    <3> QED
      BY <1>4, <3>1 DEF Smaller
  <2>3. SubSeq(block, 1, n) = Places(d, d + n)
    <3>1. SubSeq(Places(d, t), 1, n) = Places(d, d + n)
      BY <2>2, PlacesPrefix
    <3>2. block = Places(d, t)
      BY <1>b
    <3> QED
      BY <3>1, <3>2
  <2>4. Places(0, d) \o Places(d, d + n) = Places(0, d + n)
    BY <1>1, <2>2, PlacesConcat
  <2> QED
    BY <1>a, <2>1, <2>2, <2>3, <2>4
<1>5. CASE limit <= d
  <2>1. n = 0 /\ Smaller(t, limit) = Smaller(d, limit)
    BY <1>a, <1>2, <1>3, <1>5 DEF Smaller
  <2>2. SubSeq(block, 1, 0) = <<>>
    BY SubSeqEmpty
  <2>3. captured \o <<>> = captured
    BY <1>2, ConcatEmptySeq
  <2> QED
    BY <1>a, <2>1, <2>2, <2>3
<1>6. d < limit \/ limit <= d
  OBVIOUS
<1> QED
  BY <1>4, <1>5, <1>6, Zenon

(* ... and kept as far as the limit allows, which ends the block. *)
LEMMA KeepStep ==
    ASSUME ProcessInvariant, NEW s \in Stream, Keep(s)
    PROVE  ProcessInvariant'
<1> DEFINE captured == Captured(kept[s].captured, readers[s].block, CaptureLimit[s])
<1>1. /\ readers[s].pc = "keep"
      /\ kept' = [kept EXCEPT ![s].captured = captured]
      /\ readers' = [readers EXCEPT ![s] = [pc |-> "read", block |-> <<>>]]
      /\ UNCHANGED <<writers, written, pipe, main>>
  BY DEF Keep, Captured
<1>2. /\ written[s] \in Nat /\ readers[s] \in Reader /\ kept[s] \in Recorded
      /\ CaptureLimit[s] \in Nat
      /\ readers \in [Stream -> Reader] /\ pipe \in [Stream -> Seq(Nat)]
      /\ kept \in [Stream -> Recorded]
  BY StreamTypes DEF ProcessInvariant, ProcessTyped
<1>3. PICK d \in 0..written[s], t \in 0..written[s] : At(s, d, t)
  BY DEF ProcessInvariant, InPlace
<1>4. d \in Nat /\ t \in Nat /\ d <= t /\ t <= written[s]
  BY <1>2, <1>3 DEF At
<1>5. captured = Places(0, Smaller(t, CaptureLimit[s]))
  <2>1. /\ kept[s].captured = Places(0, Smaller(d, CaptureLimit[s]))
        /\ readers[s].block = Places(d, t)
    BY <1>3 DEF At
  <2> QED
    BY <1>2, <1>4, <2>1, CapturedFits
<1>6. captured \in Seq(Nat)
  <2>1. Smaller(t, CaptureLimit[s]) \in Nat /\ 0 <= Smaller(t, CaptureLimit[s])
    BY <1>2, <1>4 DEF Smaller
  <2> QED
    BY <1>5, <2>1, PlacesType
<1> HIDE DEF captured
<1>7. /\ readers' \in [Stream -> Reader]
      /\ readers'[s].pc = "read" /\ readers'[s].block = <<>>
      /\ \A u \in Stream : u # s => readers'[u] = readers[u]
  BY <1>1, <1>2 DEF Reader
<1>8. /\ kept' \in [Stream -> Recorded]
      /\ kept'[s].totals = kept[s].totals /\ kept'[s].hashes = kept[s].hashes
      /\ kept'[s].captured = captured
      /\ \A u \in Stream : u # s => kept'[u] = kept[u]
  BY <1>1, <1>2, <1>6 DEF Recorded
<1>9. Places(t, t) = <<>>
  BY <1>4, PlacesEmpty
<1>10. At(s, t, t)'
  <2>1. kept[s].totals = t /\ kept[s].hashes = Places(0, t)
    BY <1>1, <1>3 DEF At
  <2>2. pipe[s] = Places(t, written[s]) /\ t <= t
    BY <1>3, <1>4 DEF At
  <2> QED
    BY <1>1, <1>4, <1>5, <1>7, <1>8, <1>9, <2>1, <2>2 DEF At
<1>11. InPlace(s)' /\ EndedWell(s)'
  BY <1>1, <1>7, <1>10 DEF InPlace, EndedWell, Ended
<1> QED
  BY <1>1, <1>2, <1>7, <1>8, <1>11, ReaderChange

(* Every step of a reader keeps the invariant. *)
LEMMA ReaderKeeps ==
    ASSUME ProcessInvariant, NEW s \in Stream, ReaderStep(s)
    PROVE  ProcessInvariant'
<1>1. CASE ReadReturns(s)
  <2>1. readers[s].block = <<>> => EndOfStream(s)
    BY <1>1, ProcessAssumption DEF ReadReturns
  <2>2. CASE readers[s].block = <<>>
    BY <1>1, <2>1, <2>2, ReaderMoves DEF ReadReturns
  <2>3. CASE readers[s].block # <<>>
    BY <1>1, <2>3, ReaderMoves DEF ReadReturns
  <2> QED
    BY <2>2, <2>3
<1>2. CASE ReadFails(s)
  BY <1>2, ReaderMoves DEF ReadFails
<1> QED
  BY <1>1, <1>2, TakeByteStep, CountStep, HashStep, KeepStep DEF ReaderStep

(* Starting the child opens the streams while no reader has been started. *)
LEMMA StartStep ==
    ASSUME ProcessInvariant, Start
    PROVE  ProcessInvariant'
<1>1. /\ main.pc = "start" /\ main' = [main EXCEPT !.pc = "wait"]
      /\ writers' = [writers EXCEPT !["child"] = Running]
      /\ readers' = [s \in Stream |-> [pc |-> "read", block |-> <<>>]]
      /\ UNCHANGED <<written, pipe, kept>>
  BY DEF Start
<1>2. \A s \in Stream : readers[s].pc = "unborn" /\ readers[s].block = <<>>
  BY <1>1 DEF ProcessInvariant, CallerInOrder, EndedWell
<1>3. ProcessTyped'
  <2>1. <<>> \in Seq(Nat) /\ Running \in [state: {"unborn", "alive", "dead"}, holds: SUBSET Stream]
    BY DEF Running
  <2>2. main' \in Caller
    BY <1>1 DEF ProcessInvariant, ProcessTyped, Caller, Undrained
  <2> QED
    BY <1>1, <2>1, <2>2 DEF ProcessInvariant, ProcessTyped, Reader
<1>4. ASSUME NEW s \in Stream PROVE InPlace(s)' /\ EndedWell(s)'
  <2>1. readers'[s].pc = "read" /\ readers'[s].block = readers[s].block
    BY <1>1, <1>2
  <2>2. InPlace(s)'
    BY <1>1, <1>2, <2>1 DEF ProcessInvariant, InPlace, At
  <2> QED
    BY <2>1, <2>2 DEF EndedWell, Ended
<1>5. CallerInOrder'
  BY <1>1 DEF ProcessInvariant, ProcessTyped, CallerInOrder, Caller, Undrained
<1> QED
  BY <1>3, <1>4, <1>5 DEF ProcessInvariant

(* The caller only moves on. *)
LEMMA CallerMoves ==
    ASSUME ProcessInvariant, main' \in Caller, UNCHANGED <<writers, written, pipe, readers, kept>>,
           main.closed \subseteq main'.closed, CallerInOrder'
    PROVE  ProcessInvariant'
<1>1. ProcessTyped'
  BY DEF ProcessInvariant, ProcessTyped
<1> QED
  BY <1>1, WritersChange

(* The steps of the caller up to the joins: waiting, timing out, joining. *)
LEMMA WaitingSteps ==
    ASSUME ProcessInvariant, ChildDone \/ TimesOut \/ JoinStdout \/ JoinStderr
    PROVE  ProcessInvariant'
<1>1. /\ main \in Caller
      /\ main.pc \in {"wait", "join_stdout", "join_stderr"}
      /\ UNCHANGED <<writers, written, pipe, readers, kept>>
  BY DEF ProcessInvariant, ProcessTyped, ChildDone, TimesOut, JoinStdout, JoinStderr, Onward
<1>2. /\ main' \in Caller /\ main'.closed = main.closed /\ main'.drain = main.drain
      /\ main'.pc \in Undrained \ {"start"}
  <2>1. ASSUME NEW pc \in Undrained \ {"start"}, main' = [main EXCEPT !.pc = pc]
        PROVE  /\ main' \in Caller /\ main'.closed = main.closed /\ main'.drain = main.drain
               /\ main'.pc \in Undrained \ {"start"}
    BY <1>1, <2>1 DEF Caller
  <2>2. CASE TimesOut
    BY <1>1, <2>2 DEF TimesOut, Caller, Undrained
  <2>3. CASE ChildDone \/ JoinStdout \/ JoinStderr
    <3>1. /\ "join_stdout" \in Undrained \ {"start"} /\ "join_stderr" \in Undrained \ {"start"}
          /\ "drained" \in Undrained \ {"start"}
      BY DEF Undrained
    <3> QED
      BY <2>1, <2>3, <3>1 DEF ChildDone, JoinStdout, JoinStderr, Onward
  <2> QED
    BY <2>2, <2>3
<1>3. main.drain = "none"
  BY <1>1 DEF ProcessInvariant, CallerInOrder, Undrained
<1>4. CallerInOrder'
  BY <1>1, <1>2, <1>3 DEF ProcessInvariant, CallerInOrder, Undrained
<1> QED
  BY <1>1, <1>2, <1>4, CallerMoves

(* Killing the group opens nothing. *)
LEMMA KillGroupStep ==
    ASSUME ProcessInvariant, KillGroup
    PROVE  ProcessInvariant'
<1> DEFINE exit == IF Alive("child") THEN "killed" ELSE main.exit
<1>1. /\ main.pc = "kill" /\ main' = [main EXCEPT !.pc = "join_stdout", !.exit = exit]
      /\ writers' = [w \in Writer |-> IF w \in Group /\ Alive(w) THEN Dead ELSE writers[w]]
      /\ UNCHANGED <<written, pipe, readers, kept>>
  BY DEF KillGroup
<1>2. exit \in {"none", "zero", "other", "killed"} /\ main \in Caller
  BY DEF ProcessInvariant, ProcessTyped, Caller
<1> HIDE DEF exit
<1>3. /\ main' \in Caller /\ main'.closed = main.closed /\ main'.drain = main.drain
      /\ main'.pc = "join_stdout"
  BY <1>1, <1>2 DEF Caller, Undrained
<1>4. /\ ProcessTyped'
      /\ \A w \in Writer : writers'[w].holds \subseteq writers[w].holds
  <2>1. Dead \in [state: {"unborn", "alive", "dead"}, holds: SUBSET Stream] /\ Dead.holds = {}
    BY DEF Dead
  <2> QED
    BY <1>1, <1>3, <2>1 DEF ProcessInvariant, ProcessTyped
<1>5. CallerInOrder'
  <2>1. main.drain = "none"
    BY <1>1 DEF ProcessInvariant, CallerInOrder, Undrained
  <2> QED
    BY <1>1, <1>3, <2>1 DEF ProcessInvariant, CallerInOrder, Undrained
<1> QED
  BY <1>1, <1>3, <1>4, <1>5, WritersChange

(* After the joins the caller looks whether the readers have ended, ... *)
LEMMA CheckDrainedStep ==
    ASSUME ProcessInvariant, CheckDrained
    PROVE  ProcessInvariant'
<1>1. main \in Caller /\ main.pc = "drained" /\ main.drain = "none" /\ main.closed = {}
  BY DEF ProcessInvariant, ProcessTyped, CallerInOrder, CheckDrained, Undrained
<1>2. CASE \A s \in Stream : Ended(s)
  <2>1. /\ main' = [main EXCEPT !.drain = "complete", !.pc = "capture"]
        /\ UNCHANGED <<writers, written, pipe, readers, kept>>
    BY <1>2 DEF CheckDrained
  <2>2. /\ main' \in Caller /\ main'.closed = {} /\ main'.drain = "complete"
        /\ main'.pc = "capture"
    BY <1>1, <2>1 DEF Caller, Undrained
  <2>3. CallerInOrder'
    BY <1>2, <2>1, <2>2 DEF CallerInOrder, Undrained, Ended
  <2> QED
    BY <1>1, <2>1, <2>2, <2>3, CallerMoves
<1>3. CASE ~ \A s \in Stream : Ended(s)
  <2>1. /\ main' = [main EXCEPT !.drain = "incomplete", !.pc = "close_stdout"]
        /\ UNCHANGED <<writers, written, pipe, readers, kept>>
    BY <1>3 DEF CheckDrained
  <2>2. /\ main' \in Caller /\ main'.closed = {} /\ main'.drain = "incomplete"
        /\ main'.pc = "close_stdout"
    BY <1>1, <2>1 DEF Caller, Undrained
  <2>3. CallerInOrder'
    BY <2>2 DEF CallerInOrder, Undrained
  <2> QED
    BY <1>1, <2>1, <2>2, <2>3, CallerMoves
<1> QED
  BY <1>2, <1>3

(* ... and closes the streams of those that have not. *)
LEMMA CloseSteps ==
    ASSUME ProcessInvariant, CloseStdout \/ CloseStderr
    PROVE  ProcessInvariant'
<1>1. main \in Caller /\ main.drain = "incomplete"
  BY DEF ProcessInvariant, ProcessTyped, CallerInOrder, CloseStdout, CloseStderr
<1>2. PICK s \in Stream, pc \in {"close_stderr", "capture"} :
         /\ main' = [main EXCEPT !.pc = pc, !.closed = @ \cup {s}]
         /\ UNCHANGED <<writers, written, pipe, readers, kept>>
  BY DEF CloseStdout, CloseStderr, CloseStream, Stream
<1>3. /\ main' \in Caller /\ main.closed \subseteq main'.closed /\ main'.drain = "incomplete"
      /\ main'.pc = pc
  BY <1>1, <1>2 DEF Caller, Undrained
<1>4. CallerInOrder'
  BY <1>3 DEF CallerInOrder, Undrained
<1> QED
  BY <1>2, <1>3, <1>4, CallerMoves

(* What the caller takes over from readers that have ended stays true of them. *)
LEMMA ReportSteps ==
    ASSUME ProcessInvariant, Capture \/ Truncate \/ Report
    PROVE  ProcessInvariant'
<1>1. /\ main \in Caller /\ kept \in [Stream -> Recorded]
      /\ UNCHANGED <<writers, written, pipe, readers, kept>>
  BY DEF ProcessInvariant, ProcessTyped, Capture, Truncate, Report
<1>2. ASSUME NEW s \in Stream
      PROVE  /\ kept[s].captured \in Seq(Nat) /\ kept[s].hashes \in Seq(Nat)
             /\ kept[s].totals \in Nat
  BY <1>1 DEF Recorded
<1>3. CASE Capture
  <2> DEFINE captured == [s \in Stream |-> kept[s].captured]
  <2>1. main.pc = "capture" /\ main' = [main EXCEPT !.pc = "truncate", !.captured = captured]
    BY <1>3 DEF Capture
  <2>2. captured \in [Stream -> Seq(Nat)] /\ \A s \in Stream : captured[s] = kept[s].captured
    BY <1>2
  <2> HIDE DEF captured
  <2>3. /\ main' \in Caller /\ main'.pc = "truncate" /\ main'.captured = captured
        /\ main'.closed = main.closed /\ main'.drain = main.drain
    BY <1>1, <2>1, <2>2 DEF Caller, Undrained
  <2>4. CallerInOrder'
    BY <1>1, <2>1, <2>2, <2>3 DEF ProcessInvariant, CallerInOrder, Undrained, Ended
  <2> QED
    BY <1>1, <2>3, <2>4, CallerMoves
<1>4. CASE Truncate
  <2> DEFINE truncated == [s \in Stream |-> kept[s].totals > CaptureLimit[s]]
  <2>1. main.pc = "truncate" /\ main' = [main EXCEPT !.pc = "report", !.truncated = truncated]
    BY <1>4 DEF Truncate
  <2>2. /\ truncated \in [Stream -> BOOLEAN]
        /\ \A s \in Stream : truncated[s] = (kept[s].totals > CaptureLimit[s])
    OBVIOUS
  <2> HIDE DEF truncated
  <2>3. /\ main' \in Caller /\ main'.pc = "report" /\ main'.truncated = truncated
        /\ main'.closed = main.closed /\ main'.drain = main.drain
        /\ main'.captured = main.captured
    BY <1>1, <2>1, <2>2 DEF Caller, Undrained
  <2>4. CallerInOrder'
    BY <1>1, <2>1, <2>2, <2>3 DEF ProcessInvariant, CallerInOrder, Undrained, Ended
  <2> QED
    BY <1>1, <2>3, <2>4, CallerMoves
<1>5. CASE Report
  <2> DEFINE report == [s \in Stream |-> [total |-> kept[s].totals, digest |-> kept[s].hashes]]
  <2>1. main.pc = "report" /\ main' = [main EXCEPT !.pc = "returned", !.report = report]
    BY <1>5 DEF Report
  <2>2. /\ report \in [Stream -> [total: Nat, digest: Seq(Nat)]]
        /\ \A s \in Stream : /\ report[s].total = kept[s].totals
                             /\ report[s].digest = kept[s].hashes
    BY <1>2
  <2> HIDE DEF report
  <2>3. /\ main' \in Caller /\ main'.pc = "returned" /\ main'.report = report
        /\ main'.closed = main.closed /\ main'.drain = main.drain
        /\ main'.captured = main.captured /\ main'.truncated = main.truncated
    BY <1>1, <2>1, <2>2 DEF Caller, Undrained
  <2>4. CallerInOrder'
    BY <1>1, <2>1, <2>2, <2>3 DEF ProcessInvariant, CallerInOrder, Undrained, Ended
  <2> QED
    BY <1>1, <2>3, <2>4, CallerMoves
<1> QED
  BY <1>3, <1>4, <1>5

(* Every step keeps the invariant. *)
LEMMA ProcessStep == ProcessInvariant /\ [NextProcess]_processVars => ProcessInvariant'
<1> SUFFICES ASSUME ProcessInvariant, [NextProcess]_processVars PROVE ProcessInvariant'
  OBVIOUS
<1>1. CASE ChildStep
  BY <1>1, WritesStep, ChildChange DEF ChildStep
<1>2. CASE \E s \in Stream : ReaderStep(s)
  BY <1>2, ReaderKeeps
<1>3. CASE MainStep
  BY <1>3, WaitingSteps, KillGroupStep, CheckDrainedStep, CloseSteps, ReportSteps DEF MainStep
<1>4. CASE UNCHANGED processVars
  BY <1>4 DEF processVars, ProcessInvariant, ProcessTyped, InPlace, At, EndedWell, Ended,
              EndOfStream, CallerInOrder
<1> QED
  BY <1>1, <1>2, <1>3, <1>4, StartStep DEF NextProcess

(* The invariant of run_process holds in every reachable state. *)
THEOREM ProcessInvariantHolds == ProcessSpec => []ProcessInvariant
BY ProcessInit, ProcessStep, PTL DEF ProcessSpec

(***************************************************************************)
(* The report.                                                             *)
(***************************************************************************)
(* A reader that saw the end of its stream has recorded all of it. *)
LEMMA AllRecorded ==
    ASSUME ProcessInvariant, main.drain = "complete", NEW s \in Stream
    PROVE  /\ kept[s].totals = written[s]
           /\ kept[s].hashes = Places(0, written[s])
           /\ kept[s].captured = Places(0, Smaller(written[s], CaptureLimit[s]))
<1>1. Ended(s) /\ readers[s].block = <<>> /\ pipe[s] = <<>>
  BY DEF ProcessInvariant, CallerInOrder, EndedWell, EndOfStream
<1>2. written[s] \in Nat
  BY StreamTypes DEF ProcessInvariant
<1>3. PICK d \in 0..written[s], t \in 0..written[s] : At(s, d, t)
  BY DEF ProcessInvariant, InPlace
<1>4. d \in Nat /\ t \in Nat /\ d <= t /\ t <= written[s]
  BY <1>2, <1>3 DEF At
<1>5. d = t
  BY <1>1, <1>3, <1>4, PlacesEmpty DEF At
<1>6. t = written[s]
  BY <1>1, <1>2, <1>3, <1>4, PlacesEmpty DEF At
<1> QED
  BY <1>1, <1>3, <1>5, <1>6 DEF At, Ended

(* The first places are written as CaptureExact writes them. *)
LEMMA FirstPlaces ==
    ASSUME NEW n \in Nat
    PROVE  Places(0, n) = [i \in 1..n |-> i]
BY DEF Places

(* However the readers race with the caller, whoever is killed and whenever: *)
(* a report that says the streams were drained is exact, what is captured is *)
(* the beginning of the output and never exceeds the limit.                   *)
THEOREM CaptureIsExact == ProcessSpec => []CaptureExact
<1>1. ProcessInvariant => CaptureExact
  <2> SUFFICES ASSUME ProcessInvariant PROVE CaptureExact
    OBVIOUS
  <2>1. ASSUME NEW s \in Stream PROVE Len(kept[s].captured) <= CaptureLimit[s]
    <3>1. written[s] \in Nat /\ CaptureLimit[s] \in Nat
      BY StreamTypes DEF ProcessInvariant
    <3>2. PICK d \in 0..written[s], t \in 0..written[s] : At(s, d, t)
      BY DEF ProcessInvariant, InPlace
    <3>3. /\ Smaller(d, CaptureLimit[s]) \in Nat /\ 0 <= Smaller(d, CaptureLimit[s])
          /\ Smaller(d, CaptureLimit[s]) <= CaptureLimit[s]
      BY <3>1 DEF Smaller
    <3>4. Len(kept[s].captured) = Smaller(d, CaptureLimit[s]) - 0
      BY <3>2, <3>3, PlacesType DEF At
    <3> QED
      BY <3>1, <3>3, <3>4
  <2>2. ASSUME main.pc = "returned", main.drain = "complete", NEW s \in Stream
        PROVE  /\ main.report[s].total = written[s]
               /\ main.report[s].digest = [i \in 1..written[s] |-> i]
               /\ main.captured[s] = [i \in 1..Smaller(written[s], CaptureLimit[s]) |-> i]
               /\ main.truncated[s] = (written[s] > CaptureLimit[s])
    <3>1. written[s] \in Nat /\ CaptureLimit[s] \in Nat
      BY StreamTypes DEF ProcessInvariant
    <3>2. /\ kept[s].totals = written[s]
          /\ kept[s].hashes = Places(0, written[s])
          /\ kept[s].captured = Places(0, Smaller(written[s], CaptureLimit[s]))
      BY <2>2, AllRecorded
    <3>3. /\ main.captured[s] = kept[s].captured
          /\ main.truncated[s] = (kept[s].totals > CaptureLimit[s])
          /\ main.report[s].total = kept[s].totals
          /\ main.report[s].digest = kept[s].hashes
      BY <2>2 DEF ProcessInvariant, CallerInOrder
    <3>4. Smaller(written[s], CaptureLimit[s]) \in Nat
      BY <3>1 DEF Smaller
    <3> QED
      BY <3>1, <3>2, <3>3, <3>4, FirstPlaces
  <2>3. ASSUME Usable PROVE main.captured["stdout"] = [i \in 1..written["stdout"] |-> i]
    <3>1. "stdout" \in Stream
      BY DEF Stream
    <3>2. written["stdout"] \in Nat /\ CaptureLimit["stdout"] \in Nat
      BY <3>1, StreamTypes DEF ProcessInvariant
    <3>3. ~ (written["stdout"] > CaptureLimit["stdout"])
      BY <2>2, <2>3, <3>1 DEF Usable
    <3>4. Smaller(written["stdout"], CaptureLimit["stdout"]) = written["stdout"]
      BY <3>2, <3>3 DEF Smaller
    <3> QED
      BY <2>2, <2>3, <3>1, <3>4 DEF Usable
  <2> QED
    BY <2>1, <2>2, <2>3 DEF CaptureExact
<1> QED
  BY <1>1, ProcessInvariantHolds, PTL
=============================================================================
