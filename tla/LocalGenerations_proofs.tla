---------------------- MODULE LocalGenerations_proofs ----------------------
(***************************************************************************)
(* Theorems about the file store of a local workspace, for any number of   *)
(* processes, changes and objects.                                         *)
(***************************************************************************)
EXTENDS LocalGenerations, TLAPS

(***************************************************************************)
(* Generations as sequences of changes.                                    *)
(***************************************************************************)
(* A generation is a sequence of at most Depth changes. *)
LEMMA GenerationFacts ==
    ASSUME NEW g \in Generation
    PROVE  g \in Seq(Change) /\ Len(g) \in 0..Depth /\ DOMAIN g = 1..Len(g)
<1>1. PICK n \in 0..Depth : g \in [1..n -> Change]
  BY DEF Generation
<1>2. g \in Seq(Change) /\ Len(g) = n
  BY <1>1, StoreAssumption
<1> QED
  BY <1>1, <1>2

(* And every such sequence is one. *)
LEMMA GenerationMade == \A g \in Seq(Change) : Len(g) <= Depth => g \in Generation
<1>1. SUFFICES ASSUME NEW g \in Seq(Change), Len(g) <= Depth PROVE g \in Generation
  OBVIOUS
<1>2. Len(g) \in 0..Depth /\ g \in [1..Len(g) -> Change]
  BY <1>1, StoreAssumption
<1> QED
  BY <1>2 DEF Generation

(* The empty one among them. *)
LEMMA EmptyGeneration == <<>> \in Generation
<1>1. <<>> \in Seq(Change) /\ Len(<<>>) = 0 /\ 0 <= Depth
  BY StoreAssumption
<1> QED
  BY <1>1, GenerationMade

(* One more change leaves the prefixes as they are. *)
LEMMA AppendFacts ==
    ASSUME NEW g \in Generation, NEW c \in Change
    PROVE  /\ Append(g, c) # <<>>
           /\ Len(Append(g, c)) = Len(g) + 1
           /\ Append(g, c)[Len(g) + 1] = c
           /\ \A i \in 1..Len(g) : Append(g, c)[i] = g[i]
           /\ Prefix(Append(g, c), Len(g) + 1) = Append(g, c)
           /\ \A n \in 0..Len(g) : Prefix(Append(g, c), n) = Prefix(g, n)
           /\ Prefix(Append(g, c), Len(g)) = g
           /\ Len(g) < Depth => Append(g, c) \in Generation
<1>1. g \in Seq(Change) /\ Len(g) \in Nat
  BY GenerationFacts, StoreAssumption
<1>2. Append(g, c) \in Seq(Change) /\ Len(Append(g, c)) = Len(g) + 1
  BY <1>1
<1>3. Append(g, c)[Len(g) + 1] = c /\ \A i \in 1..Len(g) : Append(g, c)[i] = g[i]
  BY <1>1
<1>4. Prefix(Append(g, c), Len(g) + 1) = Append(g, c)
  BY <1>1, <1>2 DEF Prefix
<1>5. \A n \in 0..Len(g) : Prefix(Append(g, c), n) = Prefix(g, n)
  BY <1>1, <1>2 DEF Prefix
<1>6. Prefix(Append(g, c), Len(g)) = g
  BY <1>1, <1>2 DEF Prefix
<1>7. Append(g, c) # <<>>
  BY <1>1
<1>8. ASSUME Len(g) < Depth PROVE Append(g, c) \in Generation
  <2>1. Len(Append(g, c)) <= Depth
    BY <1>1, <1>2, <1>8, StoreAssumption
  <2> QED
    BY <1>2, <2>1, GenerationMade
<1> QED
  BY <1>2, <1>3, <1>4, <1>5, <1>6, <1>7, <1>8

(* The ledger of a generation and one more change. *)
LEMMA LedgerAppend ==
    ASSUME NEW g \in Generation, NEW c \in Change
    PROVE  Ledger(Append(g, c)) = Ledger(g) \cup Objects[c]
<1>1. DOMAIN Append(g, c) = DOMAIN g \cup {Len(g) + 1} /\ DOMAIN g = 1..Len(g)
  BY GenerationFacts, StoreAssumption
<1>2. /\ \A i \in DOMAIN g : Append(g, c)[i] = g[i]
      /\ Append(g, c)[Len(g) + 1] = c
  BY <1>1, AppendFacts
<1>3. ASSUME NEW x
      PROVE  x \in Ledger(Append(g, c)) <=> x \in Ledger(g) \/ x \in Objects[c]
  BY <1>1, <1>2 DEF Ledger
<1> QED
  BY <1>3

(* Nothing is listed before the first change. *)
LEMMA LedgerEmpty == Ledger(<<>>) = {}
BY DEF Ledger

(***************************************************************************)
(* Type correctness.                                                       *)
(***************************************************************************)
(* The initial state is well typed. *)
LEMMA TypeInit == Init => TypeOK
<1>1. Idle \in [pc : Steps, change : Change, base : Generation, todo : SUBSET Object,
                ok : BOOLEAN]
  BY EmptyGeneration, StoreAssumption DEF Idle, Steps
<1> QED
  BY <1>1, EmptyGeneration DEF Init, TypeOK

(* What is known of one call. *)
LEMMA CallFacts ==
    ASSUME TypeOK, NEW p \in Process
    PROVE  /\ calls[p].pc \in Steps /\ calls[p].change \in Change
           /\ calls[p].base \in Generation /\ calls[p].todo \subseteq Object
           /\ calls[p].ok \in BOOLEAN
BY DEF TypeOK

(* And of one that is over. *)
LEMMA IdleFacts == Idle.pc = "idle" /\ Idle.todo = {} /\ Idle.ok = FALSE
BY DEF Idle

(* Every step keeps the types. *)
LEMMA TypeStep == StoreInvariant /\ [Next]_vars => TypeOK'
<1> SUFFICES ASSUME StoreInvariant, [Next]_vars PROVE TypeOK'
  OBVIOUS
<1>1. TypeOK /\ Idle \in [pc : Steps, change : Change, base : Generation,
                          todo : SUBSET Object, ok : BOOLEAN]
  BY EmptyGeneration, StoreAssumption DEF StoreInvariant, Idle, Steps
<1>7. \A p \in Process : Failed(p) \in [pc : Steps, change : Change, base : Generation,
                                        todo : SUBSET Object, ok : BOOLEAN]
  BY <1>1 DEF Failed, TypeOK, Steps
<1>2. ASSUME NEW p \in Process, NEW c \in Change, Begin(p, c) PROVE TypeOK'
  BY <1>1, <1>2, StoreAssumption DEF Begin, TypeOK, Steps
<1>3. ASSUME NEW p \in Process, Step(p) PROVE TypeOK'
  <2>1. ASSUME NEW o \in Object, Put(p, o) PROVE TypeOK'
    BY <1>1, <2>1 DEF Put, TypeOK
  <2>2. CASE OpenLock(p)
    BY <1>1, <2>2 DEF OpenLock, Goto, TypeOK, Steps
  <2>3. CASE WriteLock(p) \/ ProbeLock(p)
    BY <1>1, <2>3 DEF WriteLock, ProbeLock, Goto, TypeOK, Steps
  <2>4. CASE Acquire(p) \/ CommitRefused(p)
    BY <1>1, <2>4 DEF Acquire, CommitRefused, Goto, TypeOK, Steps
  <2>5. CASE GiveUp(p)
    BY <1>1, <1>7, <2>5 DEF GiveUp, TypeOK
  <2>6. Target(p) \in Generation \/ At(p, "idle")
    BY <1>1, <1>3, CallFacts, AppendFacts DEF StoreInvariant, Intact, Step, CallInOrder, Target
  <2>7. CASE WriteManifest(p)
    BY <1>1, <2>6, <2>7 DEF WriteManifest, At, Goto, TypeOK, Steps
  <2>8. CASE ReplaceCurrent(p)
    BY <1>1, <2>6, <2>8 DEF ReplaceCurrent, At, TypeOK, Steps
  <2>9. CASE Release(p)
    BY <1>1, <1>7, <2>6, <2>9 DEF Release, At, TypeOK
  <2>10. CASE RemoveTree(p)
    BY <1>1, <2>10, EmptyGeneration DEF RemoveTree, TypeOK
  <2> QED
    BY <1>3, <2>1, <2>2, <2>3, <2>4, <2>5, <2>7, <2>8, <2>9, <2>10 DEF Step
<1>4. ASSUME NEW p \in Process, StepFails(p) PROVE TypeOK'
  BY <1>1, <1>4, <1>7 DEF StepFails, TypeOK
<1>5. ASSUME NEW p \in Process, Crash(p) PROVE TypeOK'
  BY <1>1, <1>5 DEF Crash, TypeOK
<1>6. CASE UNCHANGED vars
  BY <1>1, <1>6 DEF vars, TypeOK
<1> QED
  BY <1>2, <1>3, <1>4, <1>5, <1>6 DEF Next

(***************************************************************************)
(* The order of the steps of a command.                                    *)
(***************************************************************************)
(* A workspace that is not withdrawn. *)
Sound == TypeOK /\ ~withdrawn /\ Intact

(* Until there is a CURRENT nobody works beside the founding command. *)
LEMMA FounderAloneStep == Sound /\ [Next]_vars /\ ~withdrawn' => FounderAlone'
<1> SUFFICES ASSUME Sound, [Next]_vars, ~withdrawn' PROVE FounderAlone'
  OBVIOUS
<1> USE DEF Sound, Intact, TypeOK, At, FounderAlone, OthersFollow, FilesInOrder
<1>1. ASSUME NEW p \in Process, NEW c \in Change, Begin(p, c) PROVE FounderAlone'
  BY <1>1 DEF Begin
<1>2. ASSUME NEW p \in Process, NEW o \in Object, Put(p, o) PROVE FounderAlone'
  BY <1>2 DEF Put
<1>3. ASSUME NEW p \in Process, OpenLock(p) PROVE FounderAlone'
  <2>1. CASE lock_file = "absent"
    BY <1>3, <2>1 DEF OpenLock, Goto
  <2>2. CASE lock_file # "absent"
    BY <1>3, <2>2 DEF OpenLock, Goto
  <2> QED
    BY <2>1, <2>2
<1>4. ASSUME NEW p \in Process, WriteLock(p) PROVE FounderAlone'
  BY <1>4 DEF WriteLock, Goto
<1>5. ASSUME NEW p \in Process, ProbeLock(p) PROVE FounderAlone'
  BY <1>5 DEF ProbeLock, Goto
<1>6. ASSUME NEW p \in Process, Acquire(p) PROVE FounderAlone'
  BY <1>6 DEF Acquire, Goto
<1>7. ASSUME NEW p \in Process, GiveUp(p) PROVE FounderAlone'
  BY <1>7 DEF GiveUp, Failed, Idle
<1>8. ASSUME NEW p \in Process, CommitRefused(p) PROVE FounderAlone'
  BY <1>8 DEF CommitRefused, Goto
<1>9. ASSUME NEW p \in Process, WriteManifest(p) PROVE FounderAlone'
  BY <1>9 DEF WriteManifest, Goto
<1>10. ASSUME NEW p \in Process, ReplaceCurrent(p) PROVE FounderAlone'
  BY <1>10 DEF ReplaceCurrent
<1>11. ASSUME NEW p \in Process, Release(p) PROVE FounderAlone'
  BY <1>11 DEF Release, Failed, Idle
<1>12. ASSUME NEW p \in Process, StepFails(p) PROVE FounderAlone'
  BY <1>12 DEF StepFails, Failed, Idle, Steps
<1>13. ASSUME NEW p \in Process, Crash(p) PROVE FounderAlone'
  BY <1>13 DEF Crash, Idle
<1>14. ASSUME NEW p \in Process, RemoveTree(p) PROVE FounderAlone'
  BY <1>14 DEF RemoveTree, Idle
<1>15. CASE UNCHANGED vars
  BY <1>15 DEF vars
<1> QED
  BY <1>1, <1>2, <1>3, <1>4, <1>5, <1>6, <1>7, <1>8,
     <1>9, <1>10, <1>11, <1>12, <1>13, <1>14, <1>15 DEF Next, Step

(* Every other command works on a generation that is there. *)
LEMMA OthersFollowStep == Sound /\ [Next]_vars /\ ~withdrawn' => OthersFollow'
<1> SUFFICES ASSUME Sound, [Next]_vars, ~withdrawn' PROVE OthersFollow'
  OBVIOUS
<1> USE DEF Sound, Intact, TypeOK, At, FounderAlone, OthersFollow, FilesInOrder, Target
<1>1. ASSUME NEW p \in Process, NEW c \in Change, Begin(p, c) PROVE OthersFollow'
  BY <1>1 DEF Begin
<1>2. ASSUME NEW p \in Process, NEW o \in Object, Put(p, o) PROVE OthersFollow'
  BY <1>2 DEF Put
<1>3. ASSUME NEW p \in Process, OpenLock(p) PROVE OthersFollow'
  <2>1. CASE lock_file = "absent"
    BY <1>3, <2>1 DEF OpenLock, Goto
  <2>2. CASE lock_file # "absent"
    BY <1>3, <2>2 DEF OpenLock, Goto
  <2> QED
    BY <2>1, <2>2
<1>4. ASSUME NEW p \in Process, WriteLock(p) PROVE OthersFollow'
  BY <1>4 DEF WriteLock, Goto
<1>5. ASSUME NEW p \in Process, ProbeLock(p) PROVE OthersFollow'
  BY <1>5 DEF ProbeLock, Goto
<1>6. ASSUME NEW p \in Process, Acquire(p) PROVE OthersFollow'
  BY <1>6 DEF Acquire, Goto
<1>7. ASSUME NEW p \in Process, GiveUp(p) PROVE OthersFollow'
  BY <1>7 DEF GiveUp, Failed, Idle
<1>8. ASSUME NEW p \in Process, CommitRefused(p) PROVE OthersFollow'
  BY <1>8 DEF CommitRefused, Goto
<1>9. ASSUME NEW p \in Process, WriteManifest(p) PROVE OthersFollow'
  BY <1>9 DEF WriteManifest, Goto
<1>10. ASSUME NEW p \in Process, ReplaceCurrent(p) PROVE OthersFollow'
  BY <1>10 DEF ReplaceCurrent
<1>11. ASSUME NEW p \in Process, Release(p) PROVE OthersFollow'
  BY <1>11 DEF Release, Failed, Idle
<1>12. ASSUME NEW p \in Process, StepFails(p) PROVE OthersFollow'
  BY <1>12 DEF StepFails, Failed, Idle, Steps
<1>13. ASSUME NEW p \in Process, Crash(p) PROVE OthersFollow'
  BY <1>13 DEF Crash, Idle
<1>14. ASSUME NEW p \in Process, RemoveTree(p) PROVE OthersFollow'
  BY <1>14 DEF RemoveTree, Idle
<1>15. CASE UNCHANGED vars
  BY <1>15 DEF vars
<1> QED
  BY <1>1, <1>2, <1>3, <1>4, <1>5, <1>6, <1>7, <1>8,
     <1>9, <1>10, <1>11, <1>12, <1>13, <1>14, <1>15 DEF Next, Step

(* Only the founding generation consists of the founding change. *)
LEMMA FoundingAlone ==
    ASSUME NEW g \in Generation, NEW c \in Change, Append(g, c) = <<Founding>>
    PROVE  g = <<>> /\ c = Founding
<1>1. g \in Seq(Change) /\ Len(g) \in Nat
  BY GenerationFacts, StoreAssumption
<1>2. Len(Append(g, c)) = Len(g) + 1 /\ Append(g, c)[Len(g) + 1] = c
  BY AppendFacts
<1>3. Len(g) = 0
  BY <1>1, <1>2
<1> QED
  BY <1>1, <1>2, <1>3

(* A founding is reported once, at its end. *)
LEMMA FoundingOnceStep == Sound /\ [Next]_vars /\ ~withdrawn' => FoundingOnce'
<1> SUFFICES ASSUME Sound, [Next]_vars, ~withdrawn' PROVE FoundingOnce'
  OBVIOUS
<1> USE DEF Sound, Intact, TypeOK, At, FoundingOnce, FilesInOrder
<1>1. ASSUME NEW p \in Process, NEW c \in Change, Begin(p, c) PROVE FoundingOnce'
  BY <1>1 DEF Begin
<1>2. ASSUME NEW p \in Process, NEW o \in Object, Put(p, o) PROVE FoundingOnce'
  BY <1>2 DEF Put
<1>3. ASSUME NEW p \in Process, OpenLock(p) PROVE FoundingOnce'
  <2>1. CASE lock_file = "absent"
    BY <1>3, <2>1 DEF OpenLock, Goto
  <2>2. CASE lock_file # "absent"
    BY <1>3, <2>2 DEF OpenLock, Goto
  <2> QED
    BY <2>1, <2>2
<1>4. ASSUME NEW p \in Process, WriteLock(p) PROVE FoundingOnce'
  BY <1>4 DEF WriteLock, Goto
<1>5. ASSUME NEW p \in Process, ProbeLock(p) PROVE FoundingOnce'
  BY <1>5 DEF ProbeLock, Goto
<1>6. ASSUME NEW p \in Process, Acquire(p) PROVE FoundingOnce'
  BY <1>6 DEF Acquire, Goto
<1>7. ASSUME NEW p \in Process, GiveUp(p) PROVE FoundingOnce'
  BY <1>7 DEF GiveUp, Failed, Idle
<1>8. ASSUME NEW p \in Process, CommitRefused(p) PROVE FoundingOnce'
  BY <1>8 DEF CommitRefused, Goto
<1>9. ASSUME NEW p \in Process, WriteManifest(p) PROVE FoundingOnce'
  BY <1>9 DEF WriteManifest, Goto
<1>10. ASSUME NEW p \in Process, ReplaceCurrent(p) PROVE FoundingOnce'
  BY <1>10 DEF ReplaceCurrent
<1>11. ASSUME NEW p \in Process, Release(p) PROVE FoundingOnce'
  <2>1. calls[p].change # Founding => <<Founding>> \notin {Target(p)}
    BY FoundingAlone DEF Target
  <2>2. \A q \in Process \ {p} : calls'[q] = calls[q]
    BY <1>11 DEF Release
  <2>3. calls'[p] = Idle \/ calls'[p] = Failed(p)
    BY <1>11 DEF Release
  <2>4. acked' = acked \/ (acked' = acked \cup {Target(p)} /\ calls'[p] = Idle)
    BY <1>11 DEF Release
  <2> QED
    BY <1>11, <2>1, <2>2, <2>3, <2>4 DEF Release, Failed, Idle
<1>12. ASSUME NEW p \in Process, StepFails(p) PROVE FoundingOnce'
  BY <1>12 DEF StepFails, Failed, Idle, Steps
<1>13. ASSUME NEW p \in Process, Crash(p) PROVE FoundingOnce'
  BY <1>13 DEF Crash, Idle
<1>14. ASSUME NEW p \in Process, RemoveTree(p) PROVE FoundingOnce'
  BY <1>14 DEF RemoveTree, Idle
<1>15. CASE UNCHANGED vars
  BY <1>15 DEF vars
<1> QED
  BY <1>1, <1>2, <1>3, <1>4, <1>5, <1>6, <1>7, <1>8,
     <1>9, <1>10, <1>11, <1>12, <1>13, <1>14, <1>15 DEF Next, Step

(* Files appear in order: directory, lock file, CURRENT, answers. *)
LEMMA FilesInOrderStep == Sound /\ [Next]_vars /\ ~withdrawn' => FilesInOrder'
<1> SUFFICES ASSUME Sound, [Next]_vars, ~withdrawn' PROVE FilesInOrder'
  OBVIOUS
<1> USE DEF Sound, Intact, TypeOK, At, FounderAlone, OthersFollow, FilesInOrder, CallInOrder
<1>1. ASSUME NEW p \in Process, NEW c \in Change, Begin(p, c) PROVE FilesInOrder'
  BY <1>1 DEF Begin
<1>2. ASSUME NEW p \in Process, NEW o \in Object, Put(p, o) PROVE FilesInOrder'
  BY <1>2 DEF Put
<1>3. ASSUME NEW p \in Process, OpenLock(p) PROVE FilesInOrder'
  <2>1. CASE lock_file = "absent"
    BY <1>3, <2>1 DEF OpenLock, Goto
  <2>2. CASE lock_file # "absent"
    BY <1>3, <2>2 DEF OpenLock, Goto
  <2> QED
    BY <2>1, <2>2
<1>4. ASSUME NEW p \in Process, WriteLock(p) PROVE FilesInOrder'
  BY <1>4 DEF WriteLock, Goto
<1>5. ASSUME NEW p \in Process, ProbeLock(p) PROVE FilesInOrder'
  BY <1>5 DEF ProbeLock, Goto
<1>6. ASSUME NEW p \in Process, Acquire(p) PROVE FilesInOrder'
  BY <1>6 DEF Acquire, Goto
<1>7. ASSUME NEW p \in Process, GiveUp(p) PROVE FilesInOrder'
  BY <1>7 DEF GiveUp, Failed, Idle
<1>8. ASSUME NEW p \in Process, CommitRefused(p) PROVE FilesInOrder'
  BY <1>8 DEF CommitRefused, Goto
<1>9. ASSUME NEW p \in Process, WriteManifest(p) PROVE FilesInOrder'
  BY <1>9 DEF WriteManifest, Goto
<1>10. ASSUME NEW p \in Process, ReplaceCurrent(p) PROVE FilesInOrder'
  BY <1>10 DEF ReplaceCurrent
<1>11. ASSUME NEW p \in Process, Release(p) PROVE FilesInOrder'
  BY <1>11, CallFacts, AppendFacts DEF Release, Failed, Idle, Target
<1>12. ASSUME NEW p \in Process, StepFails(p) PROVE FilesInOrder'
  BY <1>12 DEF StepFails, Failed, Idle, Steps
<1>13. ASSUME NEW p \in Process, Crash(p) PROVE FilesInOrder'
  BY <1>13 DEF Crash, Idle
<1>14. ASSUME NEW p \in Process, RemoveTree(p) PROVE FilesInOrder'
  BY <1>14 DEF RemoveTree, Idle
<1>15. CASE UNCHANGED vars
  BY <1>15 DEF vars
<1> QED
  BY <1>1, <1>2, <1>3, <1>4, <1>5, <1>6, <1>7, <1>8,
     <1>9, <1>10, <1>11, <1>12, <1>13, <1>14, <1>15 DEF Next, Step

(* A command stores its objects before it takes the lock, and compares before it writes. *)
LEMMA CallInOrderStep == Sound /\ [Next]_vars /\ ~withdrawn' => (\A q \in Process : CallInOrder(q))'
<1> SUFFICES ASSUME Sound, [Next]_vars, ~withdrawn' PROVE (\A q \in Process : CallInOrder(q))'
  OBVIOUS
<1> USE DEF Sound, Intact, TypeOK, At, FounderAlone, FilesInOrder, OneWriter, CallInOrder, Target
<1>1. ASSUME NEW p \in Process, NEW c \in Change, Begin(p, c) PROVE (\A q \in Process : CallInOrder(q))'
  BY <1>1, StoreAssumption DEF Begin
<1>2. ASSUME NEW p \in Process, NEW o \in Object, Put(p, o) PROVE (\A q \in Process : CallInOrder(q))'
  BY <1>2, StoreAssumption DEF Put
<1>3. ASSUME NEW p \in Process, OpenLock(p) PROVE (\A q \in Process : CallInOrder(q))'
  <2>1. CASE lock_file = "absent"
    BY <1>3, <2>1, StoreAssumption DEF OpenLock, Goto
  <2>2. CASE lock_file # "absent"
    BY <1>3, <2>2, SMTT(30) DEF OpenLock, Goto
  <2> QED
    BY <2>1, <2>2
<1>4. ASSUME NEW p \in Process, WriteLock(p) PROVE (\A q \in Process : CallInOrder(q))'
  BY <1>4, StoreAssumption DEF WriteLock, Goto
<1>5. ASSUME NEW p \in Process, ProbeLock(p) PROVE (\A q \in Process : CallInOrder(q))'
  BY <1>5, StoreAssumption DEF ProbeLock, Goto
<1>6. ASSUME NEW p \in Process, Acquire(p) PROVE (\A q \in Process : CallInOrder(q))'
  BY <1>6, StoreAssumption DEF Acquire, Goto
<1>7. ASSUME NEW p \in Process, GiveUp(p) PROVE (\A q \in Process : CallInOrder(q))'
  <2>1. ~calls[p].ok /\ Failed(p).ok = FALSE
    BY <1>7 DEF GiveUp, Failed, Idle
  <2>2. \A q \in Process \ {p} : calls'[q] = calls[q]
    BY <1>7 DEF GiveUp
  <2>3. \A q \in Process \ {p} : CallInOrder(q)'
    BY <1>7, <2>2 DEF GiveUp
  <2>4. CallInOrder(p)'
    BY <1>7, <2>1 DEF GiveUp, Failed, Idle
  <2> QED
    BY <2>3, <2>4
<1>8. ASSUME NEW p \in Process, CommitRefused(p) PROVE (\A q \in Process : CallInOrder(q))'
  BY <1>8, StoreAssumption DEF CommitRefused, Goto
<1>9. ASSUME NEW p \in Process, WriteManifest(p) PROVE (\A q \in Process : CallInOrder(q))'
  BY <1>9, StoreAssumption DEF WriteManifest, Goto
<1>10. ASSUME NEW p \in Process, ReplaceCurrent(p) PROVE (\A q \in Process : CallInOrder(q))'
  BY <1>10, StoreAssumption DEF ReplaceCurrent
<1>11. ASSUME NEW p \in Process, Release(p) PROVE (\A q \in Process : CallInOrder(q))'
  <2>1. \A q \in Process \ {p} : calls'[q] = calls[q]
    BY <1>11 DEF Release
  <2>2. \A q \in Process \ {p} : CallInOrder(q)'
    BY <1>11, <2>1 DEF Release
  <2>3. CASE calls[p].ok
    <3>1. calls'[p] = Idle
      BY <1>11, <2>3 DEF Release
    <3>2. CallInOrder(p)'
      BY <3>1, IdleFacts
    <3> QED
      BY <2>2, <3>2
  <2>4. CASE ~calls[p].ok
    <3>1. calls'[p] = Failed(p)
      BY <1>11, <2>4 DEF Release
    <3>2. CallInOrder(p)'
      BY <1>11, <2>4, <3>1 DEF Release, Failed, Idle
    <3> QED
      BY <2>2, <3>2
  <2> QED
    BY <2>3, <2>4
<1>12. ASSUME NEW p \in Process, StepFails(p) PROVE (\A q \in Process : CallInOrder(q))'
  <2>1. \A q \in Process \ {p} : calls'[q] = calls[q]
    BY <1>12 DEF StepFails
  <2>2. \A q \in Process \ {p} : CallInOrder(q)'
    BY <1>12, <2>1 DEF StepFails
  <2>3. calls'[p] = Failed(p) /\ current' = current /\ cas' = cas
    BY <1>12 DEF StepFails
  <2>4. calls[p].ok => current # <<>>
    BY <1>12, CallFacts, AppendFacts DEF StepFails, Steps
  <2>5. CallInOrder(p)'
    BY <1>12, <2>3, <2>4 DEF StepFails, Failed, Idle
  <2> QED
    BY <2>2, <2>5
<1>13. ASSUME NEW p \in Process, Crash(p) PROVE (\A q \in Process : CallInOrder(q))'
  BY <1>13, StoreAssumption DEF Crash, Idle
<1>14. ASSUME NEW p \in Process, RemoveTree(p) PROVE (\A q \in Process : CallInOrder(q))'
  <2>1. calls'[p] = Idle /\ \A q \in Process \ {p} : calls'[q] = calls[q]
    BY <1>14 DEF RemoveTree
  <2>2. \A q \in Process \ {p} : calls[q] = Idle
    BY <1>14 DEF RemoveTree, FoundingOnce
  <2>3. ASSUME NEW q \in Process PROVE CallInOrder(q)'
    <3>1. calls'[q] = Idle
      BY <2>1, <2>2
    <3> QED
      BY <3>1, IdleFacts
  <2> QED
    BY <2>3
<1>15. CASE UNCHANGED vars
  BY <1>15 DEF vars
<1> QED
  BY <1>1, <1>2, <1>3, <1>4, <1>5, <1>6, <1>7, <1>8,
     <1>9, <1>10, <1>11, <1>12, <1>13, <1>14, <1>15 DEF Next, Step

(* One command at a time is between comparison and release. *)
LEMMA OneWriterStep == Sound /\ [Next]_vars /\ ~withdrawn' => OneWriter'
<1> SUFFICES ASSUME Sound, [Next]_vars, ~withdrawn' PROVE OneWriter'
  OBVIOUS
<1> USE DEF Sound, Intact, TypeOK, At, FounderAlone, FilesInOrder, OneWriter, CallInOrder, Target
<1>1. ASSUME NEW p \in Process, NEW c \in Change, Begin(p, c) PROVE OneWriter'
  BY <1>1, StoreAssumption DEF Begin
<1>2. ASSUME NEW p \in Process, NEW o \in Object, Put(p, o) PROVE OneWriter'
  BY <1>2, StoreAssumption DEF Put
<1>3. ASSUME NEW p \in Process, OpenLock(p) PROVE OneWriter'
  <2>1. CASE lock_file = "absent"
    BY <1>3, <2>1, StoreAssumption DEF OpenLock, Goto
  <2>2. CASE lock_file # "absent"
    BY <1>3, <2>2, StoreAssumption DEF OpenLock, Goto
  <2> QED
    BY <2>1, <2>2
<1>4. ASSUME NEW p \in Process, WriteLock(p) PROVE OneWriter'
  BY <1>4, StoreAssumption DEF WriteLock, Goto
<1>5. ASSUME NEW p \in Process, ProbeLock(p) PROVE OneWriter'
  BY <1>5, StoreAssumption DEF ProbeLock, Goto
<1>6. ASSUME NEW p \in Process, Acquire(p) PROVE OneWriter'
  BY <1>6, StoreAssumption DEF Acquire, Goto
<1>7. ASSUME NEW p \in Process, GiveUp(p) PROVE OneWriter'
  BY <1>7, StoreAssumption DEF GiveUp, Failed, Idle
<1>8. ASSUME NEW p \in Process, CommitRefused(p) PROVE OneWriter'
  BY <1>8, StoreAssumption DEF CommitRefused, Goto
<1>9. ASSUME NEW p \in Process, WriteManifest(p) PROVE OneWriter'
  BY <1>9, StoreAssumption DEF WriteManifest, Goto
<1>10. ASSUME NEW p \in Process, ReplaceCurrent(p) PROVE OneWriter'
  BY <1>10, StoreAssumption DEF ReplaceCurrent
<1>11. ASSUME NEW p \in Process, Release(p) PROVE OneWriter'
  BY <1>11, StoreAssumption DEF Release, Failed, Idle
<1>12. ASSUME NEW p \in Process, StepFails(p) PROVE OneWriter'
  BY <1>12, StoreAssumption DEF StepFails, Failed, Idle, Steps
<1>13. ASSUME NEW p \in Process, Crash(p) PROVE OneWriter'
  BY <1>13, StoreAssumption DEF Crash, Idle
<1>14. ASSUME NEW p \in Process, RemoveTree(p) PROVE OneWriter'
  <2>1. calls'[p] = Idle /\ \A q \in Process \ {p} : calls'[q] = calls[q]
    BY <1>14 DEF RemoveTree
  <2>2. \A q \in Process \ {p} : calls[q] = Idle
    BY <1>14 DEF RemoveTree, FoundingOnce
  <2>3. holder' = holder /\ calls[p].pc = "remove"
    BY <1>14 DEF RemoveTree
  <2>4. ASSUME NEW q \in Process PROVE holder' # q /\ calls'[q].pc = "idle"
    <3>1. calls[q].pc = "idle" \/ calls[q].pc = "remove"
      BY <2>2, <2>3, IdleFacts
    <3>2. calls'[q] = Idle
      BY <2>1, <2>2
    <3> QED
      BY <2>3, <3>1, <3>2, IdleFacts
  <2> QED
    BY <2>4
<1>15. CASE UNCHANGED vars
  BY <1>15 DEF vars
<1> QED
  BY <1>1, <1>2, <1>3, <1>4, <1>5, <1>6, <1>7, <1>8,
     <1>9, <1>10, <1>11, <1>12, <1>13, <1>14, <1>15 DEF Next, Step

(***************************************************************************)
(* What the files hold.                                                    *)
(***************************************************************************)
(* A step leaves CURRENT alone and only adds objects and manifests, or replaces CURRENT, or
   undoes a founding that nobody has seen. *)
LEMMA FileSteps ==
    ASSUME Sound, [Next]_vars, ~withdrawn'
    PROVE  \/ /\ current' = current
              /\ cas \subseteq cas' /\ manifests \subseteq manifests'
              /\ acked' = acked \/ acked' = acked \cup {current}
           \/ \E p \in Process : ReplaceCurrent(p)
           \/ current = <<>> /\ current' = <<>> /\ acked = {} /\ acked' = {}
<1>1. ASSUME NEW p \in Process, Step(p), ~RemoveTree(p)
      PROVE  \/ /\ current' = current
                /\ cas \subseteq cas' /\ manifests \subseteq manifests'
                /\ acked' = acked \/ acked' = acked \cup {current}
             \/ ReplaceCurrent(p)
  BY <1>1 DEF Sound, Intact, CallInOrder, At, Step, Put, OpenLock, WriteLock, ProbeLock, Acquire,
              GiveUp, CommitRefused, WriteManifest, Release
<1>2. ASSUME NEW p \in Process, RemoveTree(p)
      PROVE  current = <<>> /\ current' = <<>> /\ acked = {} /\ acked' = {}
  BY <1>2 DEF Sound, Intact, FilesInOrder, RemoveTree
<1> QED
  BY <1>1, <1>2 DEF Next, vars, Begin, StepFails, Crash

(* The command that replaces CURRENT extends it by a change whose objects are there. *)
LEMMA ReplaceFacts ==
    ASSUME Sound, NEW p \in Process, ReplaceCurrent(p)
    PROVE  /\ current' = Append(current, calls[p].change)
           /\ calls[p].change \in Change /\ current \in Generation /\ current' \in manifests
           /\ cas' = cas /\ manifests' = manifests /\ acked' = acked
           /\ Objects[calls[p].change] \subseteq cas
           /\ LedgerSound(current, calls[p].change)
           /\ current = <<>> => calls[p].change = Founding
BY DEF Sound, Intact, TypeOK, OneWriter, CallInOrder, OthersFollow, ReplaceCurrent, Target, At

(* Every generation of the chain keeps its manifest. *)
LEMMA ChainInPlaceStep == Sound /\ [Next]_vars /\ ~withdrawn' => ChainInPlace'
<1> SUFFICES ASSUME Sound, [Next]_vars, ~withdrawn' PROVE ChainInPlace'
  OBVIOUS
<1>1. ASSUME NEW p \in Process, ReplaceCurrent(p) PROVE ChainInPlace'
  <2>1. /\ Len(current') = Len(current) + 1 /\ Prefix(current', Len(current) + 1) = current'
        /\ \A n \in 0..Len(current) : Prefix(current', n) = Prefix(current, n)
        /\ Len(current) \in Nat
    <3>1. /\ current' = Append(current, calls[p].change)
          /\ current \in Generation /\ calls[p].change \in Change
      BY <1>1, ReplaceFacts
    <3> QED
      BY <3>1, AppendFacts, GenerationFacts, StoreAssumption
  <2> QED
    BY <1>1, <2>1, ReplaceFacts DEF Sound, Intact, ChainInPlace
<1>2. CASE current' = <<>>
  BY <1>2 DEF ChainInPlace
<1> QED
  BY <1>1, <1>2, FileSteps DEF Sound, Intact, ChainInPlace

(* Whatever CURRENT lists is stored. *)
LEMMA LedgerStoredStep == Sound /\ [Next]_vars /\ ~withdrawn' => (Ledger(current) \subseteq cas)'
<1> SUFFICES ASSUME Sound, [Next]_vars, ~withdrawn' PROVE Ledger(current') \subseteq cas'
  OBVIOUS
<1>1. ASSUME NEW p \in Process, ReplaceCurrent(p) PROVE Ledger(current') \subseteq cas'
  BY <1>1, ReplaceFacts, LedgerAppend DEF Sound, Intact
<1>2. CASE current' = <<>>
  BY <1>2, LedgerEmpty
<1> QED
  BY <1>1, <1>2, FileSteps DEF Sound, Intact

(* A ledger stays free of duplicates, and closed under its sources. *)
LEMMA LedgerClosedStep == Sound /\ [Next]_vars /\ ~withdrawn' => LedgerClosed'
<1> SUFFICES ASSUME Sound, [Next]_vars, ~withdrawn' PROVE LedgerClosed'
  OBVIOUS
<1>1. ASSUME NEW p \in Process, ReplaceCurrent(p) PROVE LedgerClosed'
  <2> DEFINE n == Len(current) + 1
             c == calls[p].change
  <2>1. /\ DOMAIN current = 1..Len(current) /\ DOMAIN current' = 1..n /\ Len(current) \in Nat
        /\ \A i \in 1..Len(current) : /\ current'[i] = current[i]
                                      /\ Prefix(current', i) = Prefix(current, i)
        /\ current'[n] = c /\ Prefix(current', n) = current'
    <3>1. current \in Generation /\ c \in Change /\ current' = Append(current, c)
      BY <1>1, ReplaceFacts
    <3>2. Len(current) \in Nat /\ DOMAIN current = 1..Len(current)
      BY <3>1, GenerationFacts
    <3> QED
      BY <3>1, <3>2, AppendFacts
  <2>2. \A i \in 1..Len(current) : Objects[c] \cap Objects[current[i]] = {}
    BY <1>1, <2>1, ReplaceFacts DEF LedgerSound, Ledger
  <2>3. Sources[c] \subseteq Ledger(current')
    BY <1>1, ReplaceFacts DEF LedgerSound
  <2>4. ASSUME NEW i \in 1..n, NEW j \in 1..n, i # j
        PROVE  Objects[current'[i]] \cap Objects[current'[j]] = {}
    BY <2>1, <2>2, <2>4 DEF Sound, Intact, LedgerClosed
  <2>5. ASSUME NEW i \in 1..n PROVE Sources[current'[i]] \subseteq Ledger(Prefix(current', i))
    BY <2>1, <2>3 DEF Sound, Intact, LedgerClosed
  <2> QED
    BY <2>1, <2>4, <2>5 DEF LedgerClosed
<1>2. CASE current' = <<>>
  BY <1>2 DEF LedgerClosed
<1> QED
  BY <1>1, <1>2, FileSteps DEF Sound, Intact, LedgerClosed

(* What was reported stays in the chain. *)
LEMMA AckedStaysStep == Sound /\ [Next]_vars /\ ~withdrawn' => AckedStays'
<1> SUFFICES ASSUME Sound, [Next]_vars, ~withdrawn' PROVE AckedStays'
  OBVIOUS
<1>1. \A g \in acked : g \in Generation /\ Len(g) \in 0..Len(current)
  BY GenerationFacts DEF Sound, Intact, TypeOK, AckedStays
<1>2. ASSUME NEW p \in Process, ReplaceCurrent(p) PROVE AckedStays'
  <2>1. /\ Len(current') = Len(current) + 1 /\ Len(current) \in Nat
        /\ \A n \in 0..Len(current) : Prefix(current', n) = Prefix(current, n)
    <3>1. /\ current' = Append(current, calls[p].change)
          /\ current \in Generation /\ calls[p].change \in Change
      BY <1>2, ReplaceFacts
    <3> QED
      BY <3>1, AppendFacts, GenerationFacts, StoreAssumption
  <2> QED
    BY <1>1, <1>2, <2>1, ReplaceFacts DEF Sound, Intact, AckedStays
<1>3. Len(current) \in Nat /\ Prefix(current, Len(current)) = current
  BY GenerationFacts DEF Sound, Intact, TypeOK, Prefix
<1>4. CASE current' = current /\ (acked' = acked \/ acked' = acked \cup {current})
  BY <1>3, <1>4 DEF Sound, Intact, AckedStays
<1>5. CASE acked' = {}
  BY <1>5 DEF AckedStays
<1> QED
  BY <1>2, <1>4, <1>5, FileSteps

(***************************************************************************)
(* The theorems.                                                           *)
(***************************************************************************)
(* The invariant holds at the start. *)
LEMMA StoreInit == Init => StoreInvariant
<1> SUFFICES ASSUME Init PROVE StoreInvariant
  OBVIOUS
<1>1. TypeOK /\ FoundingSettles
  BY TypeInit DEF Init, FoundingSettles
<1>2. FounderAlone /\ FoundingOnce /\ OthersFollow /\ FilesInOrder /\ OneWriter
  BY StoreAssumption
  DEF Init, FounderAlone, FoundingOnce, OthersFollow, FilesInOrder, OneWriter, At, Idle
<1>3. \A p \in Process : CallInOrder(p)
  BY DEF Init, CallInOrder, At, Idle
<1>4. ChainInPlace /\ Ledger(current) \subseteq cas /\ LedgerClosed /\ AckedStays
  BY LedgerEmpty DEF Init, ChainInPlace, LedgerClosed, AckedStays
<1> QED
  BY <1>1, <1>2, <1>3, <1>4 DEF StoreInvariant, Intact

(* A withdrawal is the founding command's, which has not reported. *)
LEMMA WithdrawalFacts ==
    ASSUME Sound, [Next]_vars, withdrawn'
    PROVE  /\ \E p \in Process : RemoveTree(p) /\ At(p, "remove") /\ current # <<>> /\ calls[p].ok
           /\ <<Founding>> \notin acked /\ acked' = acked
<1>1. ASSUME NEW p \in Process, Begin(p, calls[p].change) \/ StepFails(p) \/ Crash(p) PROVE FALSE
  BY <1>1 DEF Sound, Begin, StepFails, Crash
<1>2. ASSUME NEW p \in Process, NEW c \in Change, Begin(p, c) PROVE FALSE
  BY <1>2 DEF Sound, Begin
<1>3. PICK p \in Process : RemoveTree(p)
  <2>1. PICK p \in Process : Step(p)
    BY <1>1, <1>2 DEF Sound, Next, vars
  <2> QED
    BY <2>1 DEF Sound, Step, Put, OpenLock, WriteLock, ProbeLock, Acquire, GiveUp, CommitRefused,
                WriteManifest, ReplaceCurrent, Release
<1>4. At(p, "remove") /\ current # <<>> /\ acked' = acked
  BY <1>3 DEF RemoveTree
<1>5. ~At(p, "idle") /\ calls[p].change = Founding /\ <<Founding>> \notin acked
  BY <1>4 DEF Sound, Intact, FoundingOnce, At
<1>6. calls[p].ok
  BY <1>4, <1>5 DEF Sound, Intact, FounderAlone
<1> QED
  BY <1>3, <1>4, <1>5, <1>6

(* Every step keeps it. *)
LEMMA StoreStep == StoreInvariant /\ [Next]_vars => StoreInvariant'
<1> SUFFICES ASSUME StoreInvariant, [Next]_vars PROVE StoreInvariant'
  OBVIOUS
<1>1. CASE withdrawn
  BY <1>1, TypeStep DEF Next, vars, StoreInvariant, FoundingSettles
<1>2. CASE ~withdrawn /\ withdrawn'
  BY <1>2, TypeStep, WithdrawalFacts DEF StoreInvariant, Sound, FoundingSettles
<1>3. CASE ~withdrawn /\ ~withdrawn'
  <2>1. Sound
    BY <1>3 DEF StoreInvariant, Sound
  <2>2. /\ FounderAlone' /\ FoundingOnce' /\ OthersFollow' /\ FilesInOrder'
        /\ (\A p \in Process : CallInOrder(p))' /\ OneWriter'
    BY <1>3, <2>1, FounderAloneStep, FoundingOnceStep, OthersFollowStep, FilesInOrderStep,
       CallInOrderStep, OneWriterStep
  <2>3. ChainInPlace' /\ (Ledger(current) \subseteq cas)' /\ LedgerClosed' /\ AckedStays'
    BY <1>3, <2>1, ChainInPlaceStep, LedgerStoredStep, LedgerClosedStep, AckedStaysStep
  <2> QED
    BY <1>3, <2>2, <2>3, TypeStep DEF StoreInvariant, Intact, FoundingSettles
<1> QED
  BY <1>1, <1>2, <1>3

(* Whatever is killed or fails between any two steps of generation_v5.py, or after CURRENT is
   replaced, the parts of the store fit together; until a founding command that never reported
   removes what it published (initialize_workspace_v5). *)
THEOREM StoreInvariantHolds == Spec => []StoreInvariant
<1> QED
  BY StoreInit, StoreStep, PTL DEF Spec

(* The chain of CURRENT loads, and what it lists is in the CAS (commit, verify_chain). *)
THEOREM CurrentAlwaysLoads == Spec => []CurrentLoads
<1>1. StoreInvariant => CurrentLoads
  BY DEF StoreInvariant, Intact, ChainInPlace, CurrentLoads, WalkSucceeds
<1> QED
  BY <1>1, StoreInvariantHolds, PTL

(* A commit once reported stays, unless a founding that failed after publishing, and never
   reported, takes the workspace back; where the founding was reported, nothing does. *)
THEOREM ReportedStays ==
    Spec => []((withdrawn \/ AckedStays) /\ (<<Founding>> \in acked => AckedStays))
<1>1. StoreInvariant => (withdrawn \/ AckedStays) /\ (<<Founding>> \in acked => AckedStays)
  BY DEF StoreInvariant, Intact, FoundingSettles
<1> QED
  BY <1>1, StoreInvariantHolds, PTL

(* The workspace lock admits one command at a time, and is ready for every one that looks. *)
THEOREM WritersExclude == Spec => [](withdrawn \/ (OneWriter /\ LockReady))
<1>1. StoreInvariant => withdrawn \/ (OneWriter /\ LockReady)
  BY DEF StoreInvariant, Intact, FilesInOrder, LockReady, At
<1> QED
  BY <1>1, StoreInvariantHolds, PTL

(* No ledger lists an object twice or names a source it does not have. *)
THEOREM LedgersClosed == Spec => [](withdrawn \/ LedgerClosed)
<1>1. StoreInvariant => withdrawn \/ LedgerClosed
  BY DEF StoreInvariant, Intact
<1> QED
  BY <1>1, StoreInvariantHolds, PTL

(***************************************************************************)
(* The store implements the generation log.                                *)
(***************************************************************************)
(* The empty chain has an empty log. *)
LEMMA LogEmpty == LogOf(<<>>) = <<>>
BY DEF LogOf

(* A sequence that has one element more. *)
LEMMA OneMore ==
    ASSUME NEW S, NEW n \in Nat, NEW x \in S, NEW f \in [1..n -> S],
           NEW h \in [1..(n + 1) -> S], \A i \in 1..n : h[i] = f[i], h[n + 1] = x
    PROVE  h = Append(f, x)
<1>1. f \in Seq(S) /\ Len(f) = n
  OBVIOUS
<1>2. h \in Seq(S) /\ Len(h) = n + 1
  OBVIOUS
<1> QED
  BY <1>1, <1>2

(* The log of a chain and one more change. *)
LEMMA LogAppend ==
    ASSUME NEW g \in Generation, NEW c \in Change
    PROVE  /\ LogOf(Append(g, c)) = Append(LogOf(g), Append(g, c))
           /\ g # <<>> => LogOf(g) # <<>> /\ LogOf(g)[Len(LogOf(g))] = g
<1> DEFINE h == Append(g, c)
<1>1. /\ g \in Seq(Change) /\ Len(g) \in Nat
      /\ Len(h) = Len(g) + 1 /\ Prefix(h, Len(g) + 1) = h
      /\ \A n \in 1..Len(g) : Prefix(h, n) = Prefix(g, n)
  BY GenerationFacts, AppendFacts, StoreAssumption
<1>2. PICK n \in Nat : n = Len(g)
  BY <1>1
<1> DEFINE S == {Prefix(g, i) : i \in 1..n} \cup {h}
           f == LogOf(g)
<1>3. f \in [1..n -> S] /\ f \in Seq(S) /\ Len(f) = n
  BY <1>2 DEF LogOf
<1>4. LogOf(h) = [i \in 1..(n + 1) |-> Prefix(h, i)]
  BY <1>1, <1>2 DEF LogOf
<1>5. \A i \in 1..n : LogOf(h)[i] = f[i]
  BY <1>1, <1>2, <1>4 DEF LogOf
<1>6. LogOf(h)[n + 1] = h /\ h \in S
  BY <1>1, <1>2, <1>4
<1>7. LogOf(h) = Append(f, h)
  <2>1. \A i \in 1..(n + 1) : Prefix(h, i) \in S
    BY <1>1, <1>2
  <2>2. LogOf(h) \in [1..(n + 1) -> S]
    BY <1>4, <2>1
  <2> HIDE DEF f, h, S
  <2> QED
    BY <1>3, <1>5, <1>6, <2>2, OneMore
<1>8. ASSUME g # <<>> PROVE f # <<>> /\ f[Len(f)] = g
  <2>1. n # 0 /\ Prefix(g, n) = g
    BY <1>1, <1>2, <1>8 DEF Prefix
  <2>2. f[n] = g
    BY <2>1, <1>2 DEF LogOf
  <2> QED
    BY <1>3, <2>1, <2>2
<1> QED
  BY <1>7, <1>8

(* Replacing CURRENT creates the log or appends to it; no other step of the store shows, but
   the removal by a founding command that failed after publishing. *)
THEOREM StoreImplementsLog == Spec => ImplementsGenerationLog
<1>1. Init => Log!Init
  BY LogEmpty DEF Init, Log!Init, LogView
<1>2. StoreInvariant /\ StoreInvariant' /\ [Next]_vars => [Log!Next \/ Withdrawal]_LogView
  <2> SUFFICES ASSUME StoreInvariant, StoreInvariant', [Next]_vars
               PROVE  Log!Next \/ Withdrawal \/ LogView' = LogView
    OBVIOUS
  <2>5. CASE withdrawn
    BY <2>5 DEF Next, vars, LogView
  <2>6. CASE ~withdrawn /\ withdrawn'
    <3>1. Sound
      BY <2>6 DEF StoreInvariant, Sound
    <3>2. PICK p \in Process : RemoveTree(p) /\ At(p, "remove") /\ calls[p].ok
      BY <2>6, <3>1, WithdrawalFacts
    <3>3. <<Founding>> \notin acked
      BY <2>6, <3>1, WithdrawalFacts
    <3>4. current' = current \/ current' = <<>>
      BY <3>2 DEF RemoveTree
    <3>5. LogView' = LogView \/ LogView' = [w \in {Root} |-> <<>>]
      BY <3>4, LogEmpty DEF LogView
    <3> QED
      BY <3>2, <3>3, <3>5 DEF Withdrawal
  <2>7. SUFFICES ASSUME Sound, ~withdrawn' PROVE Log!Next \/ LogView' = LogView
    BY <2>5, <2>6 DEF StoreInvariant, Sound
  <2>1. ASSUME NEW p \in Process, ReplaceCurrent(p) PROVE Log!Next
    <3> DEFINE c == calls[p].change
    <3>1. /\ current \in Generation /\ c \in Change /\ current' = Append(current, c)
          /\ current' \in Generation /\ Len(current) \in Nat
      BY <2>1, <2>7, ReplaceFacts, GenerationFacts, StoreAssumption DEF StoreInvariant, TypeOK
    <3>5. /\ current' # <<>> /\ Len(current') = Len(current) + 1
          /\ Prefix(current', Len(current)) = current
      BY <3>1, AppendFacts
    <3>6. Len(current') - 1 = Len(current)
      BY <3>1, <3>5
    <3>2. LogOf(current') = Append(LogOf(current), current')
      BY <3>1, LogAppend
    <3>3. CASE current = <<>>
      <4>1. c = Founding /\ current' = <<Founding>>
        BY <2>1, <2>7, <3>1, <3>3, ReplaceFacts
      <4>2. LogView[Root] = <<>> /\ LogView' = [LogView EXCEPT ![Root] = <<<<Founding>>>>]
        BY <3>2, <3>3, <4>1, LogEmpty DEF LogView
      <4>3. Log!Create(Root)
        BY <4>2 DEF Log!Create
      <4> QED
        BY <4>3 DEF Log!Next
    <3>4. CASE current # <<>>
      <4>1. LogOf(current) # <<>> /\ LogOf(current)[Len(LogOf(current))] = current
        BY <3>1, <3>4, LogAppend
      <4> DEFINE d == <<Root, Prefix(current', Len(current') - 1), current'>>
      <4>2. d \in {<<Root, Prefix(g, Len(g) - 1), g>> : g \in Generation \ {<<>>}}
        BY <3>1, <3>5
      <4>3. d[1] = Root /\ d[2] = current /\ d[3] = current'
        BY <3>5, <3>6
      <4>4. LogView' = [LogView EXCEPT ![Root] = Append(@, current')]
        BY <3>2 DEF LogView
      <4>5. Log!CompareAndAppend(d[1], d[2], d[3])
        BY <4>1, <4>3, <4>4 DEF Log!CompareAndAppend, LogView
      <4> HIDE DEF d
      <4> QED
        BY <4>2, <4>5 DEF Log!Next
    <3> QED
      BY <3>3, <3>4
  <2>2. CASE current = <<>> /\ current' = <<>> /\ acked = {} /\ acked' = {}
    BY <2>2 DEF LogView
  <2>3. CASE current' = current
    BY <2>3 DEF LogView
  <2> QED
    BY <2>1, <2>2, <2>3, <2>7, FileSteps
<1>3. ImplementsGenerationLog <=> Log!Init /\ [][Log!Next \/ Withdrawal]_LogView
  BY DEF ImplementsGenerationLog
<1> QED
  BY <1>1, <1>2, <1>3, StoreInvariantHolds, PTL DEF Spec
=============================================================================
