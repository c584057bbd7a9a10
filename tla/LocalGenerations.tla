-------------------------- MODULE LocalGenerations --------------------------
(***************************************************************************)
(* The file store of a local v0.5 workspace: generation_v5.py over cas.py, *)
(* locking.py and _atomic_bytes of generation.py, all under                *)
(* src/collective_phase_control_fabric/.  Processes store CAS objects,     *)
(* take the workspace lock, write a manifest and replace CURRENT; each may *)
(* fail or be killed between any two of these steps. A founding command    *)
(* that fails removes the directory it made, whatever is in it by then.    *)
(*                                                                         *)
(* A generation is identified by the digest of its manifest, which covers  *)
(* the identifier of its predecessor.  The identifier is therefore modelled*)
(* by what it hashes: the sequence of changes made since the workspace was *)
(* founded.  Every caller builds its payload as a copy of the manifest it  *)
(* read plus one change.                                                   *)
(***************************************************************************)
EXTENDS Integers, Sequences, FiniteSets

CONSTANTS
    Process,            \* operating-system processes (or threads) using the workspace
    Change,             \* what one command adds to a manifest
    Founding,           \* the change initialize_workspace_v5 makes
    Object,             \* CAS objects
    Objects,            \* Objects[c]: the digests change c adds to the ledger
    Sources,            \* Sources[c]: the digests its entries name in source_chain
    MaxGenerationDepth, \* MAX_GENERATION_DEPTH of verify_chain
    Depth,              \* bound: the longest chain of a run
    None

ASSUME StoreAssumption ==
    /\ Founding \in Change
    /\ Objects \in [Change -> SUBSET Object]
    /\ Sources \in [Change -> SUBSET Object]
    /\ Sources[Founding] \subseteq Objects[Founding]
    /\ MaxGenerationDepth \in Nat
    /\ Depth \in Nat
    /\ None \notin Process

VARIABLES
    directory,  \* the workspace directory exists
    lock_file,  \* workspace.lock: absent, created but empty, ready
    holder,     \* the process holding the lock on its first byte
    cas,        \* the objects in place under cas/sha256
    manifests,  \* the generations whose manifest.json is in place
    current,    \* the generation CURRENT names, <<>> while there is no such file
    calls,      \* what each process is doing
    acked,      \* the generations whose commit was reported to its caller
    withdrawn   \* a founding command removed the workspace it had published

vars == <<directory, lock_file, holder, cas, manifests, current, calls, acked, withdrawn>>

\* Identifiers of generations, <<>> being none.
Generation == UNION {[1..n -> Change] : n \in 0..Depth}

Prefix(g, n) == SubSeq(g, 1, n)

\* The digests in the object ledger of a generation.
Ledger(g) == UNION {Objects[g[i]] : i \in DOMAIN g}

Steps == {"idle", "store", "open", "init", "probe", "wait", "locked", "pointer", "release", "remove"}

Idle == [pc |-> "idle", change |-> Founding, base |-> <<>>, todo |-> {}, ok |-> FALSE]

Target(p) == Append(calls[p].base, calls[p].change)

At(p, pc) == calls[p].pc = pc

Goto(p, pc) == calls' = [calls EXCEPT ![p].pc = pc]

\* A command that failed is over, but the founding one has its directory to remove.
Failed(p) == IF calls[p].change = Founding THEN [calls[p] EXCEPT !.pc = "remove"] ELSE Idle

Init ==
    /\ directory = FALSE
    /\ lock_file = "absent"
    /\ holder = None
    /\ cas = {}
    /\ manifests = {}
    /\ current = <<>>
    /\ calls = [p \in Process |-> Idle]
    /\ acked = {}
    /\ withdrawn = FALSE

-----------------------------------------------------------------------------
\* A command reads the manifest CURRENT names and prepares its objects.  The
\* founding command needs a directory that does not exist, and makes it.
Begin(p, c) ==
    /\ At(p, "idle")
    /\ Len(current) < Depth
    /\ \/ c = Founding /\ ~directory
       \/ c # Founding /\ current # <<>> /\ current \in manifests
    /\ directory' = TRUE
    /\ calls' = [calls EXCEPT ![p] =
           [pc |-> "store", change |-> c, base |-> current, todo |-> Objects[c], ok |-> FALSE]]
    /\ UNCHANGED <<lock_file, holder, cas, manifests, current, acked, withdrawn>>

\* ContentAddressedStore.put: a temporary file is written, synced and renamed,
\* or the object is there already.
Put(p, o) ==
    /\ At(p, "store")
    /\ o \in calls[p].todo
    /\ cas' = cas \cup {o}
    /\ calls' = [calls EXCEPT ![p].todo = @ \ {o}]
    /\ UNCHANGED <<directory, lock_file, holder, manifests, current, acked, withdrawn>>

\* Mutant: the commit starts while objects are still being stored.
OpenLockEarly(p) ==
    /\ At(p, "store")
    /\ \/ lock_file = "absent" /\ lock_file' = "empty" /\ Goto(p, "init")
       \/ lock_file # "absent" /\ UNCHANGED lock_file /\ Goto(p, "probe")
    /\ UNCHANGED <<directory, holder, cas, manifests, current, acked, withdrawn>>

\* WorkspaceLock.__enter__: exclusive creation of the lock file.
OpenLock(p) ==
    /\ At(p, "store")
    /\ calls[p].todo = {}
    /\ \/ lock_file = "absent" /\ lock_file' = "empty" /\ Goto(p, "init")
       \/ lock_file # "absent" /\ UNCHANGED lock_file /\ Goto(p, "probe")
    /\ UNCHANGED <<directory, holder, cas, manifests, current, acked, withdrawn>>

\* Its first byte, written by the creator.
WriteLock(p) ==
    /\ At(p, "init")
    /\ lock_file' = "ready"
    /\ Goto(p, "wait")
    /\ UNCHANGED <<directory, holder, cas, manifests, current, acked, withdrawn>>

\* The others look for that byte.  The code waits a while for it, in vain if the creator
\* was killed; LockReady shows that no command ever waits.
ProbeLock(p) ==
    /\ At(p, "probe")
    /\ lock_file = "ready"
    /\ Goto(p, "wait")
    /\ UNCHANGED <<directory, lock_file, holder, cas, manifests, current, acked, withdrawn>>

\* flock succeeds, and stays held until released or until the process ends.
Acquire(p) ==
    /\ At(p, "wait")
    /\ holder = None
    /\ holder' = p
    /\ Goto(p, "locked")
    /\ UNCHANGED <<directory, lock_file, cas, manifests, current, acked, withdrawn>>

\* The lock was busy until the deadline (workspace_lock_timeout).
GiveUp(p) ==
    /\ At(p, "wait") /\ holder # None
    /\ calls' = [calls EXCEPT ![p] = Failed(p)]
    /\ UNCHANGED <<directory, lock_file, holder, cas, manifests, current, acked, withdrawn>>

\* The checks of commit on ledger and history: digests and event identifiers
\* (which contain digests) are new, and no source is dangling.
LedgerSound(g, c) ==
    /\ Objects[c] \cap Ledger(g) = {}
    /\ Sources[c] \subseteq Ledger(Append(g, c))

\* CURRENT is not what the caller expected, or the manifest does not validate.
CommitRefused(p) ==
    /\ At(p, "locked")
    /\ current # calls[p].base \/ ~LedgerSound(calls[p].base, calls[p].change)
    /\ Goto(p, "release")
    /\ UNCHANGED <<directory, lock_file, holder, cas, manifests, current, acked, withdrawn>>

\* Mutant: CURRENT is not compared with what the caller read.
WriteUncompared(p) ==
    /\ At(p, "locked")
    /\ LedgerSound(calls[p].base, calls[p].change)
    /\ manifests' = manifests \cup {Target(p)}
    /\ Goto(p, "pointer")
    /\ UNCHANGED <<directory, lock_file, holder, cas, current, acked, withdrawn>>

\* The manifest is put in place, or was there from a call that was killed.
WriteManifest(p) ==
    /\ At(p, "locked")
    /\ current = calls[p].base
    /\ LedgerSound(calls[p].base, calls[p].change)
    /\ manifests' = manifests \cup {Target(p)}
    /\ Goto(p, "pointer")
    /\ UNCHANGED <<directory, lock_file, holder, cas, current, acked, withdrawn>>

\* The pointer is replaced.
ReplaceCurrent(p) ==
    /\ At(p, "pointer")
    /\ current' = Target(p)
    /\ calls' = [calls EXCEPT ![p].pc = "release", ![p].ok = TRUE]
    /\ UNCHANGED <<directory, lock_file, holder, cas, manifests, acked, withdrawn>>

\* WorkspaceLock.__exit__ and the answer of the command.
Release(p) ==
    /\ At(p, "release")
    /\ holder' = None
    /\ acked' = IF calls[p].ok THEN acked \cup {Target(p)} ELSE acked
    /\ calls' = [calls EXCEPT ![p] = IF calls[p].ok THEN Idle ELSE Failed(p)]
    /\ UNCHANGED <<directory, lock_file, cas, manifests, current, withdrawn>>

\* A step raises and the lock is released.  At "release" it is the replacement of CURRENT
\* that raises after its effect, when the directory is synced: the generation is there and
\* its command reports a failure.
StepFails(p) ==
    /\ calls[p].pc \in Steps \ {"idle", "remove"}
    /\ holder' = IF holder = p THEN None ELSE holder
    /\ calls' = [calls EXCEPT ![p] = Failed(p)]
    /\ UNCHANGED <<directory, lock_file, cas, manifests, current, acked, withdrawn>>

\* The founding command, having failed, removes its directory; what cannot be removed, or
\* is still there when the process is killed, stays.
RemoveTree(p) ==
    /\ At(p, "remove")
    /\ cas' \in SUBSET cas /\ manifests' \in SUBSET manifests
    /\ current' \in {current, <<>>} /\ lock_file' \in {lock_file, "absent"}
    /\ directory' \in BOOLEAN
    /\ ~directory' => cas' = {} /\ manifests' = {} /\ current' = <<>> /\ lock_file' = "absent"
    /\ withdrawn' = (current # <<>>)
    /\ calls' = [calls EXCEPT ![p] = Idle]
    /\ UNCHANGED <<holder, acked>>

\* The process is killed: the system releases its lock, files stay as they are.
Crash(p) ==
    /\ ~At(p, "idle")
    /\ holder' = IF holder = p THEN None ELSE holder
    /\ calls' = [calls EXCEPT ![p] = Idle]
    /\ UNCHANGED <<directory, lock_file, cas, manifests, current, acked, withdrawn>>

\* What the commands under way find once a published workspace is being removed is not
\* modelled: the withdrawal is the last step of a behaviour.
Step(p) ==
    /\ ~withdrawn
    /\ \/ \E o \in Object : Put(p, o)
       \/ OpenLock(p) \/ WriteLock(p) \/ ProbeLock(p) \/ Acquire(p) \/ GiveUp(p)
       \/ CommitRefused(p) \/ WriteManifest(p) \/ ReplaceCurrent(p) \/ Release(p)
       \/ RemoveTree(p)

Next ==
    /\ ~withdrawn
    /\ \E p \in Process :
          \/ \E c \in Change : Begin(p, c)
          \/ Step(p)
          \/ StepFails(p)
          \/ Crash(p)

Spec == Init /\ [][Next]_vars

\* A process that runs takes its next step: none of them waits without a bound.
FairSpec == Spec /\ \A p \in Process : WF_vars(Step(p))

-----------------------------------------------------------------------------
TypeOK ==
    /\ directory \in BOOLEAN
    /\ lock_file \in {"absent", "empty", "ready"}
    /\ holder \in Process \cup {None}
    /\ cas \subseteq Object
    /\ manifests \subseteq Generation
    /\ current \in Generation
    /\ calls \in [Process -> [pc : Steps, change : Change, base : Generation,
                              todo : SUBSET Object, ok : BOOLEAN]]
    /\ acked \subseteq Generation
    /\ withdrawn \in BOOLEAN

\* verify_chain: walk from CURRENT to the first generation, at most
\* MaxGenerationDepth manifests, each of which must load.
WalkSucceeds(g) ==
    /\ Len(g) <= MaxGenerationDepth
    /\ \A n \in 1..Len(g) : Prefix(g, n) \in manifests

\* Whatever was killed or failed, the chain CURRENT heads can be walked to its
\* first generation unless it is longer than verify_chain looks, and every
\* digest in its ledger is in the CAS; until the founding command takes back
\* the workspace it published (initialize_workspace_v5).
CurrentLoads ==
    \/ withdrawn
    \/ /\ Len(current) <= MaxGenerationDepth => WalkSucceeds(current)
       /\ Ledger(current) \subseteq cas

\* A commit that was reported stays in the chain, whatever other commands
\* were racing with it or died after it.
AckedStays == \A g \in acked : Len(g) <= Len(current) /\ Prefix(current, Len(g)) = g

\* A workspace whose founding was reported is never withdrawn.
FoundingSettles == <<Founding>> \in acked => ~withdrawn

\* The lock works for processes that crash while holding it: the commands
\* between comparison and release of the lock are never two, and CURRENT is
\* the generation the one of them compared with, or the one it wrote.
OneWriter ==
    \A p \in Process :
        /\ calls[p].pc \in {"locked", "pointer", "release"} <=> holder = p
        /\ At(p, "pointer") => current = calls[p].base /\ Target(p) \in manifests

\* No ledger of a generation lists an object twice, and sources are in it.
LedgerClosed ==
    /\ \A i, j \in DOMAIN current : i # j => Objects[current[i]] \cap Objects[current[j]] = {}
    /\ \A i \in DOMAIN current : Sources[current[i]] \subseteq Ledger(Prefix(current, i))

\* The lock file is complete whenever a command finds it: the founder creates it, and one
\* killed before the first byte leaves a workspace no other command starts on.
LockReady == \A p \in Process : At(p, "probe") => lock_file = "ready"

(***************************************************************************)
(* The inductive invariant behind the above (StoreInvariant), proved in    *)
(* LocalGenerations_proofs.                                                *)
(***************************************************************************)
\* Until there is a CURRENT, the directory belongs to the founding command alone, and the
\* lock file is not there before that command makes it.
FounderAlone ==
    \A p \in Process :
        ~At(p, "idle") /\ ~calls[p].ok /\ calls[p].change = Founding =>
            /\ current = <<>> /\ calls[p].base = <<>>
            /\ \A q \in Process \ {p} : At(q, "idle")
            /\ At(p, "store") => lock_file = "absent"

\* One founding command is under way at a time, and its founding is not reported before it
\* ends; only such a command removes a directory.
FoundingOnce ==
    \A p \in Process :
        /\ ~At(p, "idle") /\ calls[p].change = Founding =>
              /\ <<Founding>> \notin acked
              /\ \A q \in Process \ {p} : At(q, "idle") \/ calls[q].change # Founding
        /\ At(p, "remove") => calls[p].change = Founding

\* Every other command started from a generation that was there.
OthersFollow ==
    \A p \in Process :
        ~At(p, "idle") /\ calls[p].change # Founding => current # <<>> /\ calls[p].base # <<>>

\* No files without a directory; CURRENT comes after the lock file and before any answer.
FilesInOrder ==
    /\ ~directory => /\ lock_file = "absent" /\ current = <<>>
                     /\ \A p \in Process : At(p, "idle")
    /\ current # <<>> => lock_file = "ready"
    /\ current = <<>> => acked = {}
    /\ \A p \in Process :
           calls[p].pc \in {"probe", "wait", "locked", "pointer", "release"} => lock_file = "ready"

\* What a command in progress has done so far.
CallInOrder(p) ==
    /\ At(p, "idle") => calls[p] = Idle
    /\ ~At(p, "idle") => Len(calls[p].base) < Depth
    /\ calls[p].pc \notin {"idle", "remove"} => Objects[calls[p].change] \ calls[p].todo \subseteq cas
    /\ calls[p].pc \notin {"store", "remove"} => calls[p].todo = {}
    /\ At(p, "pointer") => LedgerSound(calls[p].base, calls[p].change)
    /\ calls[p].ok => \/ At(p, "release") /\ current = Target(p)
                      \/ At(p, "remove") /\ current # <<>>

\* Every generation of the chain has its manifest, whatever its length.
ChainInPlace == \A n \in 1..Len(current) : Prefix(current, n) \in manifests

\* All this until the workspace is withdrawn, which a reported founding excludes.
Intact ==
    /\ FounderAlone
    /\ FoundingOnce
    /\ OthersFollow
    /\ FilesInOrder
    /\ \A p \in Process : CallInOrder(p)
    /\ OneWriter
    /\ ChainInPlace
    /\ Ledger(current) \subseteq cas
    /\ LedgerClosed
    /\ AckedStays

StoreInvariant == TypeOK /\ FoundingSettles /\ (~withdrawn => Intact)

\* Every command comes to an end though the lock may be taken again and again by others:
\* the wait for it is bounded.
CommandsEnd == \A p \in Process : ~At(p, "idle") ~> At(p, "idle") \/ withdrawn

-----------------------------------------------------------------------------
(***************************************************************************)
(* The files of a local workspace implement GenerationLog: entry n of the  *)
(* log is the generation with n changes that the chain CURRENT heads.      *)
(* Removing a directory before there is a CURRENT is invisible in the log. *)
(* GenerationLog knows no removal after that; the code does one.           *)
(***************************************************************************)

Root == "workspace"

\* The generations of a chain, from the first on.
LogOf(g) == [n \in 1..Len(g) |-> Prefix(g, n)]

LogView == [w \in {Root} |-> LogOf(current)]

Log == INSTANCE GenerationLog WITH
    Workspace <- {Root},
    Genesis <- [w \in {Root} |-> <<Founding>>],
    Document <- {<<Root, Prefix(g, Len(g) - 1), g>> : g \in Generation \ {<<>>}},
    log <- LogView

\* The founding command replaced CURRENT itself, failed afterwards, has not reported the
\* founding, and takes the whole log back, with what others appended to it.
Withdrawal ==
    /\ \E p \in Process : At(p, "remove") /\ calls[p].ok
    /\ <<Founding>> \notin acked
    /\ LogView' = [w \in {Root} |-> <<>>]

\* Commands that race, time out, fail or are killed at any of their steps append one
\* generation to the one they read, or change nothing; only a founding command that failed
\* after publishing, and therefore never reported, removes what is in the log, and then all
\* of it (commit, _atomic_bytes, initialize_workspace_v5).
ImplementsGenerationLog == Log!Init /\ [][Log!Next \/ Withdrawal]_LogView
=============================================================================
