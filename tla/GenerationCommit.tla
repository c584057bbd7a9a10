-------------------------- MODULE GenerationCommit --------------------------
(***************************************************************************)
(* The generation unit of work of the control plane (cpcf_api/db.py,       *)
(* PostgresBackend.commit_generation) and the CAS uploads that prepare it  *)
(* (cpcf_api/app.py, upload_cas_object), for one tenant: every table and   *)
(* every object key is scoped to a tenant, and nothing relates two.        *)
(*                                                                         *)
(* A commit call reads the object store, then runs one SERIALIZABLE        *)
(* transaction, then, if that raised, tags its objects in the store.  The  *)
(* store takes no part in the transaction, the caller may crash anywhere   *)
(* and the acknowledgement of a commit may be lost: the three are separate *)
(* actions of a call.  The content of a document is fixed by its digest.   *)
(***************************************************************************)
EXTENDS Integers, FiniteSets

CONSTANTS
    Workspace,
    Object,         \* digests of CAS objects, audit events among them
    Kind, Raw,      \* document kinds; Raw is "raw-artifact"
    KindOf,         \* KindOf[o]: the kind the bytes of o parse as
    Generation,     \* generation digests
    Genesis,        \* Genesis[w]: digest create_workspace gives w
    Key, Request,   \* idempotency keys and request digests
    Mutation,       \* GenerationMutation records callers may submit
    InitialStore,   \* objects in the store at start
    Uploaded,       \* objects clients upload through the API
    Caller,         \* processes that may have a commit call in progress
    None

\* GenerationMutation, its generation and audit event inlined.  "valid" stands
\* for the checks of _validate_generation_mutation and validate_ledger that
\* read nothing but the mutation (scopes, recomputed digests, lengths of keys).
ASSUME MutationAssumption ==
    /\ Mutation \subseteq
         [workspace: Workspace, expected: Generation, prior: Generation,
          digest: Generation, sequence: Nat, head: Object,
          prior_event: Object \cup {None}, ledger: SUBSET (Object \X Kind),
          admissions: SUBSET (Object \X Kind), additions: SUBSET Object,
          resolutions: SUBSET Object, topic: BOOLEAN, key: Key, request: Request,
          valid: BOOLEAN]
    /\ IsFiniteSet(Mutation)
    /\ \A m, n \in Mutation : m.digest = n.digest =>
          /\ <<m.workspace, m.prior, m.sequence>> = <<n.workspace, n.prior, n.sequence>>
          /\ <<m.head, m.ledger>> = <<n.head, n.ledger>>
    /\ \A m, n \in Mutation : m.head = n.head => m.prior_event = n.prior_event

ASSUME GenesisAssumption ==
    /\ Genesis \in [Workspace -> Generation]
    /\ \A m \in Mutation, w \in Workspace : m.digest # Genesis[w]
    /\ KindOf \in [Object -> Kind]
    /\ Raw \in Kind
    /\ None \notin Object \cup [current: Generation, sequence: Nat]
    /\ InitialStore \subseteq Object
    /\ Uploaded \subseteq Object

VARIABLES
    workspaces,    \* WorkspaceRow: w -> current generation and sequence, or None
    objects,       \* ObjectRow: {<<digest, kind>>}
    generations,   \* GenerationRow; a row is the mutation it came from, of which the
                   \* table keeps the generation and the rest serves the properties
    ledger,        \* LedgerRow: {<<workspace, generation, object, kind>>}
    audit_events,  \* AuditEventRow
    quarantine,    \* QuarantineRow: {<<workspace, object>>}
    unresolved,    \* the rows of quarantine with resolved_at NULL
    outbox,        \* OutboxRow: number of messages commits left for w
    idempotency,   \* IdempotencyRow
    store,         \* objects in the object store
    tagged,        \* objects tagged cpcf-authority = quarantined
    uploading,     \* objects put by an upload that has not tagged them yet
    calls,         \* commit call in progress in each caller, or None
    answered       \* idempotency rows some call was answered with

vars == <<workspaces, objects, generations, ledger, audit_events, quarantine,
          unresolved, outbox, idempotency, store, tagged, uploading, calls, answered>>

database == <<workspaces, objects, generations, ledger, audit_events, quarantine,
              unresolved, outbox, idempotency>>

AuditRow == [workspace: Workspace, sequence: Nat, digest: Object,
             prior: Object \cup {None}]

IdempotencyRow == [key: Key, request: Request, response: Generation]

Call == [mutation: Mutation, pc: {"begun", "failed"}]

(* Every table and every call in progress keeps the shape db.py gives it. *)
TypeOK ==
    /\ workspaces \in [Workspace -> [current: Generation, sequence: Nat] \cup {None}]
    /\ objects \subseteq Object \X Kind
    /\ generations \subseteq Mutation
    /\ ledger \subseteq Workspace \X Generation \X Object \X Kind
    /\ audit_events \subseteq AuditRow
    /\ quarantine \subseteq Workspace \X Object
    /\ unresolved \subseteq quarantine
    /\ outbox \in [Workspace -> Nat]
    /\ idempotency \subseteq IdempotencyRow
    /\ store \subseteq Object
    /\ tagged \subseteq Object
    /\ uploading \subseteq Object
    /\ calls \in [Caller -> Call \cup {None}]
    /\ answered \subseteq IdempotencyRow

Init ==
    /\ workspaces = [w \in Workspace |-> None]
    /\ objects = {}
    /\ generations = {}
    /\ ledger = {}
    /\ audit_events = {}
    /\ quarantine = {}
    /\ unresolved = {}
    /\ outbox = [w \in Workspace |-> 0]
    /\ idempotency = {}
    /\ store = InitialStore
    /\ tagged = {}
    /\ uploading = {}
    /\ calls = [c \in Caller |-> None]
    /\ answered = {}

\* create_workspace: the primary key refuses a second one.
CreateWorkspace(w) ==
    /\ workspaces[w] = None
    /\ workspaces' = [workspaces EXCEPT ![w] = [current |-> Genesis[w], sequence |-> 0]]
    /\ UNCHANGED <<objects, generations, ledger, audit_events, quarantine, unresolved,
                   outbox, idempotency, store, tagged, uploading, calls, answered>>

(***************************************************************************)
(* Uploads through the API.  The tag is a second request to the store: the *)
(* process may stop before it.                                             *)
(***************************************************************************)
\* A workspace exists, and the client's If-Match names its generation.
UploadPut(o) ==
    /\ \E w \in Workspace : workspaces[w] # None
    /\ store' = store \cup {o}
    /\ uploading' = uploading \cup {o}
    /\ UNCHANGED <<database, tagged, calls, answered>>

UploadTag(o) ==
    /\ o \in uploading
    /\ tagged' = tagged \cup {o}
    /\ uploading' = uploading \ {o}
    /\ UNCHANGED <<database, store, calls, answered>>

UploadCrash(o) ==
    /\ o \in uploading
    /\ uploading' = uploading \ {o}
    /\ UNCHANGED <<database, store, tagged, calls, answered>>

(***************************************************************************)
(* commit_generation.                                                      *)
(***************************************************************************)
Names(entries) == {e[1] : e \in entries}

\* validate_ledger: one entry per object, every object stored and of its kind,
\* the history head among them.
ValidLedger(m) ==
    /\ \A e, f \in m.ledger : e[1] = f[1] => e = f
    /\ Names(m.ledger) \subseteq store
    /\ \A e \in m.ledger : e[2] \in {Raw, KindOf[e[1]]}
    /\ m.head \in Names(m.ledger)

\* _validate_generation_mutation.
ValidMutation(m) ==
    /\ m.valid
    /\ m.prior = m.expected
    /\ ValidLedger(m)
    /\ m.admissions \subseteq m.ledger

CommitBegin(c, m) ==
    /\ calls[c] = None
    /\ ValidMutation(m)
    /\ calls' = [calls EXCEPT ![c] = [mutation |-> m, pc |-> "begun"]]
    /\ UNCHANGED <<database, store, tagged, uploading, answered>>

RowsOf(key) == {row \in idempotency : row.key = key}

\* Faulty variant: the sequence is trusted, the pointer not compared.
CurrentUnchecked(m) ==
    /\ workspaces[m.workspace] # None
    /\ m.sequence = workspaces[m.workspace].sequence + 1

\* lock_workspace and the sequence check.
Current(m) ==
    /\ workspaces[m.workspace] # None
    /\ workspaces[m.workspace].current = m.expected
    /\ m.sequence = workspaces[m.workspace].sequence + 1

Predecessors(m) ==
    {g \in generations : g.workspace = m.workspace /\ g.digest = m.expected}

\* Faulty variant: an event that names no predecessor is accepted anywhere.
ExtendsHistoryOrStarts(m) ==
    \/ m.prior_event = None
    \/ \E g \in Predecessors(m) : m.prior_event = g.head

\* The audit event follows the head of the expected generation; a workspace that
\* is still at its genesis has no generation row, hence no head.
ExtendsHistory(m) ==
    IF Predecessors(m) = {} THEN m.prior_event = None
    ELSE \E g \in Predecessors(m) : m.prior_event = g.head

\* Faulty variant: an object without a row needs no admission.
ObjectsAgreeIfStored(m) ==
    \A e \in m.ledger : e[1] \in Names(objects) => e \in objects

\* Each ledger entry has an object row of its kind, or is admitted now.
ObjectsAgree(m) ==
    \A e \in m.ledger :
       IF e[1] \in Names(objects) THEN e \in objects ELSE e \in m.admissions

In(w, S) == {<<w, o>> : o \in S}

\* Faulty variant: an object quarantined before stays as it is.
UnresolvedAfterNewOnly(m) ==
    (unresolved \cup (In(m.workspace, m.additions) \ quarantine))
       \ In(m.workspace, m.resolutions)

\* Additions open or reopen a row, resolutions close one.
UnresolvedAfter(m) ==
    (unresolved \cup In(m.workspace, m.additions)) \ In(m.workspace, m.resolutions)

QuarantineAgrees(m) ==
    /\ m.additions \subseteq Names(m.ledger)
    /\ In(m.workspace, m.resolutions)
          \subseteq unresolved \cup In(m.workspace, m.additions)

\* Primary keys and unique constraints of generations and audit_events.
Unique(m) ==
    /\ \A g \in generations : g.workspace = m.workspace =>
          g.digest # m.digest /\ g.sequence # m.sequence
    /\ \A row \in audit_events : row.digest # m.head

\* Faulty variant: the idempotency row is looked up for replay only.
CommittableAnyKey(m) ==
    /\ Current(m)
    /\ ExtendsHistory(m)
    /\ ObjectsAgree(m)
    /\ QuarantineAgrees(m)
    /\ Unique(m)

\* What the transaction checks before it writes.
Committable(m) ==
    /\ RowsOf(m.key) = {}
    /\ Current(m)
    /\ ExtendsHistory(m)
    /\ ObjectsAgree(m)
    /\ QuarantineAgrees(m)
    /\ Unique(m)

AuditRowOf(m) ==
    [workspace |-> m.workspace, sequence |-> m.sequence, digest |-> m.head,
     prior |-> m.prior_event]

Response(m) == [key |-> m.key, request |-> m.request, response |-> m.digest]

\* The effects of the transaction, all or none of which happen.
Commit(m) ==
    /\ Committable(m)
    /\ workspaces' = [workspaces EXCEPT ![m.workspace] =
                         [current |-> m.digest, sequence |-> m.sequence]]
    /\ objects' = objects \cup {e \in m.admissions : e[1] \notin Names(objects)}
    /\ generations' = generations \cup {m}
    /\ ledger' = ledger \cup {<<m.workspace, m.digest, e[1], e[2]>> : e \in m.ledger}
    /\ audit_events' = audit_events \cup {AuditRowOf(m)}
    /\ quarantine' = quarantine \cup In(m.workspace, m.additions)
    /\ unresolved' = UnresolvedAfter(m)
    /\ outbox' = [outbox EXCEPT ![m.workspace] = IF m.topic THEN @ + 1 ELSE @]
    /\ idempotency' = idempotency \cup {Response(m)}

Begun(c) == calls[c] # None /\ calls[c].pc = "begun"

Return(c) == calls' = [calls EXCEPT ![c] = None]

Fail(c) == calls' = [calls EXCEPT ![c].pc = "failed"]

\* Faulty variant: the stored response is not compared with the request.
ReplayAny(c) ==
    /\ Begun(c)
    /\ \E row \in RowsOf(calls[c].mutation.key) :
          answered' = answered \cup
             {[row EXCEPT !.request = calls[c].mutation.request]}
    /\ Return(c)
    /\ UNCHANGED <<database, store, tagged, uploading>>

\* The key is known with this request: the stored response is returned.
CommitReplayed(c) ==
    /\ Begun(c)
    /\ \E row \in RowsOf(calls[c].mutation.key) :
          /\ row.request = calls[c].mutation.request
          /\ answered' = answered \cup {row}
    /\ Return(c)
    /\ UNCHANGED <<database, store, tagged, uploading>>

Committed(c) ==
    /\ Begun(c)
    /\ Commit(calls[c].mutation)
    /\ answered' = answered \cup {Response(calls[c].mutation)}
    /\ Return(c)
    /\ UNCHANGED <<store, tagged, uploading>>

\* The transaction committed, but the connection broke before that was known.
CommitUnacknowledged(c) ==
    /\ Begun(c)
    /\ Commit(calls[c].mutation)
    /\ Fail(c)
    /\ UNCHANGED <<store, tagged, uploading, answered>>

\* A check raised, a constraint was violated, the transaction was chosen as the
\* victim of a serialization conflict, or the database went away.
CommitRolledBack(c) ==
    /\ Begun(c)
    /\ Fail(c)
    /\ UNCHANGED <<database, store, tagged, uploading, answered>>

\* _quarantine_interrupted_uploads, which may itself stop half way.
TagInterrupted(c) ==
    /\ calls[c] # None
    /\ calls[c].pc = "failed"
    /\ \E S \in SUBSET Names(calls[c].mutation.admissions) : tagged' = tagged \cup S
    /\ Return(c)
    /\ UNCHANGED <<database, store, uploading, answered>>

CallerCrash(c) ==
    /\ Begun(c)
    /\ Return(c)
    /\ UNCHANGED <<database, store, tagged, uploading, answered>>

UploadStep ==
    \E o \in Uploaded : UploadPut(o) \/ UploadTag(o) \/ UploadCrash(o)

CommitStep(c) ==
    \/ \E m \in Mutation : CommitBegin(c, m)
    \/ CommitReplayed(c)
    \/ Committed(c)
    \/ CommitUnacknowledged(c)
    \/ CommitRolledBack(c)
    \/ TagInterrupted(c)
    \/ CallerCrash(c)

Next ==
    \/ \E w \in Workspace : CreateWorkspace(w)
    \/ UploadStep
    \/ \E c \in Caller : CommitStep(c)

Spec == Init /\ [][Next]_vars

(***************************************************************************)
(* Properties.                                                             *)
(***************************************************************************)
Chain(w) == {g \in generations : g.workspace = w}

(* The generations of a workspace form one line from its genesis to the      *)
(* pointer, without fork or gap, whatever commits raced, were retried or     *)
(* lost their acknowledgement.                                               *)
HistoryLinear ==
    \A w \in Workspace : Chain(w) # {} =>
       /\ workspaces[w] # None
       /\ \E g \in Chain(w) : /\ g.digest = workspaces[w].current
                              /\ g.sequence = workspaces[w].sequence
       /\ \A g \in Chain(w) :
             /\ g.sequence \in 1..workspaces[w].sequence
             /\ \A h \in Chain(w) :
                   (g.sequence = h.sequence \/ g.digest = h.digest) => g = h
             /\ IF g.sequence = 1 THEN g.prior = Genesis[w]
                ELSE \E h \in Chain(w) : /\ h.sequence = g.sequence - 1
                                         /\ h.digest = g.prior

(* The audit events of a workspace form one hash chain in step with its      *)
(* generations: event n names event n - 1, and is the head of generation n.  *)
AuditChainIntact ==
    /\ \A w \in Workspace, g \in generations : g.workspace = w =>
          \E row \in audit_events :
             row.workspace = w /\ row.sequence = g.sequence /\ row.digest = g.head
    /\ \A row \in audit_events :
          IF row.sequence = 1 THEN row.prior = None
          ELSE \E before \in audit_events :
                  /\ before.workspace = row.workspace
                  /\ before.sequence = row.sequence - 1
                  /\ before.digest = row.prior

(* Every ledger entry of every committed generation has an object row of the *)
(* same kind and its bytes in the object store, although admissions of other *)
(* workspaces, failed commits and crashes come in between.                   *)
LedgerBacked ==
    \A g \in generations : \A e \in g.ledger :
       /\ <<g.workspace, g.digest, e[1], e[2]>> \in ledger
       /\ e \in objects
       /\ e[1] \in store

(* What is quarantined in a workspace is what its history says: the last     *)
(* generation that mentions an object decides.                               *)
QuarantineFollowsHistory ==
    \A w \in Workspace, o \in Object :
       <<w, o>> \in unresolved <=>
          \E g \in Chain(w) :
             /\ o \in g.additions \ g.resolutions
             /\ \A h \in Chain(w) : h.sequence > g.sequence => o \notin h.resolutions

(* A key has one commit, however often and from whichever base its request   *)
(* is retried, and the outbox has one message for each commit that asks for  *)
(* one.                                                                      *)
OneCommitPerKey ==
    /\ \A g, h \in generations : g.key = h.key => g = h
    /\ \A w \in Workspace :
          outbox[w] = Cardinality({g \in Chain(w) : g.topic})

(* What a caller was told stays true: the generation it was answered is in   *)
(* the history for this key and request, and every later answer repeats it.  *)
AnswersAgree ==
    /\ \A row \in answered : \E g \in generations : Response(g) = row
    /\ \A row, other \in answered : row.key = other.key => row = other

(* What the tables say of each other, and of the store, between commits: the *)
(* inductive invariant behind HistoryLinear, AuditChainIntact, LedgerBacked,  *)
(* OneCommitPerKey and AnswersAgree.                                         *)
TablesAgree ==
    /\ \A w \in Workspace : (Chain(w) = {} /\ workspaces[w] # None) =>
          workspaces[w] = [current |-> Genesis[w], sequence |-> 0]
    /\ \A g \in generations : AuditRowOf(g) \in audit_events
    /\ \A row \in audit_events : \E g \in generations : row = AuditRowOf(g)
    /\ \A g \in generations :
          IF g.sequence = 1 THEN g.prior_event = None
          ELSE \E h \in Chain(g.workspace) : /\ h.sequence = g.sequence - 1
                                            /\ h.head = g.prior_event
    /\ \A g \in generations : Response(g) \in idempotency
    /\ \A row \in idempotency : \E g \in generations : row = Response(g)
    /\ \A g, h \in generations : g.key = h.key => g = h
    /\ answered \subseteq idempotency
    /\ \A c \in Caller : calls[c] # None => ValidMutation(calls[c].mutation)

-----------------------------------------------------------------------------
(***************************************************************************)
(* The PostgreSQL unit of work implements GenerationLog: entry n + 1 of a  *)
(* workspace's log is the generation row with sequence n.                  *)
(***************************************************************************)

DigestAt(w, n) ==
    IF n = 0 THEN Genesis[w]
    ELSE (CHOOSE g \in Chain(w) : g.sequence = n).digest

LogOf(w) ==
    IF workspaces[w] = None THEN <<>>
    ELSE [i \in 1..(workspaces[w].sequence + 1) |-> DigestAt(w, i - 1)]

Log == INSTANCE GenerationLog WITH
    Document <- {<<m.workspace, m.prior, m.digest>> : m \in Mutation},
    log <- [w \in Workspace |-> LogOf(w)]

(* Every behaviour of the unit of work is a behaviour of the generation log: *)
(* racing, replayed, rolled back and unacknowledged commits append to the    *)
(* generation they expected or change nothing.                               *)
ImplementsGenerationLog == Log!Spec
=============================================================================
