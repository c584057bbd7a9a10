--------------------------- MODULE ControlPlaneApi ---------------------------
(***************************************************************************)
(* The state-changing requests of the control-plane API (cpcf_api/app.py)  *)
(* over PostgresBackend (cpcf_api/db.py), for one tenant.                  *)
(*                                                                         *)
(* A handler awaits the database between its steps, and each step is a     *)
(* transaction of its own: reading the workspace, reading the idempotency  *)
(* row, the effect, writing the idempotency row.  Other handlers, the      *)
(* clock and commits run in between, and a process may die or lose its     *)
(* database after any of them.  The order of the steps differs: operations *)
(* and uploads compare If-Match before they look for a cached answer,      *)
(* analyses after it.  Authentication and authorization come first and     *)
(* read no state, and so do the checks of an upload's size and digest: the *)
(* requests here have passed them.                                         *)
(***************************************************************************)
EXTENDS Integers, Sequences

CONSTANTS
    Workspace,
    Key,            \* idempotency keys
    Body, Topic,    \* what a request carries; the outbox topics
    Request,        \* the requests clients make
    Conn,           \* connections, each with at most one request in progress
    Lifetime,       \* how long an idempotency row counts: 24 hours in the code
    Existing,       \* the workspaces there may be at start: functions to rows or None
    MaxTime, MaxGeneration, MaxJobs,
    None

\* mutation_digest covers method, path, subject, If-Match and body, so that
\* requests are equal iff their digests are.  For "create" the body holds the
\* genesis pins, for "upload" it is the object.
ASSUME RequestAssumption ==
    Request \subseteq [op: {"create", "analysis", "operation", "upload"},
                       workspace: Workspace, if_match: Nat, topic: Topic, body: Body]

ASSUME BoundAssumption ==
    /\ {Lifetime, MaxTime, MaxGeneration, MaxJobs} \subseteq Nat
    /\ Existing \subseteq [Workspace -> [generation: {0}, pins: Body] \cup {None}]

VARIABLES
    now,
    workspaces,     \* WorkspaceRow: generation, by its sequence, and pins, or None
    outbox,         \* OutboxRow; a job's id is its position
    idempotency,    \* IdempotencyRow of each key, or None
    stored, tagged, \* objects in the object store, and those tagged as quarantined
    calls,          \* request in progress on each connection, or None
    answers         \* the answers clients received

vars == <<now, workspaces, outbox, idempotency, stored, tagged, calls, answers>>

Response == [job: Nat, generation: Nat]

\* A row of the outbox keeps the workspace and the topic.  The rest of it serves
\* the properties: who asked, with which key, what the generation was when the
\* request was sent and when the row was written, when its key was looked up, and
\* whether the client had been answered before.
Job == [workspace: Workspace, topic: Topic, request: Request, key: Key,
        sent: Int, written: Int, looked: Nat, repeat: BOOLEAN]

Row == [request: Request, response: Response, expires_at: Nat]

\* "sent", "looked" and "repeat" serve the properties, as in Job; "replayed" tells
\* a cached response from one the call computed.
Call == [request: Request, key: Key,
         pc: {"match", "lookup", "effect", "tag", "put", "answer"},
         response: Response, replayed: BOOLEAN,
         sent: Int, looked: Nat, repeat: BOOLEAN]

Answer == [request: Request, key: Key, response: Response, replayed: BOOLEAN]

ASSUME NoneAssumption == None \notin [generation: Nat, pins: Body] \cup Row \cup Call

(* Rows, calls in progress and answers keep the shape app.py and db.py give *)
(* them.                                                                    *)
TypeOK ==
    /\ now \in Nat
    /\ workspaces \in [Workspace -> [generation: Nat, pins: Body] \cup {None}]
    /\ outbox \in Seq(Job)
    /\ idempotency \in [Key -> Row \cup {None}]
    /\ stored \subseteq Body
    /\ tagged \subseteq stored
    /\ calls \in [Conn -> Call \cup {None}]
    /\ answers \subseteq Answer

Init ==
    /\ now = 0
    /\ workspaces \in Existing
    /\ outbox = <<>>
    /\ idempotency = [k \in Key |-> None]
    /\ stored = {}
    /\ tagged = {}
    /\ calls = [c \in Conn |-> None]
    /\ answers = {}

NoResponse == [job |-> 0, generation |-> 0]

\* Generation of a workspace, -1 before it exists.
GenerationOf(w) == IF workspaces[w] = None THEN -1 ELSE workspaces[w].generation

At(c, pc) == calls[c] # None /\ calls[c].pc = pc

\* The call of c goes on to pc.
Goes(c, pc) == calls' = [calls EXCEPT ![c].pc = pc]

\* The call of c is over.
Ends(c) == calls' = [calls EXCEPT ![c] = None]

\* The call of c has its response and goes on to pc.
Responds(c, pc, r) ==
    calls' = [calls EXCEPT ![c].pc = pc, ![c].response = r]

-----------------------------------------------------------------------------
(***************************************************************************)
(* Steps of a handler.                                                     *)
(***************************************************************************)

\* A request arrives, with any key; so may its retries, whatever became of it.
Send(c, r, k) ==
    /\ calls[c] = None
    /\ calls' = [calls EXCEPT ![c] =
          [request |-> r, key |-> k,
           pc |-> IF r.op \in {"operation", "upload"} THEN "match" ELSE "lookup",
           response |-> NoResponse, replayed |-> FALSE,
           sent |-> GenerationOf(r.workspace), looked |-> 0,
           repeat |-> \E x \in answers : x.request = r /\ x.key = k]]
    /\ UNCHANGED <<now, workspaces, outbox, idempotency, stored, tagged, answers>>

Matches(c) == GenerationOf(calls[c].request.workspace) = calls[c].request.if_match

Match(c) ==
    /\ At(c, "match")
    /\ Matches(c)
    /\ Goes(c, IF calls[c].request.op = "analysis" THEN "effect" ELSE "lookup")
    /\ UNCHANGED <<now, workspaces, outbox, idempotency, stored, tagged, answers>>

Mismatch(c) ==
    /\ At(c, "match")
    /\ ~Matches(c)
    /\ Ends(c)
    /\ UNCHANGED <<now, workspaces, outbox, idempotency, stored, tagged, answers>>

\* idempotency_get: an expired row counts as none.  A faulty variant gives up a
\* row one tick early.
LiveRowShort(k) == idempotency[k] # None /\ idempotency[k].expires_at > now + 1

LiveRow(k) == idempotency[k] # None /\ idempotency[k].expires_at > now

LookupMiss(c) ==
    /\ At(c, "lookup")
    /\ ~LiveRow(calls[c].key)
    /\ calls' = [calls EXCEPT ![c].looked = now,
          ![c].pc = IF calls[c].request.op = "analysis" THEN "match" ELSE "effect"]
    /\ UNCHANGED <<now, workspaces, outbox, idempotency, stored, tagged, answers>>

\* Whether the row of a key answers a request.  A faulty variant forgets the digest.
SameRequestAny(k, r) == idempotency[k] # None

SameRequest(k, r) == idempotency[k] # None /\ idempotency[k].request = r

LookupReplay(c) ==
    /\ At(c, "lookup")
    /\ LiveRow(calls[c].key)
    /\ SameRequest(calls[c].key, calls[c].request)
    /\ calls' = [calls EXCEPT ![c].pc = "answer", ![c].replayed = TRUE,
                              ![c].response = idempotency[calls[c].key].response]
    /\ UNCHANGED <<now, workspaces, outbox, idempotency, stored, tagged, answers>>

LookupConflict(c) ==
    /\ At(c, "lookup")
    /\ LiveRow(calls[c].key)
    /\ ~SameRequest(calls[c].key, calls[c].request)
    /\ Ends(c)
    /\ UNCHANGED <<now, workspaces, outbox, idempotency, stored, tagged, answers>>

\* create_workspace: the primary key refuses a second one.
CreateWorkspace(c) ==
    /\ At(c, "effect")
    /\ calls[c].request.op = "create"
    /\ workspaces[calls[c].request.workspace] = None
    /\ workspaces' = [workspaces EXCEPT ![calls[c].request.workspace] =
                         [generation |-> 0, pins |-> calls[c].request.body]]
    /\ Responds(c, "put", NoResponse)
    /\ UNCHANGED <<now, outbox, idempotency, stored, tagged, answers>>

WorkspaceExists(c) ==
    /\ At(c, "effect")
    /\ calls[c].request.op = "create"
    /\ workspaces[calls[c].request.workspace] # None
    /\ Ends(c)
    /\ UNCHANGED <<now, workspaces, outbox, idempotency, stored, tagged, answers>>

\* enqueue: the new row carries the workspace and the topic, nothing else of the
\* request.  The answer reports the generation that was compared with If-Match.
Enqueue(c) ==
    /\ At(c, "effect")
    /\ calls[c].request.op \in {"analysis", "operation"}
    /\ Len(outbox) < MaxJobs
    /\ outbox' = Append(outbox,
          [workspace |-> calls[c].request.workspace, topic |-> calls[c].request.topic,
           request |-> calls[c].request, key |-> calls[c].key,
           sent |-> calls[c].sent, written |-> GenerationOf(calls[c].request.workspace),
           looked |-> calls[c].looked, repeat |-> calls[c].repeat])
    /\ Responds(c, "put", [job |-> Len(outbox) + 1,
                           generation |-> calls[c].request.if_match])
    /\ UNCHANGED <<now, workspaces, idempotency, stored, tagged, answers>>

PutObject(c) ==
    /\ At(c, "effect")
    /\ calls[c].request.op = "upload"
    /\ stored' = stored \cup {calls[c].request.body}
    /\ Responds(c, "tag", [job |-> 0, generation |-> calls[c].request.if_match])
    /\ UNCHANGED <<now, workspaces, outbox, idempotency, tagged, answers>>

TagObject(c) ==
    /\ At(c, "tag")
    /\ tagged' = tagged \cup {calls[c].request.body}
    /\ Goes(c, "put")
    /\ UNCHANGED <<now, workspaces, outbox, idempotency, stored, answers>>

\* idempotency_put.  A row that is there, expired or not, stays as it is: the call
\* answers with its own response if the row is of the same request, and ends in an
\* unhandled error, its effect done, if it is not.  A faulty variant overwrites.
PutRowOverwriting(c) ==
    /\ At(c, "put")
    /\ \/ /\ idempotency[calls[c].key] = None \/ SameRequest(calls[c].key, calls[c].request)
          /\ idempotency' = [idempotency EXCEPT ![calls[c].key] =
                [request |-> calls[c].request, response |-> calls[c].response,
                 expires_at |-> now + Lifetime]]
          /\ Goes(c, "answer")
       \/ /\ idempotency[calls[c].key] # None
          /\ ~SameRequest(calls[c].key, calls[c].request)
          /\ Ends(c)
          /\ UNCHANGED idempotency
    /\ UNCHANGED <<now, workspaces, outbox, stored, tagged, answers>>

PutRow(c) ==
    /\ At(c, "put")
    /\ \/ /\ idempotency[calls[c].key] = None
          /\ idempotency' = [idempotency EXCEPT ![calls[c].key] =
                [request |-> calls[c].request, response |-> calls[c].response,
                 expires_at |-> now + Lifetime]]
          /\ Goes(c, "answer")
       \/ /\ idempotency[calls[c].key] # None
          /\ IF SameRequest(calls[c].key, calls[c].request)
                THEN Goes(c, "answer") ELSE Ends(c)
          /\ UNCHANGED idempotency
    /\ UNCHANGED <<now, workspaces, outbox, stored, tagged, answers>>

\* The client receives the answer.
Return(c) ==
    /\ At(c, "answer")
    /\ answers' = answers \cup {[request |-> calls[c].request, key |-> calls[c].key,
                     response |-> calls[c].response, replayed |-> calls[c].replayed]}
    /\ Ends(c)
    /\ UNCHANGED <<now, workspaces, outbox, idempotency, stored, tagged>>

\* The process dies, a database or store request fails, or the answer is lost.
\* Also two insertions of one row at a time, of which the second raises.
Fail(c) ==
    /\ calls[c] # None
    /\ Ends(c)
    /\ UNCHANGED <<now, workspaces, outbox, idempotency, stored, tagged, answers>>

-----------------------------------------------------------------------------
(***************************************************************************)
(* The rest of the system: commits move generations, time passes.          *)
(***************************************************************************)
Advance(w) ==
    /\ workspaces[w] # None
    /\ workspaces[w].generation < MaxGeneration
    /\ workspaces' = [workspaces EXCEPT ![w].generation = @ + 1]
    /\ UNCHANGED <<now, outbox, idempotency, stored, tagged, calls, answers>>

Tick ==
    /\ now < MaxTime
    /\ now' = now + 1
    /\ UNCHANGED <<workspaces, outbox, idempotency, stored, tagged, calls, answers>>

Step(c) ==
    \/ Match(c)
    \/ Mismatch(c)
    \/ LookupMiss(c)
    \/ LookupReplay(c)
    \/ LookupConflict(c)
    \/ CreateWorkspace(c)
    \/ WorkspaceExists(c)
    \/ Enqueue(c)
    \/ PutObject(c)
    \/ TagObject(c)
    \/ PutRow(c)
    \/ Return(c)
    \/ Fail(c)

Next ==
    \/ \E c \in Conn, r \in Request, k \in Key : Send(c, r, k)
    \/ \E c \in Conn : Step(c)
    \/ \E w \in Workspace : Advance(w)
    \/ Tick

Spec == Init /\ [][Next]_vars

-----------------------------------------------------------------------------
(***************************************************************************)
(* Safety.                                                                 *)
(***************************************************************************)

\* What an answer or a stored response claims is so.
Backed(r, k, x) ==
    CASE r.op = "create" -> /\ workspaces[r.workspace] # None
                            /\ workspaces[r.workspace].pins = r.body
      [] r.op = "upload" -> r.body \in tagged
      [] OTHER -> /\ x.job \in 1..Len(outbox)
                  /\ outbox[x.job].request = r
                  /\ outbox[x.job].key = k

(* An answer, computed or replayed, is true of the request it answers: the    *)
(* job it names was queued for this very request and key, the workspace was   *)
(* created with these pins, the object was stored and tagged.  It is about    *)
(* idempotency_get and idempotency_put of app.py's handlers, and is hard      *)
(* because a response crosses three transactions and other calls' rows.       *)
AnswersBacked == \A x \in answers : Backed(x.request, x.key, x.response)

(* Two replays under one key give one answer, however long apart, although    *)
(* idempotency_put is called with different responses for it when calls       *)
(* overlap.                                                                   *)
ReplaysAgree ==
    \A x, y \in answers : x.key = y.key /\ x.replayed /\ y.replayed => x = y

(* A request sent again after its answer was received queues no second job    *)
(* while the row of its key lives: a job that repeats an answered request was *)
(* looked up when the row had expired (idempotency_get).                      *)
RepeatsOnlyAfterExpiry ==
    \A i \in DOMAIN outbox : outbox[i].repeat =>
        /\ idempotency[outbox[i].key] # None
        /\ idempotency[outbox[i].key].expires_at <= outbox[i].looked

(* A request that was already stale when it was sent, or names a generation   *)
(* that does not exist yet, is never queued (the If-Match comparisons of      *)
(* queue_workspace_operation and start_analysis).                             *)
IfMatchHeldDuringCall ==
    \A i \in DOMAIN outbox :
        /\ outbox[i].sent <= outbox[i].request.if_match
        /\ outbox[i].request.if_match <= outbox[i].written

-----------------------------------------------------------------------------
(***************************************************************************)
(* What the documentation says and the handlers do not keep.               *)
(***************************************************************************)

(* Requests that share an idempotency key and are equal share one job: "set  *)
(* CPCF_IDEMPOTENCY_KEY when retries must share one identity" (docs/         *)
(* remote-workspaces.md).  The row is read before and written after enqueue. *)
RetriesShareJob ==
    \A i, j \in DOMAIN outbox :
        outbox[i].request = outbox[j].request /\ outbox[i].key = outbox[j].key => i = j
=============================================================================
