--------------------------- MODULE RunnerGateway ---------------------------
(***************************************************************************)
(* The outbound runner gateway (cpcf_api/runner_gateway.py): runners claim *)
(* short leases on dispatched tasks, send heartbeats, upload artifacts and *)
(* return one signed receipt per attempt.                                  *)
(*                                                                         *)
(* The two asyncio locks are never held across a suspension point, so a    *)
(* claim, a heartbeat or a completion runs from reading the clock to its   *)
(* reply without interruption and is one action.  An artifact upload reads *)
(* its budget, streams the body (other requests run meanwhile) and only    *)
(* then records the artifact: it is two actions that share a slot of       *)
(* "uploads".  A refused request, and a request answered from the          *)
(* idempotency cache, changes nothing: it is a stuttering step.            *)
(***************************************************************************)
EXTENDS Integers, FiniteSets

CONSTANTS
    Tenant, Principal,
    JobId,          \* job identifiers, naturals because claim takes the least
    Digest,         \* content digests of artifacts and materials
    Size,           \* Size[d]: length of the bytes whose digest is d
    Registration,   \* RunnerRegistration records an operator may register
    Task,           \* RunnerTask records an operator may dispatch
    InitialStore,   \* <<tenant, digest>> present in the object store at start
    ReceiptBody,    \* what a receipt says beside its job and its times
    Conn,           \* connections on which an upload may be in progress
    None,
    MaxArtifacts,   \* 10_002 in remaining_artifact_bytes
    MaxAttempts,    \* 32 in claim
    MaxBody,        \* 64 MiB in upload_artifact
    MaxHeartbeats,  \* 1_000_000 in HeartbeatRequest
    MaxTime,        \* bound on the clock, for TLC
    MaxKeys         \* bound on idempotency keys per principal, for TLC

TaskKey == Tenant \X JobId

ASSUME ConstantsAssumption ==
    /\ JobId \subseteq Nat
    /\ Size \in [Digest -> Nat]
    /\ IsFiniteSet(Digest)
    /\ None \notin Principal
    /\ InitialStore \subseteq Tenant \X Digest
    /\ {MaxArtifacts, MaxAttempts, MaxBody, MaxHeartbeats, MaxTime, MaxKeys} \subseteq Nat

\* RunnerRegistration and RunnerTask.  "materials" stands for the input,
\* capability and authority-statement digests; "authorized" for the outcome of
\* the checks on the two authority statements, which read no gateway state;
\* "well_formed" for what RunnerJob's schema says of the fields it takes over.
ASSUME RecordsAssumption ==
    /\ Registration \subseteq
         [tenant_id: Tenant, runner_id: Nat, principal_id: Principal, cert: Nat,
          enabled: BOOLEAN]
    /\ Task \subseteq
         [tenant_id: Tenant, job_id: JobId, lease_seconds: 1..300,
          materials: SUBSET Digest, authorized: BOOLEAN, well_formed: BOOLEAN,
          maximum_input_bytes: Nat, maximum_output_bytes: Nat]
    /\ ReceiptBody \subseteq
         [artifacts: SUBSET Digest,    \* stdout, stderr and output digests
          outputs: SUBSET Digest,      \* the output digests among them
          projected: SUBSET Digest,    \* raw outputs of the pending projections
          claimed_outcome: {"success", "partial", "failure", "timeout"},
          conformant: BOOLEAN]         \* the checks that read no gateway state
    /\ \A body \in ReceiptBody : body.outputs \subseteq body.artifacts

VARIABLES
    now,                 \* current_time()
    registrations,
    tasks,               \* (tenant, job) -> RunnerTaskState
    completed_attempts,  \* {(job_id, attempt)}
    idempotency,         \* cache entries
    issued,              \* lease tokens handed out so far; lease ids are 1..issued
    uploads,             \* upload in progress on each connection, or None
    store,               \* artifact and material objects: {(tenant, digest)}
    statements,          \* signed receipts and projections in the object store
    quarantined          \* objects tagged cpcf-authority = quarantined

vars == <<now, registrations, tasks, completed_attempts, idempotency, issued,
          uploads, store, statements, quarantined>>

(***************************************************************************)
(* Types.  Lease id 0 and expiry -1 stand for Python's None.               *)
(***************************************************************************)
NoLease == 0
NoExpiry == -1

Job == [job_id: JobId, attempt: Nat, lease_id: Nat, created_at: Nat,
        lease_expires_at: Nat]

Receipt == [job: Job, started_at: Nat, completed_at: Nat, body: ReceiptBody]

Statement == [tenant_id: Tenant, receipt: Receipt, projects: Digest \cup {None}]

Request == {<<"claim">>}
      \cup ({"heartbeat"} \X Nat \X Nat)
      \cup ({"upload"} \X Nat \X Digest)
      \cup ({"complete"} \X Nat \X Receipt)

Entry == [tenant_id: Tenant, principal_id: Principal, key: Nat, request: Request,
          result: Job \cup {None}]

TaskState == [task: Task, status: {"queued", "leased", "completed"},
              attempt: Nat, lease_id: Nat, lease_expires_at: Nat \cup {NoExpiry},
              heartbeat_sequence: Nat,
              runner_principal_id: Principal \cup {None},
              job: Job \cup {None}, artifact_digests: SUBSET Digest,
              receipt: Receipt \cup {None}]

Upload == [runner: Registration, lease_id: Nat, digest: Digest, key: Nat,
           maximum: Nat]

TasksTyped ==
    /\ DOMAIN tasks \subseteq TaskKey
    /\ \A x \in DOMAIN tasks :
          /\ tasks[x] \in TaskState
          /\ x = <<tasks[x].task.tenant_id, tasks[x].task.job_id>>

(* Every variable keeps the shape runner_gateway.py gives it. *)
TypeOK ==
    /\ now \in Nat
    /\ registrations \subseteq Registration
    /\ TasksTyped
    /\ completed_attempts \subseteq JobId \X Nat
    /\ idempotency \subseteq Entry
    /\ issued \in Nat
    /\ uploads \in [Conn -> Upload \cup {None}]
    /\ store \subseteq Tenant \X Digest
    /\ statements \subseteq Statement
    /\ quarantined \subseteq Tenant \X Digest

Init ==
    /\ now = 0
    /\ registrations = {}
    /\ tasks = [x \in {} |-> None]
    /\ completed_attempts = {}
    /\ idempotency = {}
    /\ issued = 0
    /\ uploads = [c \in Conn |-> None]
    /\ store = InitialStore
    /\ statements = {}
    /\ quarantined = {}

(***************************************************************************)
(* Idempotency (InMemoryRunnerGateway.idempotent).  Keys are compared only *)
(* for equality, so naming a principal's keys 1, 2, 3, ... in the order    *)
(* they first take effect loses no behaviour.                              *)
(***************************************************************************)
Entries(t, p, k) ==
    {e \in idempotency : e.tenant_id = t /\ e.principal_id = p /\ e.key = k}

InFlight(t, p, k) ==
    \E c \in Conn : /\ uploads[c] # None
                    /\ uploads[c].runner.tenant_id = t
                    /\ uploads[c].runner.principal_id = p
                    /\ uploads[c].key = k

\* A key the client may send: one it used before, or the next new one.
Drawable(r, k) ==
    \A i \in 1..(k - 1) :
       \/ Entries(r.tenant_id, r.principal_id, i) # {}
       \/ InFlight(r.tenant_id, r.principal_id, i)

\* idempotent() runs the operation only when the key is not cached, ...
Uncached(r, k) == Entries(r.tenant_id, r.principal_id, k) = {}

\* ... and caches what a successful operation returned.
Remember(r, k, request, result) ==
    idempotency' = idempotency \cup
        {[tenant_id |-> r.tenant_id, principal_id |-> r.principal_id, key |-> k,
          request |-> request, result |-> result]}

\* Every lease handed out, with the principal it was handed to.
Grants == {e \in idempotency : e.request[1] = "claim"}

(***************************************************************************)
(* Lookups.                                                                *)
(***************************************************************************)
Authenticated(r) == r \in registrations /\ r.enabled

\* The runner was told the lease id of the task, a random token.
Told(r, x) ==
    \E e \in Grants : e.tenant_id = r.tenant_id /\ e.result.lease_id = tasks[x].lease_id

\* Total length of a set of objects: one element for each of their bytes.
Bytes(S) == Cardinality(UNION {{d} \X (1..Size[d]) : d \in S})

\* _active_state: the one task of the tenant that carries the lease id, held by
\* this principal, its lease not yet over.
Active(r, lease_id, x) ==
    /\ {y \in DOMAIN tasks : y[1] = r.tenant_id /\ tasks[y].lease_id = lease_id} = {x}
    /\ tasks[x].status = "leased"
    /\ tasks[x].runner_principal_id = r.principal_id
    /\ now <= tasks[x].lease_expires_at

\* remaining_artifact_bytes
Remaining(s) ==
    LET left == s.task.maximum_output_bytes - Bytes(s.artifact_digests)
    IN  IF Cardinality(s.artifact_digests) >= MaxArtifacts \/ left < 0
        THEN 0
        ELSE left

\* Faulty variant: a lease is reclaimed at the instant it still covers.
CandidatesAtExpiry(t) ==
    {x \in DOMAIN tasks :
        /\ x[1] = t
        /\ \/ tasks[x].status = "queued"
           \/ tasks[x].status = "leased" /\ tasks[x].lease_expires_at <= now}

\* The tasks claim chooses from: queued, or leased with the lease over.
Candidates(t) ==
    {x \in DOMAIN tasks :
        /\ x[1] = t
        /\ \/ tasks[x].status = "queued"
           \/ tasks[x].status = "leased" /\ tasks[x].lease_expires_at < now}

\* Faulty variant: the least job of the tenant, whether it is a candidate or not.
SelectedOfAll(t, x) ==
    /\ x \in Candidates(t)
    /\ \A y \in DOMAIN tasks : y[1] = t => x[2] <= y[2]

\* min(candidates, key=job_id): claim looks at no other task.
Selected(t, x) ==
    /\ x \in Candidates(t)
    /\ \A y \in Candidates(t) : x[2] <= y[2]

(***************************************************************************)
(* Operator actions.                                                       *)
(***************************************************************************)
Tick ==
    /\ now < MaxTime
    /\ now' = now + 1
    /\ UNCHANGED <<registrations, tasks, completed_attempts, idempotency, issued,
                   uploads, store, statements, quarantined>>

\* register: (tenant, runner) and the certificate are each bound once.
Register(r) ==
    /\ \A q \in registrations :
          /\ <<q.tenant_id, q.runner_id>> # <<r.tenant_id, r.runner_id>>
          /\ q.cert # r.cert
    /\ registrations' = registrations \cup {r}
    /\ UNCHANGED <<now, tasks, completed_attempts, idempotency, issued, uploads,
                   store, statements, quarantined>>

NewTask(task) ==
    [task |-> task, status |-> "queued", attempt |-> 0, lease_id |-> NoLease,
     lease_expires_at |-> NoExpiry, heartbeat_sequence |-> 0,
     runner_principal_id |-> None, job |-> None, artifact_digests |-> {},
     receipt |-> None]

\* dispatch: authorities verified, every material present and within the limit.
Dispatch(task) ==
    LET key == <<task.tenant_id, task.job_id>>
    IN  /\ key \notin DOMAIN tasks
        /\ task.authorized
        /\ \A d \in task.materials : <<task.tenant_id, d>> \in store
        /\ Bytes(task.materials) <= task.maximum_input_bytes
        /\ tasks' = [x \in DOMAIN tasks \cup {key} |->
                        IF x = key THEN NewTask(task) ELSE tasks[x]]
        /\ UNCHANGED <<now, registrations, completed_attempts, idempotency, issued,
                       uploads, store, statements, quarantined>>

(***************************************************************************)
(* Claims.                                                                 *)
(***************************************************************************)
Claimable(r, k, x) ==
    /\ Authenticated(r)
    /\ Drawable(r, k)
    /\ Uncached(r, k)
    /\ Selected(r.tenant_id, x)
    /\ tasks[x].attempt < MaxAttempts

\* claim, the job signed and verified.
ClaimGranted(r, k, x) ==
    LET s == tasks[x]
        job == [job_id |-> x[2], attempt |-> s.attempt + 1, lease_id |-> issued + 1,
                created_at |-> now, lease_expires_at |-> now + s.task.lease_seconds]
    IN  /\ Claimable(r, k, x)
        /\ s.task.well_formed
        /\ tasks' = [tasks EXCEPT ![x] =
              [s EXCEPT !.status = "leased", !.attempt = job.attempt,
                        !.lease_id = job.lease_id,
                        !.lease_expires_at = job.lease_expires_at,
                        !.heartbeat_sequence = 0,
                        !.runner_principal_id = r.principal_id,
                        !.job = job]]
        /\ issued' = issued + 1
        /\ Remember(r, k, <<"claim">>, job)
        /\ UNCHANGED <<now, registrations, completed_attempts, uploads, store,
                       statements, quarantined>>

\* claim, the signer or the verifier failing: the lease is taken back and the
\* task queued again.  The job signed for an earlier attempt stays bound.
ClaimRolledBack(r, k, x) ==
    /\ Claimable(r, k, x)
    /\ tasks[x].task.well_formed
    /\ tasks' = [tasks EXCEPT ![x] =
          [@ EXCEPT !.status = "queued", !.lease_id = NoLease,
                    !.lease_expires_at = NoExpiry, !.heartbeat_sequence = 0,
                    !.runner_principal_id = None]]
    /\ UNCHANGED <<now, registrations, completed_attempts, idempotency, issued,
                   uploads, store, statements, quarantined>>

\* claim, RunnerJob refusing a field: that is outside the try, so the lease is
\* not taken back. No job is bound and nobody learns the lease id.
ClaimUnbuilt(r, k, x) ==
    LET s == tasks[x]
    IN  /\ Claimable(r, k, x)
        /\ ~ s.task.well_formed
        /\ tasks' = [tasks EXCEPT ![x] =
              [s EXCEPT !.status = "leased", !.attempt = s.attempt + 1,
                        !.lease_id = issued + 1,
                        !.lease_expires_at = now + s.task.lease_seconds,
                        !.heartbeat_sequence = 0,
                        !.runner_principal_id = r.principal_id]]
        /\ issued' = issued + 1
        /\ UNCHANGED <<now, registrations, completed_attempts, idempotency, uploads,
                       store, statements, quarantined>>

\* heartbeat: the next number of the sequence; the lease is not extended.
Heartbeat(r, k, x) ==
    LET s == tasks[x]
        sequence == s.heartbeat_sequence + 1
    IN  /\ Authenticated(r)
        /\ Drawable(r, k)
        /\ Uncached(r, k)
        /\ Told(r, x)
        /\ Active(r, s.lease_id, x)
        /\ sequence <= MaxHeartbeats
        /\ tasks' = [tasks EXCEPT ![x].heartbeat_sequence = sequence]
        /\ Remember(r, k, <<"heartbeat", s.lease_id, sequence>>, None)
        /\ UNCHANGED <<now, registrations, completed_attempts, issued, uploads,
                       store, statements, quarantined>>

(***************************************************************************)
(* Artifact uploads.                                                       *)
(***************************************************************************)
\* upload_artifact up to the first chunk: the budget is read before the
\* idempotency cache is consulted.
UploadStart(c, r, k, x, d) ==
    LET maximum == Remaining(tasks[x])
    IN  /\ uploads[c] = None
        /\ Authenticated(r)
        /\ Drawable(r, k)
        /\ Told(r, x)
        /\ Active(r, tasks[x].lease_id, x)
        /\ maximum > 0
        /\ uploads' = [uploads EXCEPT ![c] =
              [runner |-> r, lease_id |-> tasks[x].lease_id, digest |-> d,
               key |-> k, maximum |-> maximum]]
        /\ UNCHANGED <<now, registrations, tasks, completed_attempts, idempotency,
                       issued, store, statements, quarantined>>

\* Faulty variant: the cache was consulted only before the body was read.
ReceivedUnchecked(c) ==
    /\ uploads[c] # None
    /\ Size[uploads[c].digest] <= uploads[c].maximum
    /\ Size[uploads[c].digest] <= MaxBody

\* The body arrived whole and within the limit read at the start, and the
\* operation has to be performed.
Received(c) ==
    /\ uploads[c] # None
    /\ Size[uploads[c].digest] <= uploads[c].maximum
    /\ Size[uploads[c].digest] <= MaxBody
    /\ Uncached(uploads[c].runner, uploads[c].key)

\* Faulty variant: the remainder read before the body was streamed is trusted.
RecordableByOldRemainder(u, x) ==
    /\ Active(u.runner, u.lease_id, x)
    /\ Size[u.digest] <= u.maximum

\* record_artifact, which finds the object present because put succeeded.
Recordable(u, x) ==
    /\ Active(u.runner, u.lease_id, x)
    /\ Bytes(tasks[x].artifact_digests \cup {u.digest})
          <= tasks[x].task.maximum_output_bytes

UploadRecorded(c) ==
    LET u == uploads[c]
    IN  /\ Received(c)
        /\ \E x \in DOMAIN tasks :
              /\ Recordable(u, x)
              /\ tasks' = [tasks EXCEPT ![x].artifact_digests = @ \cup {u.digest}]
        /\ store' = store \cup {<<u.runner.tenant_id, u.digest>>}
        /\ Remember(u.runner, u.key, <<"upload", u.lease_id, u.digest>>, None)
        /\ uploads' = [uploads EXCEPT ![c] = None]
        /\ UNCHANGED <<now, registrations, completed_attempts, issued, statements,
                       quarantined>>

\* put succeeded and record_artifact refused: an object this request created is
\* tagged as quarantined.  Nothing is cached.
UploadRefused(c) ==
    LET u == uploads[c]
        object == <<u.runner.tenant_id, u.digest>>
    IN  /\ Received(c)
        /\ \A x \in DOMAIN tasks : ~ Recordable(u, x)
        /\ store' = store \cup {object}
        /\ quarantined' = IF object \in store THEN quarantined
                          ELSE quarantined \cup {object}
        /\ uploads' = [uploads EXCEPT ![c] = None]
        /\ UNCHANGED <<now, registrations, tasks, completed_attempts, idempotency,
                       issued, statements>>

\* The store took the bytes but put, or the tagging after a refusal, raised.
UploadStoreError(c) ==
    LET u == uploads[c]
    IN  /\ Received(c)
        /\ store' = store \cup {<<u.runner.tenant_id, u.digest>>}
        /\ uploads' = [uploads EXCEPT ![c] = None]
        /\ UNCHANGED <<now, registrations, tasks, completed_attempts, idempotency,
                       issued, statements, quarantined>>

\* The request ends without effect: disconnect, body too large, digest mismatch,
\* put refused, or the key found in the cache.
UploadEnded(c) ==
    /\ uploads[c] # None
    /\ uploads' = [uploads EXCEPT ![c] = None]
    /\ UNCHANGED <<now, registrations, tasks, completed_attempts, idempotency,
                   issued, store, statements, quarantined>>

(***************************************************************************)
(* Completion.                                                             *)
(***************************************************************************)
\* Faulty variant: the start of the execution is not compared with the job.
ValidReceiptAnyStart(receipt, s) ==
    LET job == s.job
    IN  /\ receipt.job = job
        /\ now <= job.lease_expires_at
        /\ receipt.completed_at <= now
        /\ receipt.completed_at <= job.lease_expires_at
        /\ <<job.job_id, job.attempt>> \notin completed_attempts
        /\ receipt.body.artifacts \subseteq s.artifact_digests \cup s.task.materials
        /\ Bytes(receipt.body.artifacts) <= s.task.maximum_output_bytes
        /\ receipt.body.conformant

\* validate_receipt.  The checks that only compare the receipt with the task's
\* capability and policy documents, the outcome classification among them, are
\* ReceiptBody's "conformant"; so are the checks on its signature.
ValidReceipt(receipt, s) ==
    LET job == s.job
    IN  /\ receipt.job = job
        /\ now <= job.lease_expires_at
        /\ receipt.completed_at <= now
        /\ receipt.started_at >= job.created_at
        /\ receipt.completed_at <= job.lease_expires_at
        /\ <<job.job_id, job.attempt>> \notin completed_attempts
        /\ receipt.body.artifacts \subseteq s.artifact_digests \cup s.task.materials
        /\ Bytes(receipt.body.artifacts) <= s.task.maximum_output_bytes
        /\ receipt.body.conformant

\* The loop over projection_statements in complete.
ValidProjections(body) ==
    /\ body.projected \subseteq body.outputs
    /\ body.projected # {} => body.claimed_outcome \in {"success", "partial"}

ReceiptStatement(t, receipt) ==
    [tenant_id |-> t, receipt |-> receipt, projects |-> None]

ProjectionStatements(t, receipt, outputs) ==
    {[tenant_id |-> t, receipt |-> receipt, projects |-> d] : d \in outputs}

Completable(r, k, x, receipt) ==
    /\ Authenticated(r)
    /\ Drawable(r, k)
    /\ Uncached(r, k)
    /\ Active(r, tasks[x].lease_id, x)
    /\ tasks[x].job # None
    /\ ValidReceipt(receipt, tasks[x])
    /\ ValidProjections(receipt.body)

\* Faulty variant: the task is marked before its projections are stored.
CompleteEarly(r, k, x, receipt) ==
    /\ Completable(r, k, x, receipt)
    /\ statements' = statements \cup {ReceiptStatement(r.tenant_id, receipt)}
    /\ completed_attempts' = completed_attempts \cup {<<x[2], tasks[x].attempt>>}
    /\ tasks' = [tasks EXCEPT ![x].status = "completed", ![x].receipt = receipt]
    /\ Remember(r, k, <<"complete", tasks[x].lease_id, receipt>>, None)
    /\ UNCHANGED <<now, registrations, issued, uploads, store, quarantined>>

\* complete: the statements reach the object store before the task is marked.
Complete(r, k, x, receipt) ==
    /\ Completable(r, k, x, receipt)
    /\ statements' = statements
          \cup {ReceiptStatement(r.tenant_id, receipt)}
          \cup ProjectionStatements(r.tenant_id, receipt, receipt.body.projected)
    /\ completed_attempts' = completed_attempts \cup {<<x[2], tasks[x].attempt>>}
    /\ tasks' = [tasks EXCEPT ![x].status = "completed", ![x].receipt = receipt]
    /\ Remember(r, k, <<"complete", tasks[x].lease_id, receipt>>, None)
    /\ UNCHANGED <<now, registrations, issued, uploads, store, quarantined>>

\* complete, a put failing after the receipt and some projections were stored.
CompleteStoreError(r, k, x, receipt) ==
    /\ Completable(r, k, x, receipt)
    /\ \E stored \in SUBSET receipt.body.projected :
          statements' = statements
             \cup {ReceiptStatement(r.tenant_id, receipt)}
             \cup ProjectionStatements(r.tenant_id, receipt, stored)
    /\ UNCHANGED <<now, registrations, tasks, completed_attempts, idempotency,
                   issued, uploads, store, quarantined>>

(***************************************************************************)
(* The specification.                                                      *)
(***************************************************************************)
Key == 1..MaxKeys

\* Receipts a runner may sign for the jobs handed out so far; the
\* document model refuses one that ends before it starts.
Receipts ==
    {receipt \in [job: {e.result : e \in Grants}, started_at: 0..MaxTime,
                  completed_at: 0..MaxTime, body: ReceiptBody] :
        receipt.started_at <= receipt.completed_at}

Claim ==
    \E r \in registrations, k \in Key, x \in DOMAIN tasks :
       ClaimGranted(r, k, x) \/ ClaimUnbuilt(r, k, x)

ClaimFails ==
    \E r \in registrations, k \in Key, x \in DOMAIN tasks :
       ClaimRolledBack(r, k, x)

HeartbeatStep ==
    \E r \in registrations, k \in Key, x \in DOMAIN tasks : Heartbeat(r, k, x)

UploadStep ==
    \E c \in Conn :
       \/ \E r \in registrations, k \in Key, x \in DOMAIN tasks, d \in Digest :
             UploadStart(c, r, k, x, d)
       \/ UploadRecorded(c)
       \/ UploadRefused(c)
       \/ UploadStoreError(c)
       \/ UploadEnded(c)

CompleteStep ==
    \E r \in registrations, k \in Key, x \in DOMAIN tasks :
       /\ Active(r, tasks[x].lease_id, x)
       /\ \E receipt \in Receipts :
             \/ Complete(r, k, x, receipt)
             \/ CompleteStoreError(r, k, x, receipt)

Next ==
    \/ Tick
    \/ \E r \in Registration : Register(r)
    \/ \E task \in Task : Dispatch(task)
    \/ Claim
    \/ ClaimFails
    \/ HeartbeatStep
    \/ UploadStep
    \/ CompleteStep

Spec == Init /\ [][Next]_vars

\* Some runner keeps polling and the signer does not fail for ever.
FairSpec == Spec /\ WF_vars(Claim)
(***************************************************************************)
(* Properties.                                                             *)
(***************************************************************************)
SameTask(e, f) ==
    e.tenant_id = f.tenant_id /\ e.result.job_id = f.result.job_id

(* Two leases of one task never overlap: claim hands a task out again only   *)
(* after the previous lease is over for _active_state, under a new attempt   *)
(* number, whatever claims were rolled back in between.                      *)
LeasesNeverOverlap ==
    \A e, f \in Grants :
       (SameTask(e, f) /\ e # f) =>
          \/ e.result.attempt < f.result.attempt
             /\ e.result.lease_expires_at < f.result.created_at
          \/ f.result.attempt < e.result.attempt
             /\ f.result.lease_expires_at < e.result.created_at

(* While a task is leased, its lease fields, its signed job and the claim the *)
(* gateway answered agree: complete validates receipts against state.job, so  *)
(* a job left over from an earlier attempt must never be current. Only a task *)
(* of which no job can be built is leased without one.                        *)
LeaseMatchesSignedJob ==
    \A x \in DOMAIN tasks :
       LET s == tasks[x]
       IN  /\ ~ s.task.well_formed => s.job = None
           /\ s.status = "leased" /\ s.task.well_formed =>
                 \E e \in Grants :
                    /\ e.tenant_id = x[1]
                    /\ e.principal_id = s.runner_principal_id
                    /\ e.result = s.job
                    /\ s.job.job_id = x[2]
                    /\ s.job.attempt = s.attempt
                    /\ s.job.lease_id = s.lease_id
                    /\ s.job.lease_expires_at = s.lease_expires_at

(* Leases of a task are disjoint, and the one under way is the one its signed *)
(* job states: whatever claims expire, are rolled back or find no job.        *)
LeasesSound == LeasesNeverOverlap /\ LeaseMatchesSignedJob

(* A request takes effect once per idempotency key, also when uploads with   *)
(* the same key were streaming at the same time.                             *)
OneEffectPerKey ==
    \A e, f \in idempotency :
       (e.tenant_id = f.tenant_id /\ e.principal_id = f.principal_id /\ e.key = f.key)
          => e = f

(* The receipt that completed a task reports an execution inside the lease of *)
(* the last attempt handed out: no attempt follows a completed one, and (with *)
(* LeasesNeverOverlap) the evidence of no other attempt can stand for it.     *)
EvidenceWithinLastLease ==
    \A x \in DOMAIN tasks : tasks[x].status = "completed" =>
       LET job == tasks[x].receipt.job
       IN  /\ job.created_at <= tasks[x].receipt.started_at
           /\ tasks[x].receipt.completed_at <= job.lease_expires_at
           /\ \E e \in Grants : e.tenant_id = x[1] /\ e.result = job
           /\ \A e \in Grants :
                 (e.tenant_id = x[1] /\ e.result.job_id = x[2])
                    => e.result.attempt <= job.attempt

(* What every claim answered so far still says about the task: the bound on  *)
(* attempts and expiries that makes the next claim safe.                     *)
GrantsBounded ==
    \A e \in Grants :
       LET s == tasks[<<e.tenant_id, e.result.job_id>>]
       IN  /\ e.result \in Job
           /\ <<e.tenant_id, e.result.job_id>> \in DOMAIN tasks
           /\ e.result.attempt <= s.attempt
           /\ e.result.created_at <= now
           /\ s.status = "queued" => e.result.lease_expires_at < now
           /\ s.status = "leased" => e.result.lease_expires_at <= s.lease_expires_at

\* The receipt of a completed task belongs to its current attempt.
ReceiptIsCurrent ==
    \A x \in DOMAIN tasks : tasks[x].status = "completed" =>
       /\ tasks[x].receipt \in Receipt
       /\ tasks[x].receipt.job.attempt = tasks[x].attempt
       /\ tasks[x].receipt.job.created_at <= tasks[x].receipt.started_at
       /\ tasks[x].receipt.completed_at <= tasks[x].receipt.job.lease_expires_at
       /\ \E e \in Grants : e.tenant_id = x[1] /\ e.result = tasks[x].receipt.job

(* The inductive invariant behind LeasesNeverOverlap, LeaseMatchesSignedJob  *)
(* and EvidenceWithinLastLease.                                              *)
LeaseInvariant ==
    /\ GrantsBounded
    /\ LeaseMatchesSignedJob
    /\ LeasesNeverOverlap
    /\ ReceiptIsCurrent

(* A pending projection never reaches the object store before the receipt it *)
(* projects, nor for a receipt that claims failure, even when complete fails *)
(* between two puts.                                                         *)
ProjectionBacked ==
    \A s \in statements : s.projects # None =>
       /\ ReceiptStatement(s.tenant_id, s.receipt) \in statements
       /\ s.receipt.body.claimed_outcome \in {"success", "partial"}
       /\ <<s.tenant_id, s.projects>> \in store

(* What a completed task refers to is in the object store: its receipt, its  *)
(* pending projections, and every artifact the receipt names. And what a     *)
(* failed complete leaves behind is no projection without its receipt.       *)
CompletionDurable ==
    /\ ProjectionBacked
    /\ \A x \in DOMAIN tasks : tasks[x].status = "completed" =>
          LET receipt == tasks[x].receipt
          IN  /\ ReceiptStatement(x[1], receipt) \in statements
              /\ ProjectionStatements(x[1], receipt, receipt.body.projected)
                    \subseteq statements
              /\ \A d \in receipt.body.artifacts : <<x[1], d>> \in store

(* What a task may refer to is in the object store: its materials since the   *)
(* dispatch, its artifacts since they were recorded.                          *)
MaterialsStored ==
    \A x \in DOMAIN tasks :
       \A d \in tasks[x].artifact_digests \cup tasks[x].task.materials :
          <<x[1], d>> \in store

(* The artifacts recorded for a task stay within its policy's output bytes,  *)
(* although the remainder each upload was allowed was read before others     *)
(* finished.                                                                 *)
ArtifactBudget ==
    \A x \in DOMAIN tasks :
       Bytes(tasks[x].artifact_digests) <= tasks[x].task.maximum_output_bytes

(* An artifact is recorded by an upload that began under the last lease of    *)
(* the task, while that lease lasts and the task is not completed, however    *)
(* late the body came.                                                        *)
UploadedUnderLease ==
    \A x \in DOMAIN tasks :
       \A d \in tasks'[x].artifact_digests \ tasks[x].artifact_digests :
          tasks[x].task.well_formed =>
             /\ tasks[x].status = "leased"
             /\ \E c \in Conn, e \in Grants :
                   /\ uploads[c] # None /\ uploads'[c] = None
                   /\ uploads[c].digest = d
                   /\ uploads[c].lease_id = e.result.lease_id
                   /\ uploads[c].runner.principal_id = e.principal_id
                   /\ e.tenant_id = x[1] /\ e.result.job_id = x[2]
                   /\ now <= e.result.lease_expires_at
                   /\ \A f \in Grants : SameTask(e, f) => f.result.attempt <= e.result.attempt

(* No step takes artifacts over the budget (at first there are no tasks), or  *)
(* adds one outside the lease its upload began under (upload_artifact,        *)
(* record_artifact).                                                          *)
ArtifactsUnderLease == [][ArtifactBudget' /\ UploadedUnderLease]_vars

Queued(x) == x \in DOMAIN tasks /\ tasks[x].status = "queued"

(* A queued task of a tenant with an enabled runner is eventually leased      *)
(* unless a task with a smaller id, all its attempts used and its lease over, *)
(* stands in front of it: claim refuses to look past such a task.            *)
QueuedIsServed ==
    \A x \in TaskKey :
       (Queued(x) /\ \E r \in registrations : r.enabled /\ r.tenant_id = x[1])
       ~> \/ ~ Queued(x)
          \/ \E y \in Candidates(x[1]) :
                y[2] < x[2] /\ tasks[y].attempt >= MaxAttempts

(***************************************************************************)
(* A statement of the repository that the code does not keep.              *)
(***************************************************************************)
(* A live lease is never refused its first receipt as a replay: the attempts *)
(* recorded as completed are attempts of the same task.                      *)
NoSpuriousReplay ==
    \A x \in DOMAIN tasks : tasks[x].status = "leased"
       => <<x[2], tasks[x].attempt>> \notin completed_attempts

-----------------------------------------------------------------------------
(***************************************************************************)
(* The runner gateway implements LeaseQueue: each (tenant, job) key is an  *)
(* item, absent until it is dispatched.                                    *)
(***************************************************************************)

PhaseOf(status) ==
    CASE status = "queued" -> "waiting"
      [] status = "leased" -> "held"
      [] status = "completed" -> "finished"

ItemOf(x) ==
    IF x \in DOMAIN tasks
    THEN [phase |-> PhaseOf(tasks[x].status),
          holder |-> tasks[x].runner_principal_id,
          until |-> tasks[x].lease_expires_at,
          round |-> tasks[x].attempt]
    ELSE [phase |-> "absent", holder |-> None, until |-> NoExpiry, round |-> 0]

Queue == INSTANCE LeaseQueue WITH
    Item <- TaskKey, Holder <- Principal, NoHolder <- None,
    clock <- now, items <- [x \in TaskKey |-> ItemOf(x)]

(* Every behaviour of the gateway is, task by task, a behaviour of the lease *)
(* queue: whatever else claims, uploads and receipts do, the life of a task  *)
(* is that of one item handed out, taken back after its instant and finished *)
(* once.                                                                     *)
ImplementsLeaseQueue == Queue!Spec
=============================================================================
