----------------------- MODULE RunnerGateway_proofs -----------------------
(***************************************************************************)
(* Theorems about the runner gateway, for every value of its constants.    *)
(***************************************************************************)
EXTENDS RunnerGateway, FiniteSetTheorems, TLAPS

(***************************************************************************)
(* Byte counts.                                                            *)
(***************************************************************************)
(* The objects recorded for a task have finitely many bytes. *)
LEMMA BytesFinite ==
    ASSUME NEW S \in SUBSET Digest
    PROVE  IsFiniteSet(UNION {{d} \X (1..Size[d]) : d \in S})
<1> DEFINE chunk == [d \in S |-> {d} \X (1..Size[d])]
           T == {{d} \X (1..Size[d]) : d \in S}
<1>1. IsFiniteSet(S)
  BY ConstantsAssumption, FS_Subset
<1>2. chunk \in Surjection(S, T)
  BY DEF Surjection
<1>3. IsFiniteSet(T)
  BY <1>1, <1>2, FS_Surjection
<1>4. ASSUME NEW C \in T PROVE IsFiniteSet(C)
  <2>1. PICK d \in S : C = {d} \X (1..Size[d])
    OBVIOUS
  <2>2. 1 \in Int /\ Size[d] \in Int
    BY ConstantsAssumption
  <2>3. IsFiniteSet(1..Size[d])
    BY <2>2, FS_Interval
  <2>4. IsFiniteSet({d})
    BY FS_Singleton
  <2> QED
    BY <2>1, <2>3, <2>4, FS_Product
<1> QED
  BY <1>3, <1>4, FS_UNION

(* A byte count is a natural number. *)
LEMMA BytesType ==
    ASSUME NEW S \in SUBSET Digest
    PROVE  Bytes(S) \in Nat
BY BytesFinite, FS_CardinalityType DEF Bytes

(* No object, no byte. *)
LEMMA BytesEmpty == Bytes({}) = 0
<1>1. UNION {{d} \X (1..Size[d]) : d \in {}} = {}
  OBVIOUS
<1> QED
  BY <1>1, FS_EmptySet DEF Bytes

(***************************************************************************)
(* Type correctness.                                                       *)
(***************************************************************************)
(* The initial state is well typed. *)
LEMMA TypeInit == Init => TypeOK
BY ConstantsAssumption DEF Init, TypeOK, TasksTyped

(* A task that keeps its document may take any new state of its type. *)
LEMMA TaskUpdate ==
    ASSUME TypeOK, NEW x \in DOMAIN tasks, NEW new \in TaskState,
           new.task = tasks[x].task, tasks' = [tasks EXCEPT ![x] = new]
    PROVE  TasksTyped'
BY DEF TypeOK, TasksTyped

(* What idempotent() caches is an entry. *)
LEMMA RememberType ==
    ASSUME TypeOK, NEW r \in Registration, NEW k \in Nat, NEW request \in Request,
           NEW result \in Job \cup {None}, Remember(r, k, request, result)
    PROVE  idempotency' \subseteq Entry
<1> DEFINE e == [tenant_id |-> r.tenant_id, principal_id |-> r.principal_id, key |-> k,
                 request |-> request, result |-> result]
<1>1. e \in Entry
  BY RecordsAssumption DEF Entry
<1> QED
  BY <1>1 DEF Remember, TypeOK

(* What TypeOK says of a task a handler looks at. *)
LEMMA TaskFacts ==
    ASSUME TypeOK, NEW x \in DOMAIN tasks
    PROVE  /\ tasks[x] \in TaskState
           /\ x = <<tasks[x].task.tenant_id, tasks[x].task.job_id>>
           /\ tasks[x].task \in Task
           /\ tasks[x].task.tenant_id \in Tenant
           /\ tasks[x].task.job_id \in JobId
           /\ tasks[x].task.lease_seconds \in 1..300
           /\ tasks[x].task.maximum_output_bytes \in Nat
           /\ x[1] \in Tenant /\ x[2] \in JobId
BY RecordsAssumption DEF TypeOK, TasksTyped, TaskState

(* claim, signed or rolled back, keeps the types. *)
LEMMA TypeClaim ==
    ASSUME TypeOK, NEW r \in registrations, NEW k \in Key, NEW x \in DOMAIN tasks,
           ClaimGranted(r, k, x)
    PROVE  TypeOK'
<1> DEFINE s == tasks[x]
           job == [job_id |-> x[2], attempt |-> s.attempt + 1, lease_id |-> issued + 1,
                   created_at |-> now, lease_expires_at |-> now + s.task.lease_seconds]
           new == [s EXCEPT !.status = "leased", !.attempt = job.attempt,
                        !.lease_id = job.lease_id,
                        !.lease_expires_at = job.lease_expires_at,
                        !.heartbeat_sequence = 0,
                        !.runner_principal_id = r.principal_id,
                        !.job = job]
<1>1. job \in Job
  <2>1. /\ s \in TaskState /\ s.task.lease_seconds \in 1..300 /\ x[2] \in JobId
        /\ now \in Nat /\ issued \in Nat
    BY TaskFacts DEF TypeOK
  <2> HIDE DEF s
  <2>2. s.attempt \in Nat
    BY <2>1 DEF TaskState
  <2> QED
    BY <2>1, <2>2, SMTT(30) DEF Job
<1>2. new \in TaskState /\ new.task = s.task
  <2>1. /\ job.attempt \in Nat /\ job.lease_id \in Nat /\ job.lease_expires_at \in Nat
        /\ r.principal_id \in Principal /\ s \in TaskState
    BY <1>1, TaskFacts, RecordsAssumption DEF Job, TypeOK
  <2> HIDE DEF s, job
  <2> QED
    BY <1>1, <2>1 DEF TaskState
<1>3. tasks' = [tasks EXCEPT ![x] = new] /\ Remember(r, k, <<"claim">>, job)
  BY DEF ClaimGranted
<1>4. TasksTyped'
  <2> HIDE DEF new
  <2> QED BY <1>2, <1>3, TaskUpdate
<1>5. idempotency' \subseteq Entry
  <2>1. k \in Nat /\ r \in Registration /\ <<"claim">> \in Request
    BY ConstantsAssumption DEF Key, TypeOK, Request
  <2> HIDE DEF job
  <2> QED BY <1>1, <1>3, <2>1, RememberType
<1> QED
  BY <1>4, <1>5 DEF ClaimGranted, TypeOK

(* A claim whose signing failed keeps the types: the attempt number returns to what it was. *)
LEMMA TypeClaimRolledBack ==
    ASSUME TypeOK, NEW r \in registrations, NEW k \in Key, NEW x \in DOMAIN tasks,
           ClaimRolledBack(r, k, x)
    PROVE  TypeOK'
<1> DEFINE new == [tasks[x] EXCEPT !.status = "queued", !.lease_id = NoLease,
                    !.lease_expires_at = NoExpiry, !.heartbeat_sequence = 0,
                    !.runner_principal_id = None]
<1>1. new \in TaskState /\ new.task = tasks[x].task
  <2>1. tasks[x] \in TaskState
    BY TaskFacts
  <2> QED
    BY <2>1 DEF TaskState, NoLease
<1>2. tasks' = [tasks EXCEPT ![x] = new]
  BY DEF ClaimRolledBack
<1>3. TasksTyped'
  <2> HIDE DEF new
  <2> QED BY <1>1, <1>2, TaskUpdate
<1> QED
  BY <1>3 DEF ClaimRolledBack, TypeOK

(* A claim whose job cannot be built keeps the types. *)
LEMMA TypeClaimUnbuilt ==
    ASSUME TypeOK, NEW r \in registrations, NEW k \in Key, NEW x \in DOMAIN tasks,
           ClaimUnbuilt(r, k, x)
    PROVE  TypeOK'
<1> DEFINE s == tasks[x]
           expires == now + s.task.lease_seconds
           new == [s EXCEPT !.status = "leased", !.attempt = s.attempt + 1,
                        !.lease_id = issued + 1, !.lease_expires_at = expires,
                        !.heartbeat_sequence = 0, !.runner_principal_id = r.principal_id]
<1>1. /\ s \in TaskState /\ s.task.lease_seconds \in 1..300 /\ now \in Nat /\ issued \in Nat
      /\ r.principal_id \in Principal
  BY TaskFacts, RecordsAssumption DEF TypeOK
<1>2. new \in TaskState /\ new.task = s.task
  <2>1. expires \in Nat
    <3> HIDE DEF s
    <3> QED BY <1>1, SMTT(30)
  <2>2. s.attempt + 1 \in Nat /\ issued + 1 \in Nat
    BY <1>1 DEF TaskState
  <2> DEFINE a == s.attempt + 1
             i == issued + 1
  <2>3. a \in Nat /\ i \in Nat
    BY <2>2
  <2> HIDE DEF s, expires, a, i
  <2>4. [s EXCEPT !.status = "leased", !.attempt = a, !.lease_id = i,
                  !.lease_expires_at = expires, !.heartbeat_sequence = 0,
                  !.runner_principal_id = r.principal_id] \in TaskState
    BY <1>1, <2>1, <2>3 DEF TaskState
  <2>5. new.task = s.task
    BY <1>1 DEF TaskState
  <2> QED
    BY <2>4, <2>5 DEF a, i
<1>3. tasks' = [tasks EXCEPT ![x] = new]
  BY DEF ClaimUnbuilt
<1>4. TasksTyped'
  <2> HIDE DEF new
  <2> QED BY <1>2, <1>3, TaskUpdate
<1>5. issued' \in Nat
  BY <1>1 DEF ClaimUnbuilt
<1> QED
  BY <1>4, <1>5 DEF ClaimUnbuilt, TypeOK

(* A heartbeat keeps the types. *)
LEMMA TypeHeartbeat ==
    ASSUME TypeOK, NEW r \in registrations, NEW k \in Key, NEW x \in DOMAIN tasks,
           Heartbeat(r, k, x)
    PROVE  TypeOK'
<1> DEFINE sequence == tasks[x].heartbeat_sequence + 1
           new == [tasks[x] EXCEPT !.heartbeat_sequence = sequence]
<1>1. tasks' = [tasks EXCEPT ![x] = new]
  BY DEF Heartbeat
<1>2. new \in TaskState /\ new.task = tasks[x].task
  BY TaskFacts DEF TaskState
<1>3. TasksTyped'
  <2> HIDE DEF new
  <2> QED BY <1>1, <1>2, TaskUpdate
<1>4. idempotency' \subseteq Entry
  <2>1. /\ k \in Nat /\ r \in Registration
        /\ <<"heartbeat", tasks[x].lease_id, sequence>> \in Request
    BY TaskFacts, ConstantsAssumption DEF Key, TypeOK, Request, TaskState
  <2>2. Remember(r, k, <<"heartbeat", tasks[x].lease_id, sequence>>, None)
    BY DEF Heartbeat
  <2> QED BY <2>1, <2>2, RememberType
<1> QED
  BY <1>3, <1>4 DEF Heartbeat, TypeOK

(* The bytes an upload may still bring are a natural number. *)
LEMMA RemainingType ==
    ASSUME TypeOK, NEW x \in DOMAIN tasks
    PROVE  Remaining(tasks[x]) \in Nat
<1>1. tasks[x].artifact_digests \in SUBSET Digest
  BY TaskFacts DEF TaskState
<1>2. Bytes(tasks[x].artifact_digests) \in Nat
  BY <1>1, BytesType
<1>3. tasks[x].task.maximum_output_bytes \in Nat
  BY TaskFacts
<1> QED
  BY <1>2, <1>3 DEF Remaining

(* An upload that reads its budget keeps the types. *)
LEMMA TypeUploadStart ==
    ASSUME TypeOK, NEW c \in Conn, NEW r \in registrations, NEW k \in Key,
           NEW x \in DOMAIN tasks, NEW d \in Digest, UploadStart(c, r, k, x, d)
    PROVE  TypeOK'
<1> DEFINE u == [runner |-> r, lease_id |-> tasks[x].lease_id, digest |-> d,
                 key |-> k, maximum |-> Remaining(tasks[x])]
<1>1. tasks[x].lease_id \in Nat
  BY TaskFacts DEF TaskState
<1>2. r \in Registration /\ k \in Nat
  BY ConstantsAssumption DEF TypeOK, Key
<1>3. u \in Upload
  BY <1>1, <1>2, RemainingType DEF Upload
<1>4. uploads' = [uploads EXCEPT ![c] = u]
  BY DEF UploadStart
<1> QED
  BY <1>3, <1>4 DEF UploadStart, TypeOK, TasksTyped

(* What TypeOK says of an upload in progress. *)
LEMMA UploadFacts ==
    ASSUME TypeOK, NEW c \in Conn, uploads[c] # None
    PROVE  /\ uploads[c].runner \in Registration
           /\ uploads[c].runner.tenant_id \in Tenant
           /\ uploads[c].lease_id \in Nat
           /\ uploads[c].digest \in Digest
           /\ uploads[c].key \in Nat
           /\ <<uploads[c].runner.tenant_id, uploads[c].digest>> \in Tenant \X Digest
<1>1. uploads[c] \in Upload
  BY DEF TypeOK
<1>2. /\ uploads[c].runner \in Registration
      /\ uploads[c].lease_id \in Nat
      /\ uploads[c].digest \in Digest
      /\ uploads[c].key \in Nat
  BY <1>1 DEF Upload
<1> QED
  BY <1>2, RecordsAssumption

(* A recorded artifact keeps the types. *)
LEMMA TypeUploadRecorded ==
    ASSUME TypeOK, NEW c \in Conn, UploadRecorded(c)
    PROVE  TypeOK'
<1> DEFINE u == uploads[c]
<1>1. PICK x \in DOMAIN tasks :
         tasks' = [tasks EXCEPT ![x].artifact_digests = @ \cup {u.digest}]
  BY DEF UploadRecorded
<1> DEFINE new == [tasks[x] EXCEPT !.artifact_digests = @ \cup {u.digest}]
<1>2. u # None
  BY DEF UploadRecorded, Received
<1>3. new \in TaskState /\ new.task = tasks[x].task
  <2>1. u.digest \in Digest /\ tasks[x] \in TaskState
    BY <1>2, UploadFacts, TaskFacts
  <2> HIDE DEF u
  <2> QED
    BY <2>1 DEF TaskState
<1>4. TasksTyped'
  <2>1. tasks' = [tasks EXCEPT ![x] = new]
    BY <1>1
  <2> HIDE DEF new
  <2> QED BY <1>3, <2>1, TaskUpdate
<1>5. idempotency' \subseteq Entry
  <2>1. Remember(u.runner, u.key, <<"upload", u.lease_id, u.digest>>, None)
    BY DEF UploadRecorded
  <2>2. /\ u.runner \in Registration /\ u.key \in Nat
        /\ u.lease_id \in Nat /\ u.digest \in Digest
    BY <1>2, UploadFacts
  <2>3. <<"upload", u.lease_id, u.digest>> \in Request
    BY <2>2 DEF Request
  <2> QED BY <2>1, <2>2, <2>3, RememberType
<1>6. store' \subseteq Tenant \X Digest
  <2>1. <<u.runner.tenant_id, u.digest>> \in Tenant \X Digest
    BY <1>2, UploadFacts
  <2> QED BY <2>1 DEF UploadRecorded, TypeOK
<1> QED
  BY <1>4, <1>5, <1>6 DEF UploadRecorded, TypeOK

(* An upload that ends unrecorded keeps the types. *)
LEMMA TypeUploadUnrecorded ==
    ASSUME TypeOK, NEW c \in Conn,
           UploadRefused(c) \/ UploadStoreError(c) \/ UploadEnded(c)
    PROVE  TypeOK'
<1>1. uploads[c] # None
  BY DEF UploadRefused, UploadStoreError, UploadEnded, Received
<1>2. <<uploads[c].runner.tenant_id, uploads[c].digest>> \in Tenant \X Digest
  BY <1>1, UploadFacts
<1>3. CASE UploadRefused(c)
  BY <1>2, <1>3 DEF UploadRefused, TypeOK, TasksTyped
<1>4. CASE UploadStoreError(c)
  BY <1>2, <1>4 DEF UploadStoreError, TypeOK, TasksTyped
<1>5. CASE UploadEnded(c)
  BY <1>5 DEF UploadEnded, TypeOK, TasksTyped
<1> QED
  BY <1>3, <1>4, <1>5

(* A receipt that passes validation is a receipt for a signed job. *)
LEMMA CompletableFacts ==
    ASSUME TypeOK, NEW r \in registrations, NEW k \in Key, NEW x \in DOMAIN tasks,
           NEW receipt \in Receipts, Completable(r, k, x, receipt)
    PROVE  /\ receipt \in Receipt
           /\ receipt.job = tasks[x].job
           /\ receipt.body.projected \subseteq Digest
           /\ r \in Registration /\ r.tenant_id \in Tenant /\ k \in Nat
<1>1. receipt \in [job: {e.result : e \in Grants}, started_at: 0..MaxTime,
                   completed_at: 0..MaxTime, body: ReceiptBody]
  BY DEF Receipts
<1>2. receipt.job \in Job /\ receipt.job = tasks[x].job
  <2>1. receipt.job = tasks[x].job /\ tasks[x].job # None
    BY DEF Completable, ValidReceipt
  <2>2. tasks[x].job \in Job \cup {None}
    BY TaskFacts DEF TaskState
  <2> QED
    BY <2>1, <2>2
<1>3. receipt \in Receipt
  BY <1>1, <1>2, ConstantsAssumption DEF Receipt
<1>4. r \in Registration /\ r.tenant_id \in Tenant /\ k \in Nat
  BY ConstantsAssumption, RecordsAssumption DEF TypeOK, Key
<1>5. receipt.body \in ReceiptBody
  BY <1>1
<1> QED
  BY <1>2, <1>3, <1>4, <1>5, RecordsAssumption

(* What complete stores are statements. *)
LEMMA StatementTypes ==
    ASSUME NEW t \in Tenant, NEW receipt \in Receipt, NEW S \in SUBSET Digest
    PROVE  /\ ReceiptStatement(t, receipt) \in Statement
           /\ ProjectionStatements(t, receipt, S) \subseteq Statement
BY DEF ReceiptStatement, ProjectionStatements, Statement

(* A completion keeps the types. *)
LEMMA TypeComplete ==
    ASSUME TypeOK, NEW r \in registrations, NEW k \in Key, NEW x \in DOMAIN tasks,
           NEW receipt \in Receipts, Complete(r, k, x, receipt)
    PROVE  TypeOK'
<1> DEFINE new == [tasks[x] EXCEPT !.status = "completed", !.receipt = receipt]
<1>1. /\ receipt \in Receipt /\ receipt.body.projected \subseteq Digest
      /\ r \in Registration /\ r.tenant_id \in Tenant /\ k \in Nat
  BY CompletableFacts DEF Complete
<1>2. new \in TaskState /\ new.task = tasks[x].task
  <2>1. tasks[x] \in TaskState
    BY TaskFacts
  <2> QED
    BY <1>1, <2>1 DEF TaskState
<1>3. TasksTyped'
  <2>1. tasks' = [tasks EXCEPT ![x] = new]
    BY DEF Complete
  <2> HIDE DEF new
  <2> QED BY <1>2, <2>1, TaskUpdate
<1>4. idempotency' \subseteq Entry
  <2>1. Remember(r, k, <<"complete", tasks[x].lease_id, receipt>>, None)
    BY DEF Complete
  <2>2. tasks[x].lease_id \in Nat
    BY TaskFacts DEF TaskState
  <2>3. <<"complete", tasks[x].lease_id, receipt>> \in Request
    BY <1>1, <2>2 DEF Request
  <2> QED BY <1>1, <2>1, <2>3, RememberType
<1>5. statements' \subseteq Statement
  <2>1. /\ ReceiptStatement(r.tenant_id, receipt) \in Statement
        /\ ProjectionStatements(r.tenant_id, receipt, receipt.body.projected)
              \subseteq Statement
    BY <1>1, StatementTypes
  <2> QED
    BY <2>1 DEF Complete, TypeOK
<1>6. completed_attempts' \subseteq JobId \X Nat
  <2>1. x[2] \in JobId /\ tasks[x].attempt \in Nat
    BY TaskFacts DEF TaskState
  <2> QED
    BY <2>1 DEF Complete, TypeOK
<1> QED
  BY <1>3, <1>4, <1>5, <1>6 DEF Complete, TypeOK

(* A completion whose puts fail part way keeps the types. *)
LEMMA TypeCompleteStoreError ==
    ASSUME TypeOK, NEW r \in registrations, NEW k \in Key, NEW x \in DOMAIN tasks,
           NEW receipt \in Receipts, CompleteStoreError(r, k, x, receipt)
    PROVE  TypeOK'
<1>1. receipt \in Receipt /\ receipt.body.projected \subseteq Digest /\ r.tenant_id \in Tenant
  BY CompletableFacts DEF CompleteStoreError
<1>2. PICK stored \in SUBSET receipt.body.projected :
         statements' = statements
             \cup {ReceiptStatement(r.tenant_id, receipt)}
             \cup ProjectionStatements(r.tenant_id, receipt, stored)
  BY DEF CompleteStoreError
<1>3. /\ ReceiptStatement(r.tenant_id, receipt) \in Statement
      /\ ProjectionStatements(r.tenant_id, receipt, stored) \subseteq Statement
  BY <1>1, StatementTypes
<1>4. statements' \subseteq Statement
  BY <1>2, <1>3 DEF TypeOK
<1> QED
  BY <1>4 DEF CompleteStoreError, TypeOK, TasksTyped

(* A dispatch keeps the types. *)
LEMMA TypeDispatch ==
    ASSUME TypeOK, NEW task \in Task, Dispatch(task)
    PROVE  TypeOK'
<1> DEFINE key == <<task.tenant_id, task.job_id>>
<1>1. key \in TaskKey
  BY RecordsAssumption DEF TaskKey
<1>2. NewTask(task) \in TaskState /\ NewTask(task).task = task
  BY DEF NewTask, TaskState, NoLease
<1>3. tasks' = [y \in DOMAIN tasks \cup {key} |->
                   IF y = key THEN NewTask(task) ELSE tasks[y]]
  BY DEF Dispatch
<1>4. TasksTyped'
  BY <1>1, <1>2, <1>3 DEF TypeOK, TasksTyped
<1> QED
  BY <1>4 DEF Dispatch, TypeOK

(* Every step of the gateway keeps the types. *)
LEMMA TypeStep == TypeOK /\ [Next]_vars => TypeOK'
<1> SUFFICES ASSUME TypeOK, [Next]_vars PROVE TypeOK'
  OBVIOUS
<1>1. CASE Tick
  BY <1>1 DEF Tick, TypeOK, TasksTyped
<1>2. ASSUME NEW r \in Registration, Register(r) PROVE TypeOK'
  BY <1>2 DEF Register, TypeOK, TasksTyped
<1>3. ASSUME NEW task \in Task, Dispatch(task) PROVE TypeOK'
  BY <1>3, TypeDispatch
<1>4. CASE Claim
  BY <1>4, TypeClaim, TypeClaimUnbuilt DEF Claim
<1>5. CASE ClaimFails
  BY <1>5, TypeClaimRolledBack DEF ClaimFails
<1>6. CASE HeartbeatStep
  BY <1>6, TypeHeartbeat DEF HeartbeatStep
<1>7. CASE UploadStep
  BY <1>7, TypeUploadStart, TypeUploadRecorded, TypeUploadUnrecorded DEF UploadStep
<1>8. CASE CompleteStep
  BY <1>8, TypeComplete, TypeCompleteStoreError DEF CompleteStep
<1>9. CASE UNCHANGED vars
  BY <1>9 DEF vars, TypeOK, TasksTyped
<1> QED
  BY <1>1, <1>2, <1>3, <1>4, <1>5, <1>6, <1>7, <1>8, <1>9 DEF Next

(* Every reachable state of the gateway is well typed. *)
THEOREM TypeCorrect == Spec => []TypeOK
BY TypeInit, TypeStep, PTL DEF Spec

(***************************************************************************)
(* Leases.                                                                 *)
(***************************************************************************)
(* The claims that were answered, after a step that caches something else. *)
LEMMA OtherEntry ==
    ASSUME NEW r, NEW k, NEW request, NEW result, Remember(r, k, request, result),
           request[1] # "claim"
    PROVE  Grants' = Grants
BY DEF Grants, Remember

(* Only the lease fields of the tasks matter to the invariant. *)
LEMMA LeaseFieldsKept ==
    ASSUME TypeOK, LeaseInvariant, Grants' = Grants, now' = now,
           DOMAIN tasks' = DOMAIN tasks,
           \A y \in DOMAIN tasks :
              /\ tasks'[y].status = tasks[y].status
              /\ tasks'[y].attempt = tasks[y].attempt
              /\ tasks'[y].lease_id = tasks[y].lease_id
              /\ tasks'[y].lease_expires_at = tasks[y].lease_expires_at
              /\ tasks'[y].runner_principal_id = tasks[y].runner_principal_id
              /\ tasks'[y].job = tasks[y].job
              /\ tasks'[y].task = tasks[y].task
              /\ tasks'[y].receipt = tasks[y].receipt
    PROVE  LeaseInvariant'
<1>1. GrantsBounded'
  BY DEF LeaseInvariant, GrantsBounded
<1>2. LeaseMatchesSignedJob'
  BY DEF LeaseInvariant, LeaseMatchesSignedJob
<1>3. LeasesNeverOverlap'
  BY DEF LeaseInvariant, LeasesNeverOverlap, SameTask
<1>4. ReceiptIsCurrent'
  BY DEF LeaseInvariant, ReceiptIsCurrent
<1> QED
  BY <1>1, <1>2, <1>3, <1>4 DEF LeaseInvariant

(* When claim selects a task, every earlier lease of it is over. *)
LEMMA CandidateIsFree ==
    ASSUME TypeOK, LeaseInvariant, NEW t, NEW x \in Candidates(t), NEW e \in Grants,
           e.tenant_id = x[1], e.result.job_id = x[2]
    PROVE  /\ e.result.lease_expires_at < now
           /\ e.result.attempt <= tasks[x].attempt
<1>1. x \in DOMAIN tasks
  BY DEF Candidates
<1>2. <<e.tenant_id, e.result.job_id>> = x
  BY <1>1, TaskFacts
<1>3. e.result \in Job
  BY DEF LeaseInvariant, GrantsBounded
<1>4. now \in Nat /\ tasks[x].lease_expires_at \in Nat \cup {NoExpiry}
  BY <1>1, TaskFacts DEF TypeOK, TaskState
<1>5. e.result.lease_expires_at \in Nat
  BY <1>3 DEF Job
<1> QED
  BY <1>2, <1>4, <1>5 DEF LeaseInvariant, GrantsBounded, Candidates, NoExpiry

(* A granted claim keeps the invariant: it is where the bounds are used. *)
LEMMA LeaseClaim ==
    ASSUME TypeOK, LeaseInvariant, NEW r \in registrations, NEW k \in Key,
           NEW x \in DOMAIN tasks, ClaimGranted(r, k, x)
    PROVE  LeaseInvariant'
<1> DEFINE s == tasks[x]
           job == [job_id |-> x[2], attempt |-> s.attempt + 1, lease_id |-> issued + 1,
                   created_at |-> now, lease_expires_at |-> now + s.task.lease_seconds]
           g == [tenant_id |-> r.tenant_id, principal_id |-> r.principal_id, key |-> k,
                 request |-> <<"claim">>, result |-> job]
<1>1. Grants' = Grants \cup {g}
  BY DEF ClaimGranted, Remember, Grants
<1>2. x \in Candidates(r.tenant_id) /\ r.tenant_id = x[1]
  BY DEF ClaimGranted, Claimable, Selected, Candidates
<1>3. /\ DOMAIN tasks' = DOMAIN tasks
      /\ \A y \in DOMAIN tasks : y # x => tasks'[y] = tasks[y]
      /\ now' = now
  BY DEF ClaimGranted
<1>4. /\ now \in Nat /\ issued \in Nat /\ s.attempt \in Nat
      /\ s.task.lease_seconds \in 1..300 /\ x[2] \in JobId
      /\ x = <<x[1], x[2]>>
  BY TaskFacts DEF TypeOK, TaskState
<1>5. job \in Job
  <2> HIDE DEF s
  <2> QED BY <1>4, SMTT(30) DEF Job
<1>6. /\ tasks'[x].status = "leased" /\ tasks'[x].attempt = job.attempt
      /\ tasks'[x].lease_id = job.lease_id
      /\ tasks'[x].lease_expires_at = job.lease_expires_at
      /\ tasks'[x].runner_principal_id = r.principal_id /\ tasks'[x].job = job
      /\ tasks'[x].task = s.task /\ s.task.well_formed
  <2>1. s \in TaskState
    BY TaskFacts
  <2>2. tasks'[x] = [s EXCEPT !.status = "leased", !.attempt = job.attempt,
                        !.lease_id = job.lease_id,
                        !.lease_expires_at = job.lease_expires_at,
                        !.heartbeat_sequence = 0,
                        !.runner_principal_id = r.principal_id,
                        !.job = job]
    BY DEF ClaimGranted
  <2>3. s.task.well_formed
    BY DEF ClaimGranted
  <2> HIDE DEF s, job
  <2> QED
    BY <2>1, <2>2, <2>3 DEF TaskState
<1>7. \A e \in Grants : (e.tenant_id = x[1] /\ e.result.job_id = x[2]) =>
         /\ e.result.lease_expires_at < now
         /\ e.result.attempt <= s.attempt
  BY <1>2, CandidateIsFree
<1>8. \A e \in Grants :
         /\ e.result \in Job /\ <<e.tenant_id, e.result.job_id>> \in DOMAIN tasks
         /\ e.result.lease_expires_at \in Nat /\ e.result.attempt \in Nat
         /\ e.result.created_at <= now
  BY DEF LeaseInvariant, GrantsBounded, Job
<1>9. /\ job.job_id = x[2] /\ job.attempt = s.attempt + 1 /\ job.lease_id = issued + 1
      /\ job.created_at = now /\ job.lease_expires_at \in Nat /\ now <= job.lease_expires_at
      /\ g.tenant_id = x[1] /\ g.result = job /\ g.principal_id = r.principal_id
  <2> HIDE DEF s
  <2> QED BY <1>2, <1>4, SMTT(30)
<1> HIDE DEF job, g
<1>10. GrantsBounded'
  <2> SUFFICES ASSUME NEW e \in Grants'
               PROVE  LET y == <<e.tenant_id, e.result.job_id>>
                          n == tasks'[<<e.tenant_id, e.result.job_id>>]
                      IN  /\ e.result \in Job
                          /\ y \in DOMAIN tasks'
                          /\ e.result.attempt <= n.attempt
                          /\ e.result.created_at <= now'
                          /\ n.status = "queued" => e.result.lease_expires_at < now'
                          /\ n.status = "leased" =>
                                e.result.lease_expires_at <= n.lease_expires_at
    BY DEF GrantsBounded
  <2>1. CASE e = g
    BY <2>1, <1>3, <1>4, <1>5, <1>6, <1>9
  <2>2. CASE e \in Grants /\ <<e.tenant_id, e.result.job_id>> = x
    <3>1. e.tenant_id = x[1] /\ e.result.job_id = x[2]
      BY <2>2
    <3>2. e.result.lease_expires_at < now /\ e.result.attempt <= s.attempt
      BY <2>2, <3>1, <1>7
    <3> HIDE DEF s
    <3> QED
      BY <2>2, <3>2, <1>3, <1>4, <1>6, <1>8, <1>9
  <2>3. CASE e \in Grants /\ <<e.tenant_id, e.result.job_id>> # x
    BY <2>3, <1>3, <1>8 DEF LeaseInvariant, GrantsBounded
  <2> QED
    BY <1>1, <2>1, <2>2, <2>3
<1>11. LeaseMatchesSignedJob'
  <2>1. ASSUME NEW y \in DOMAIN tasks', y # x, tasks'[y].status = "leased",
               tasks'[y].task.well_formed
        PROVE  \E e \in Grants' :
              /\ e.tenant_id = y[1]
              /\ e.principal_id = tasks'[y].runner_principal_id
              /\ e.result = tasks'[y].job
              /\ tasks'[y].job.job_id = y[2]
              /\ tasks'[y].job.attempt = tasks'[y].attempt
              /\ tasks'[y].job.lease_id = tasks'[y].lease_id
              /\ tasks'[y].job.lease_expires_at = tasks'[y].lease_expires_at
    BY <2>1, <1>1, <1>3 DEF LeaseInvariant, LeaseMatchesSignedJob
  <2>2. ASSUME NEW y \in DOMAIN tasks', ~ tasks'[y].task.well_formed PROVE tasks'[y].job = None
    BY <2>2, <1>3, <1>6 DEF LeaseInvariant, LeaseMatchesSignedJob
  <2> QED
    BY <2>1, <2>2, <1>1, <1>6, <1>9 DEF LeaseMatchesSignedJob
<1>12. LeasesNeverOverlap'
  <2> SUFFICES ASSUME NEW e \in Grants', NEW f \in Grants', SameTask(e, f), e # f
               PROVE  \/ /\ e.result.attempt < f.result.attempt
                         /\ e.result.lease_expires_at < f.result.created_at
                      \/ /\ f.result.attempt < e.result.attempt
                         /\ f.result.lease_expires_at < e.result.created_at
    BY DEF LeasesNeverOverlap, SameTask
  <2> HIDE DEF s
  <2>1. CASE e \in Grants /\ f \in Grants
    BY <2>1 DEF LeaseInvariant, LeasesNeverOverlap
  <2>2. CASE e \in Grants /\ f = g
    BY <2>2, <1>4, <1>7, <1>8, <1>9 DEF SameTask
  <2>3. CASE e = g /\ f \in Grants
    BY <2>3, <1>4, <1>7, <1>8, <1>9 DEF SameTask
  <2> QED
    BY <1>1, <2>1, <2>2, <2>3
<1>13. ReceiptIsCurrent'
  BY <1>1, <1>3, <1>6 DEF LeaseInvariant, ReceiptIsCurrent
<1> QED
  BY <1>10, <1>11, <1>12, <1>13 DEF LeaseInvariant

(* A rolled back claim keeps the invariant: the task goes back to the queue   *)
(* only after its last lease is over.                                         *)
LEMMA LeaseClaimRolledBack ==
    ASSUME TypeOK, LeaseInvariant, NEW r \in registrations, NEW k \in Key,
           NEW x \in DOMAIN tasks, ClaimRolledBack(r, k, x)
    PROVE  LeaseInvariant'
<1>1. Grants' = Grants /\ now' = now
  BY DEF ClaimRolledBack, Grants
<1>2. x \in Candidates(r.tenant_id)
  BY DEF ClaimRolledBack, Claimable, Selected
<1>3. /\ DOMAIN tasks' = DOMAIN tasks
      /\ \A y \in DOMAIN tasks : y # x => tasks'[y] = tasks[y]
  BY DEF ClaimRolledBack
<1>4. /\ tasks'[x].status = "queued" /\ tasks'[x].attempt = tasks[x].attempt
      /\ tasks'[x].task = tasks[x].task /\ tasks'[x].job = tasks[x].job
  <2>1. tasks[x] \in TaskState
    BY TaskFacts
  <2>2. tasks'[x] = [tasks[x] EXCEPT !.status = "queued", !.lease_id = NoLease,
                    !.lease_expires_at = NoExpiry, !.heartbeat_sequence = 0,
                    !.runner_principal_id = None]
    BY DEF ClaimRolledBack
  <2> QED
    BY <2>1, <2>2 DEF TaskState
<1>5. GrantsBounded'
  <2> SUFFICES ASSUME NEW e \in Grants
               PROVE  LET y == <<e.tenant_id, e.result.job_id>>
                          n == tasks'[<<e.tenant_id, e.result.job_id>>]
                      IN  /\ e.result \in Job
                          /\ y \in DOMAIN tasks'
                          /\ e.result.attempt <= n.attempt
                          /\ e.result.created_at <= now'
                          /\ n.status = "queued" => e.result.lease_expires_at < now'
                          /\ n.status = "leased" =>
                                e.result.lease_expires_at <= n.lease_expires_at
    BY <1>1 DEF GrantsBounded
  <2>1. CASE <<e.tenant_id, e.result.job_id>> = x
    <3>1. e.result.lease_expires_at < now
      BY <2>1, <1>2, CandidateIsFree
    <3> QED
      BY <2>1, <3>1, <1>1, <1>3, <1>4 DEF LeaseInvariant, GrantsBounded
  <2>2. CASE <<e.tenant_id, e.result.job_id>> # x
    BY <2>2, <1>1, <1>3 DEF LeaseInvariant, GrantsBounded
  <2> QED
    BY <2>1, <2>2
<1>6. LeaseMatchesSignedJob'
  BY <1>1, <1>3, <1>4 DEF LeaseInvariant, LeaseMatchesSignedJob
<1>7. LeasesNeverOverlap'
  BY <1>1 DEF LeaseInvariant, LeasesNeverOverlap, SameTask
<1>8. ReceiptIsCurrent'
  BY <1>1, <1>3, <1>4 DEF LeaseInvariant, ReceiptIsCurrent
<1> QED
  BY <1>5, <1>6, <1>7, <1>8 DEF LeaseInvariant

(* A claim whose job cannot be built keeps the invariant: no lease is told.   *)
LEMMA LeaseClaimUnbuilt ==
    ASSUME TypeOK, LeaseInvariant, NEW r \in registrations, NEW k \in Key,
           NEW x \in DOMAIN tasks, ClaimUnbuilt(r, k, x)
    PROVE  LeaseInvariant'
<1> DEFINE s == tasks[x]
           expires == now + s.task.lease_seconds
<1>1. Grants' = Grants /\ now' = now
  BY DEF ClaimUnbuilt, Grants
<1>2. x \in Candidates(r.tenant_id)
  BY DEF ClaimUnbuilt, Claimable, Selected
<1>3. /\ DOMAIN tasks' = DOMAIN tasks
      /\ \A y \in DOMAIN tasks : y # x => tasks'[y] = tasks[y]
  BY DEF ClaimUnbuilt
<1>4. s \in TaskState /\ ~ s.task.well_formed
  BY TaskFacts DEF ClaimUnbuilt
<1>5. /\ tasks'[x].status = "leased" /\ tasks'[x].attempt = s.attempt + 1
      /\ tasks'[x].lease_expires_at = expires
      /\ tasks'[x].task = s.task /\ tasks'[x].job = s.job
  <2>1. tasks'[x] = [s EXCEPT !.status = "leased", !.attempt = s.attempt + 1,
                        !.lease_id = issued + 1, !.lease_expires_at = expires,
                        !.heartbeat_sequence = 0, !.runner_principal_id = r.principal_id]
    BY DEF ClaimUnbuilt
  <2> HIDE DEF s, expires
  <2> QED
    BY <1>4, <2>1 DEF TaskState
<1>6. s.attempt \in Nat /\ now \in Nat /\ expires \in Nat /\ now <= expires
  <2>1. s.attempt \in Nat /\ now \in Nat /\ s.task.lease_seconds \in 1..300
    BY TaskFacts DEF TypeOK, TaskState
  <2> HIDE DEF s
  <2> QED BY <2>1, SMTT(30)
<1> HIDE DEF s, expires
<1>7. GrantsBounded'
  <2> SUFFICES ASSUME NEW e \in Grants
               PROVE  LET y == <<e.tenant_id, e.result.job_id>>
                          n == tasks'[<<e.tenant_id, e.result.job_id>>]
                      IN  /\ e.result \in Job
                          /\ y \in DOMAIN tasks'
                          /\ e.result.attempt <= n.attempt
                          /\ e.result.created_at <= now'
                          /\ n.status = "queued" => e.result.lease_expires_at < now'
                          /\ n.status = "leased" =>
                                e.result.lease_expires_at <= n.lease_expires_at
    BY <1>1 DEF GrantsBounded
  <2>1. CASE <<e.tenant_id, e.result.job_id>> = x
    <3>1. e.result.lease_expires_at < now /\ e.result.attempt <= s.attempt
      BY <2>1, <1>2, CandidateIsFree DEF s
    <3>2. /\ e.result \in Job /\ e.result.created_at <= now
          /\ e.result.attempt \in Nat /\ e.result.lease_expires_at \in Nat
      BY DEF LeaseInvariant, GrantsBounded, Job
    <3> QED
      BY <2>1, <3>1, <3>2, <1>1, <1>3, <1>5, <1>6
  <2>2. CASE <<e.tenant_id, e.result.job_id>> # x
    BY <2>2, <1>1, <1>3 DEF LeaseInvariant, GrantsBounded
  <2> QED
    BY <2>1, <2>2
<1>8. LeaseMatchesSignedJob'
  BY <1>1, <1>3, <1>4, <1>5 DEF LeaseInvariant, LeaseMatchesSignedJob, s
<1>9. LeasesNeverOverlap'
  BY <1>1 DEF LeaseInvariant, LeasesNeverOverlap, SameTask
<1>10. ReceiptIsCurrent'
  BY <1>1, <1>3, <1>5 DEF LeaseInvariant, ReceiptIsCurrent
<1> QED
  BY <1>7, <1>8, <1>9, <1>10 DEF LeaseInvariant

(* A completion keeps the invariant: the receipt names the signed job that    *)
(* LeaseMatchesSignedJob ties to the current lease.                           *)
LEMMA LeaseComplete ==
    ASSUME TypeOK, LeaseInvariant, NEW r \in registrations, NEW k \in Key,
           NEW x \in DOMAIN tasks, NEW receipt \in Receipts, Complete(r, k, x, receipt)
    PROVE  LeaseInvariant'
<1>1. Grants' = Grants /\ now' = now
  <2>1. Remember(r, k, <<"complete", tasks[x].lease_id, receipt>>, None)
    BY DEF Complete
  <2> QED
    BY <2>1, OtherEntry DEF Complete
<1>2. /\ DOMAIN tasks' = DOMAIN tasks
      /\ \A y \in DOMAIN tasks : y # x => tasks'[y] = tasks[y]
  BY DEF Complete
<1>3. /\ tasks'[x].status = "completed" /\ tasks'[x].receipt = receipt
      /\ tasks'[x].attempt = tasks[x].attempt
      /\ tasks'[x].task = tasks[x].task /\ tasks'[x].job = tasks[x].job
  <2>1. tasks[x] \in TaskState
    BY TaskFacts
  <2>2. tasks'[x] = [tasks[x] EXCEPT !.status = "completed", !.receipt = receipt]
    BY DEF Complete
  <2> QED
    BY <2>1, <2>2 DEF TaskState
<1>4. receipt \in Receipt /\ receipt.job = tasks[x].job
  BY CompletableFacts DEF Complete
<1>5. /\ tasks[x].status = "leased"
      /\ receipt.job.created_at <= receipt.started_at
      /\ receipt.completed_at <= receipt.job.lease_expires_at
  <2>1. Completable(r, k, x, receipt)
    BY DEF Complete
  <2>2. receipt.started_at >= tasks[x].job.created_at
    BY <2>1 DEF Completable, ValidReceipt
  <2>3. receipt.started_at \in Nat /\ receipt.job.created_at \in Nat
    BY <1>4 DEF Receipt, Job
  <2> QED
    BY <2>1, <2>2, <2>3, <1>4 DEF Completable, ValidReceipt, Active
<1>6. PICK e \in Grants : /\ e.tenant_id = x[1] /\ e.result = tasks[x].job
                          /\ tasks[x].job.attempt = tasks[x].attempt
  <2>1. tasks[x].task.well_formed
    BY DEF Complete, Completable, LeaseInvariant, LeaseMatchesSignedJob
  <2> QED
    BY <1>5, <2>1 DEF LeaseInvariant, LeaseMatchesSignedJob
<1>7. GrantsBounded'
  BY <1>1, <1>2, <1>3 DEF LeaseInvariant, GrantsBounded
<1>8. LeaseMatchesSignedJob'
  BY <1>1, <1>2, <1>3 DEF LeaseInvariant, LeaseMatchesSignedJob
<1>9. LeasesNeverOverlap'
  BY <1>1 DEF LeaseInvariant, LeasesNeverOverlap, SameTask
<1>10. ReceiptIsCurrent'
  <2> SUFFICES ASSUME NEW y \in DOMAIN tasks', tasks'[y].status = "completed"
               PROVE  /\ tasks'[y].receipt \in Receipt
                      /\ tasks'[y].receipt.job.attempt = tasks'[y].attempt
                      /\ tasks'[y].receipt.job.created_at <= tasks'[y].receipt.started_at
                      /\ tasks'[y].receipt.completed_at
                            <= tasks'[y].receipt.job.lease_expires_at
                      /\ \E f \in Grants' : /\ f.tenant_id = y[1]
                                            /\ f.result = tasks'[y].receipt.job
    BY DEF ReceiptIsCurrent
  <2>1. CASE y = x
    BY <2>1, <1>1, <1>3, <1>4, <1>5, <1>6
  <2>2. CASE y # x
    BY <2>2, <1>1, <1>2 DEF LeaseInvariant, ReceiptIsCurrent
  <2> QED
    BY <2>1, <2>2
<1> QED
  BY <1>7, <1>8, <1>9, <1>10 DEF LeaseInvariant

(* A dispatched task has no lease yet, so a dispatch keeps the invariant. *)
LEMMA LeaseDispatch ==
    ASSUME TypeOK, LeaseInvariant, NEW task \in Task, Dispatch(task)
    PROVE  LeaseInvariant'
<1> DEFINE key == <<task.tenant_id, task.job_id>>
<1>1. Grants' = Grants /\ now' = now /\ key \notin DOMAIN tasks
  BY DEF Dispatch, Grants
<1>2. /\ DOMAIN tasks' = DOMAIN tasks \cup {key}
      /\ \A y \in DOMAIN tasks : tasks'[y] = tasks[y]
      /\ tasks'[key].status = "queued" /\ tasks'[key].job = None
  BY <1>1 DEF Dispatch, NewTask
<1> HIDE DEF key
<1>3. GrantsBounded'
  BY <1>1, <1>2 DEF LeaseInvariant, GrantsBounded
<1>4. LeaseMatchesSignedJob'
  BY <1>1, <1>2 DEF LeaseInvariant, LeaseMatchesSignedJob
<1>5. LeasesNeverOverlap'
  BY <1>1 DEF LeaseInvariant, LeasesNeverOverlap, SameTask
<1>6. ReceiptIsCurrent'
  BY <1>1, <1>2 DEF LeaseInvariant, ReceiptIsCurrent
<1> QED
  BY <1>3, <1>4, <1>5, <1>6 DEF LeaseInvariant

(* Time only helps: the expiries the invariant compares with the clock stay put. *)
LEMMA LeaseTick ==
    ASSUME TypeOK, LeaseInvariant, Tick
    PROVE  LeaseInvariant'
<1>1. Grants' = Grants /\ tasks' = tasks /\ now' = now + 1 /\ now \in Nat
  BY DEF Tick, Grants, TypeOK
<1>2. \A e \in Grants : e.result.lease_expires_at \in Nat /\ e.result.created_at \in Nat
  BY DEF LeaseInvariant, GrantsBounded, Job
<1>3. GrantsBounded'
  <2>1. \A e \in Grants : /\ e.result.created_at <= now => e.result.created_at <= now'
                          /\ e.result.lease_expires_at < now
                                => e.result.lease_expires_at < now'
    BY <1>1, <1>2
  <2> QED
    BY <1>1, <2>1 DEF LeaseInvariant, GrantsBounded
<1>4. LeaseMatchesSignedJob' /\ LeasesNeverOverlap' /\ ReceiptIsCurrent'
  BY <1>1 DEF LeaseInvariant, LeaseMatchesSignedJob, LeasesNeverOverlap, SameTask,
              ReceiptIsCurrent
<1> QED
  BY <1>3, <1>4 DEF LeaseInvariant

(* A heartbeat does not extend the lease, so it keeps the invariant. *)
LEMMA LeaseHeartbeat ==
    ASSUME TypeOK, LeaseInvariant, NEW r \in registrations, NEW k \in Key,
           NEW x \in DOMAIN tasks, Heartbeat(r, k, x)
    PROVE  LeaseInvariant'
<1>1. Grants' = Grants /\ now' = now
  <2>1. Remember(r, k, <<"heartbeat", tasks[x].lease_id, tasks[x].heartbeat_sequence + 1>>,
                 None)
    BY DEF Heartbeat
  <2> QED
    BY <2>1, OtherEntry DEF Heartbeat
<1>2. tasks[x] \in TaskState
  BY TaskFacts
<1> QED
  BY <1>1, <1>2, LeaseFieldsKept DEF Heartbeat, TaskState

(* Recording an artifact touches no lease field. *)
LEMMA LeaseUploadRecorded ==
    ASSUME TypeOK, LeaseInvariant, NEW c \in Conn, UploadRecorded(c)
    PROVE  LeaseInvariant'
<1> DEFINE u == uploads[c]
<1>1. Grants' = Grants /\ now' = now
  <2>1. Remember(u.runner, u.key, <<"upload", u.lease_id, u.digest>>, None)
    BY DEF UploadRecorded
  <2> QED
    BY <2>1, OtherEntry DEF UploadRecorded
<1>2. PICK x \in DOMAIN tasks :
         tasks' = [tasks EXCEPT ![x].artifact_digests = @ \cup {u.digest}]
  BY DEF UploadRecorded
<1>3. tasks[x] \in TaskState
  BY TaskFacts
<1> QED
  BY <1>1, <1>2, <1>3, LeaseFieldsKept DEF TaskState

(* Every step of the gateway keeps the lease invariant. *)
LEMMA LeaseStep == TypeOK /\ LeaseInvariant /\ [Next]_vars => LeaseInvariant'
<1> SUFFICES ASSUME TypeOK, LeaseInvariant, [Next]_vars PROVE LeaseInvariant'
  OBVIOUS
<1>1. ASSUME idempotency' = idempotency, now' = now, tasks' = tasks
      PROVE  LeaseInvariant'
  BY <1>1, LeaseFieldsKept DEF Grants
<1>2. CASE Tick
  BY <1>2, LeaseTick
<1>3. ASSUME NEW r \in Registration, Register(r) PROVE LeaseInvariant'
  BY <1>1, <1>3 DEF Register
<1>4. ASSUME NEW task \in Task, Dispatch(task) PROVE LeaseInvariant'
  BY <1>4, LeaseDispatch
<1>5. CASE Claim
  BY <1>5, LeaseClaim, LeaseClaimUnbuilt DEF Claim
<1>6. CASE ClaimFails
  BY <1>6, LeaseClaimRolledBack DEF ClaimFails
<1>7. CASE HeartbeatStep
  BY <1>7, LeaseHeartbeat DEF HeartbeatStep
<1>8. CASE UploadStep
  <2>1. ASSUME NEW c \in Conn, NEW r, NEW k, NEW x, NEW d, UploadStart(c, r, k, x, d)
        PROVE  LeaseInvariant'
    BY <1>1, <2>1 DEF UploadStart
  <2>2. ASSUME NEW c \in Conn, UploadRefused(c) \/ UploadStoreError(c) \/ UploadEnded(c)
        PROVE  LeaseInvariant'
    BY <1>1, <2>2 DEF UploadRefused, UploadStoreError, UploadEnded
  <2> QED
    BY <1>8, <2>1, <2>2, LeaseUploadRecorded DEF UploadStep
<1>9. CASE CompleteStep
  <2>1. ASSUME NEW r, NEW k, NEW x, NEW receipt, CompleteStoreError(r, k, x, receipt)
        PROVE  LeaseInvariant'
    BY <1>1, <2>1 DEF CompleteStoreError
  <2> QED
    BY <1>9, <2>1, LeaseComplete DEF CompleteStep
<1>10. CASE UNCHANGED vars
  BY <1>1, <1>10 DEF vars
<1> QED
  BY <1>2, <1>3, <1>4, <1>5, <1>6, <1>7, <1>8, <1>9, <1>10 DEF Next

(* No lease has been handed out initially. *)
LEMMA LeaseInit == Init => LeaseInvariant
BY DEF Init, LeaseInvariant, GrantsBounded, LeaseMatchesSignedJob, LeasesNeverOverlap,
       ReceiptIsCurrent, Grants

(* The lease invariant holds in every reachable state. *)
THEOREM LeaseInvariantHolds == Spec => [](TypeOK /\ LeaseInvariant)
<1>1. Init => TypeOK /\ LeaseInvariant
  BY TypeInit, LeaseInit
<1>2. TypeOK /\ LeaseInvariant /\ [Next]_vars => (TypeOK /\ LeaseInvariant)'
  BY TypeStep, LeaseStep
<1> QED
  BY <1>1, <1>2, PTL DEF Spec

(* No two leases of a task overlap, and the lease under way is the one its    *)
(* signed job and its claim state, for any number of runners, tasks, attempts *)
(* and claims rolled back or left without a job.                              *)
THEOREM LeasesAreSound == Spec => []LeasesSound
<1>1. LeaseInvariant => LeasesSound
  BY DEF LeaseInvariant, LeasesSound
<1> QED
  BY <1>1, LeaseInvariantHolds, PTL

(* A completed task was executed inside the lease of its last attempt. *)
THEOREM EvidenceIsCurrent == Spec => []EvidenceWithinLastLease
<1>1. TypeOK /\ LeaseInvariant => EvidenceWithinLastLease
  <2> SUFFICES ASSUME TypeOK, LeaseInvariant, NEW x \in DOMAIN tasks,
                      tasks[x].status = "completed"
               PROVE  LET job == tasks[x].receipt.job
                      IN  /\ job.created_at <= tasks[x].receipt.started_at
                          /\ tasks[x].receipt.completed_at <= job.lease_expires_at
                          /\ \E e \in Grants : e.tenant_id = x[1] /\ e.result = job
                          /\ \A e \in Grants :
                                (e.tenant_id = x[1] /\ e.result.job_id = x[2])
                                   => e.result.attempt <= job.attempt
    BY DEF EvidenceWithinLastLease
  <2>1. ASSUME NEW e \in Grants, e.tenant_id = x[1], e.result.job_id = x[2]
        PROVE  e.result.attempt <= tasks[x].attempt
    <3>1. <<e.tenant_id, e.result.job_id>> = x
      BY <2>1, TaskFacts
    <3> QED
      BY <3>1 DEF LeaseInvariant, GrantsBounded
  <2> QED
    BY <2>1 DEF LeaseInvariant, ReceiptIsCurrent
<1> QED
  BY <1>1, LeaseInvariantHolds, PTL

(***************************************************************************)
(* Idempotency and artifact budgets.                                       *)
(***************************************************************************)
(* Caching the result under an uncached key keeps keys unique. *)
LEMMA RememberUnique ==
    ASSUME OneEffectPerKey, NEW r, NEW k, NEW request, NEW result,
           Uncached(r, k), Remember(r, k, request, result)
    PROVE  OneEffectPerKey'
<1> DEFINE n == [tenant_id |-> r.tenant_id, principal_id |-> r.principal_id, key |-> k,
                 request |-> request, result |-> result]
<1>1. /\ idempotency' = idempotency \cup {n}
      /\ n.tenant_id = r.tenant_id /\ n.principal_id = r.principal_id /\ n.key = k
  BY DEF Remember
<1>2. \A e \in idempotency :
         ~ (e.tenant_id = r.tenant_id /\ e.principal_id = r.principal_id /\ e.key = k)
  BY DEF Uncached, Entries
<1> HIDE DEF n
<1> QED
  BY <1>1, <1>2 DEF OneEffectPerKey

(* Every step leaves each idempotency key with at most one effect. *)
LEMMA KeyStep == OneEffectPerKey /\ [Next]_vars => OneEffectPerKey'
<1> SUFFICES ASSUME OneEffectPerKey, [Next]_vars PROVE OneEffectPerKey'
  OBVIOUS
<1>1. CASE idempotency' = idempotency
  BY <1>1 DEF OneEffectPerKey
<1>2. ASSUME NEW r, NEW k, NEW x, ClaimGranted(r, k, x) PROVE OneEffectPerKey'
  BY <1>2, RememberUnique DEF ClaimGranted, Claimable
<1>3. ASSUME NEW r, NEW k, NEW x, Heartbeat(r, k, x) PROVE OneEffectPerKey'
  BY <1>3, RememberUnique DEF Heartbeat
<1>4. ASSUME NEW c, UploadRecorded(c) PROVE OneEffectPerKey'
  BY <1>4, RememberUnique DEF UploadRecorded, Received
<1>5. ASSUME NEW r, NEW k, NEW x, NEW receipt, Complete(r, k, x, receipt)
      PROVE  OneEffectPerKey'
  BY <1>5, RememberUnique DEF Complete, Completable
<1>6. CASE \/ Tick \/ UNCHANGED vars \/ ClaimFails
           \/ (\E r \in Registration : Register(r)) \/ (\E task \in Task : Dispatch(task))
           \/ (\E r, k, x : ClaimUnbuilt(r, k, x))
  BY <1>1, <1>6 DEF Tick, vars, ClaimFails, ClaimRolledBack, Register, Dispatch, ClaimUnbuilt
<1>7. CASE UploadStep
  BY <1>1, <1>4, <1>7 DEF UploadStep, UploadStart, UploadRefused, UploadStoreError, UploadEnded
<1>8. CASE CompleteStep
  BY <1>1, <1>5, <1>8 DEF CompleteStep, CompleteStoreError
<1> QED
  BY <1>2, <1>3, <1>6, <1>7, <1>8 DEF Next, Claim, HeartbeatStep

(* A request takes effect at most once per idempotency key. *)
THEOREM EffectOncePerKey == Spec => []OneEffectPerKey
<1>1. Init => OneEffectPerKey
  BY DEF Init, OneEffectPerKey
<1> QED
  BY <1>1, KeyStep, PTL DEF Spec

(* Every step keeps the artifact budget: record_artifact counts again. *)
LEMMA BudgetStep == TypeOK /\ ArtifactBudget /\ [Next]_vars => ArtifactBudget'
<1> SUFFICES ASSUME TypeOK, ArtifactBudget, [Next]_vars PROVE ArtifactBudget'
  OBVIOUS
<1>1. ASSUME DOMAIN tasks' = DOMAIN tasks,
             \A y \in DOMAIN tasks : /\ tasks'[y].artifact_digests = tasks[y].artifact_digests
                                     /\ tasks'[y].task = tasks[y].task
      PROVE  ArtifactBudget'
  BY <1>1 DEF ArtifactBudget
<1>2. CASE tasks' = tasks
  BY <1>1, <1>2
<1>3. ASSUME NEW x \in DOMAIN tasks PROVE tasks[x] \in TaskState
  BY TaskFacts
<1>4. ASSUME NEW task \in Task, Dispatch(task) PROVE ArtifactBudget'
  <2>1. task.maximum_output_bytes \in Nat
    BY RecordsAssumption
  <2>2. 0 <= task.maximum_output_bytes
    BY <2>1
  <2> QED
    BY <1>4, <2>2, BytesEmpty DEF ArtifactBudget, Dispatch, NewTask
<1>5. ASSUME NEW r, NEW k, NEW x \in DOMAIN tasks, ClaimGranted(r, k, x)
      PROVE  ArtifactBudget'
  BY <1>1, <1>3, <1>5 DEF ClaimGranted, TaskState
<1>13. ASSUME NEW r, NEW k, NEW x \in DOMAIN tasks, ClaimUnbuilt(r, k, x)
       PROVE  ArtifactBudget'
  BY <1>1, <1>3, <1>13 DEF ClaimUnbuilt, TaskState
<1>6. ASSUME NEW r, NEW k, NEW x \in DOMAIN tasks, ClaimRolledBack(r, k, x)
      PROVE  ArtifactBudget'
  BY <1>1, <1>3, <1>6 DEF ClaimRolledBack, TaskState
<1>7. ASSUME NEW r, NEW k, NEW x \in DOMAIN tasks, Heartbeat(r, k, x)
      PROVE  ArtifactBudget'
  BY <1>1, <1>3, <1>7 DEF Heartbeat, TaskState
<1>8. ASSUME NEW c, UploadRecorded(c) PROVE ArtifactBudget'
  <2> DEFINE u == uploads[c]
  <2>1. PICK x \in DOMAIN tasks :
           /\ Recordable(u, x)
           /\ tasks' = [tasks EXCEPT ![x].artifact_digests = @ \cup {u.digest}]
    BY <1>8 DEF UploadRecorded
  <2>2. /\ tasks'[x].artifact_digests = tasks[x].artifact_digests \cup {u.digest}
        /\ tasks'[x].task = tasks[x].task
    BY <1>3, <2>1 DEF TaskState
  <2> QED
    BY <2>1, <2>2 DEF ArtifactBudget, Recordable
<1>9. ASSUME NEW r, NEW k, NEW x \in DOMAIN tasks, NEW receipt, Complete(r, k, x, receipt)
      PROVE  ArtifactBudget'
  BY <1>1, <1>3, <1>9 DEF Complete, TaskState
<1>10. CASE Tick \/ UNCHANGED vars \/ \E r \in Registration : Register(r)
  BY <1>2, <1>10 DEF Tick, vars, Register
<1>11. CASE UploadStep
  BY <1>2, <1>8, <1>11 DEF UploadStep, UploadStart, UploadRefused, UploadStoreError, UploadEnded
<1>12. CASE CompleteStep
  BY <1>2, <1>9, <1>12 DEF CompleteStep, CompleteStoreError
<1> QED
  BY <1>4, <1>5, <1>6, <1>7, <1>10, <1>11, <1>12, <1>13 DEF Next, Claim, ClaimFails, HeartbeatStep

(* Only the end of an upload changes the artifacts of a task. *)
LEMMA ArtifactsKept ==
    ASSUME TypeOK, [Next]_vars, \A c \in Conn : ~ UploadRecorded(c), NEW y \in DOMAIN tasks
    PROVE  tasks'[y].artifact_digests = tasks[y].artifact_digests
<1>1. ASSUME NEW x \in DOMAIN tasks PROVE tasks[x] \in TaskState
  BY TaskFacts
<1>2. CASE tasks' = tasks
  BY <1>2
<1>3. ASSUME NEW task \in Task, Dispatch(task) PROVE tasks'[y] = tasks[y]
  BY <1>3 DEF Dispatch
<1>4. ASSUME NEW r, NEW k, NEW x \in DOMAIN tasks, ClaimGranted(r, k, x)
      PROVE  tasks'[y].artifact_digests = tasks[y].artifact_digests
  BY <1>1, <1>4 DEF ClaimGranted, TaskState
<1>5. ASSUME NEW r, NEW k, NEW x \in DOMAIN tasks, ClaimUnbuilt(r, k, x)
      PROVE  tasks'[y].artifact_digests = tasks[y].artifact_digests
  BY <1>1, <1>5 DEF ClaimUnbuilt, TaskState
<1>6. ASSUME NEW r, NEW k, NEW x \in DOMAIN tasks, ClaimRolledBack(r, k, x)
      PROVE  tasks'[y].artifact_digests = tasks[y].artifact_digests
  BY <1>1, <1>6 DEF ClaimRolledBack, TaskState
<1>7. ASSUME NEW r, NEW k, NEW x \in DOMAIN tasks, Heartbeat(r, k, x)
      PROVE  tasks'[y].artifact_digests = tasks[y].artifact_digests
  BY <1>1, <1>7 DEF Heartbeat, TaskState
<1>8. ASSUME NEW r, NEW k, NEW x \in DOMAIN tasks, NEW receipt, Complete(r, k, x, receipt)
      PROVE  tasks'[y].artifact_digests = tasks[y].artifact_digests
  BY <1>1, <1>8 DEF Complete, TaskState
<1>9. CASE Tick \/ UNCHANGED vars \/ \E r \in Registration : Register(r)
  BY <1>2, <1>9 DEF Tick, vars, Register
<1>10. CASE UploadStep
  BY <1>2, <1>10 DEF UploadStep, UploadStart, UploadRefused, UploadStoreError, UploadEnded
<1>11. CASE CompleteStep
  BY <1>2, <1>8, <1>11 DEF CompleteStep, CompleteStoreError
<1> QED
  BY <1>3, <1>4, <1>5, <1>6, <1>7, <1>9, <1>10, <1>11 DEF Next, Claim, ClaimFails, HeartbeatStep

(* The end of an upload records it under the last lease that was handed out:  *)
(* what Recordable finds active is what LeaseMatchesSignedJob ties to a claim. *)
LEMMA UploadInLease ==
    ASSUME TypeOK, LeaseInvariant, NEW c \in Conn, UploadRecorded(c)
    PROVE  UploadedUnderLease
<1> DEFINE u == uploads[c]
<1>1. PICK x \in DOMAIN tasks :
         /\ Recordable(u, x)
         /\ tasks' = [tasks EXCEPT ![x].artifact_digests = @ \cup {u.digest}]
  BY DEF UploadRecorded
<1>2. u # None /\ uploads'[c] = None
  BY DEF UploadRecorded, Received, TypeOK
<1>3. /\ tasks[x].status = "leased" /\ tasks[x].lease_id = u.lease_id
      /\ tasks[x].runner_principal_id = u.runner.principal_id
      /\ now <= tasks[x].lease_expires_at
  BY <1>1 DEF Recordable, Active
<1>4. /\ tasks'[x].artifact_digests = tasks[x].artifact_digests \cup {u.digest}
      /\ \A y \in DOMAIN tasks : y # x => tasks'[y] = tasks[y]
  <2>1. tasks[x] \in TaskState
    BY TaskFacts
  <2> QED
    BY <1>1, <2>1 DEF TaskState
<1> HIDE DEF u
<1>5. SUFFICES ASSUME tasks[x].task.well_formed
               PROVE  \E e \in Grants :
                         /\ u.lease_id = e.result.lease_id
                         /\ u.runner.principal_id = e.principal_id
                         /\ e.tenant_id = x[1] /\ e.result.job_id = x[2]
                         /\ now <= e.result.lease_expires_at
                         /\ \A f \in Grants :
                               SameTask(e, f) => f.result.attempt <= e.result.attempt
  BY <1>2, <1>3, <1>4 DEF UploadedUnderLease, u
<1>6. PICK e \in Grants :
         /\ e.tenant_id = x[1] /\ e.principal_id = tasks[x].runner_principal_id
         /\ e.result = tasks[x].job
         /\ tasks[x].job.job_id = x[2] /\ tasks[x].job.attempt = tasks[x].attempt
         /\ tasks[x].job.lease_id = tasks[x].lease_id
         /\ tasks[x].job.lease_expires_at = tasks[x].lease_expires_at
  BY <1>3, <1>5 DEF LeaseInvariant, LeaseMatchesSignedJob
<1>7. ASSUME NEW f \in Grants, SameTask(e, f) PROVE f.result.attempt <= e.result.attempt
  <2>2. x = <<x[1], x[2]>>
    BY TaskFacts
  <2>1. f.tenant_id = x[1] /\ f.result.job_id = x[2]
    BY <1>6, <1>7 DEF SameTask
  <2> QED
    BY <1>6, <2>1, <2>2 DEF LeaseInvariant, GrantsBounded
<1> QED
  BY <1>3, <1>6, <1>7

(* However uploads interleave, the artifacts of a task fit its policy and     *)
(* none arrives under a lease that is over.                                   *)
THEOREM UploadsStayUnderLease == Spec => ArtifactsUnderLease
<1>1. Init => ArtifactBudget
  BY DEF Init, ArtifactBudget
<1>2. /\ TypeOK /\ LeaseInvariant /\ ArtifactBudget /\ [Next]_vars
      => [ArtifactBudget' /\ UploadedUnderLease]_vars
  <2> SUFFICES ASSUME TypeOK, LeaseInvariant, ArtifactBudget, [Next]_vars PROVE UploadedUnderLease
    BY BudgetStep
  <2>1. CASE \E c \in Conn : UploadRecorded(c)
    BY <2>1, UploadInLease
  <2>2. CASE \A c \in Conn : ~ UploadRecorded(c)
    BY <2>2, ArtifactsKept DEF UploadedUnderLease
  <2> QED
    BY <2>1, <2>2
<1> QED
  BY <1>1, <1>2, BudgetStep, TypeCorrect, LeaseInvariantHolds, PTL DEF Spec, ArtifactsUnderLease

(***************************************************************************)
(* What a completed task refers to.                                        *)
(***************************************************************************)
(* Nothing is ever taken out of the object store: neither bytes nor statements. *)
LEMMA StoresGrow ==
    ASSUME [Next]_vars
    PROVE  store \subseteq store' /\ statements \subseteq statements'
<1>1. CASE \/ Tick \/ UNCHANGED vars \/ Claim \/ ClaimFails \/ HeartbeatStep
           \/ (\E r \in Registration : Register(r)) \/ (\E task \in Task : Dispatch(task))
  BY <1>1 DEF Tick, vars, Claim, ClaimGranted, ClaimUnbuilt, ClaimFails, ClaimRolledBack,
              HeartbeatStep, Heartbeat, Register, Dispatch
<1>2. CASE UploadStep
  BY <1>2 DEF UploadStep, UploadStart, UploadRecorded, UploadRefused, UploadStoreError,
              UploadEnded
<1>3. CASE CompleteStep
  BY <1>3 DEF CompleteStep, Complete, CompleteStoreError
<1> QED
  BY <1>1, <1>2, <1>3 DEF Next

(* While tasks keep their artifacts and materials, these stay stored. *)
LEMMA MaterialsKept ==
    ASSUME MaterialsStored, store \subseteq store', DOMAIN tasks' = DOMAIN tasks,
           \A y \in DOMAIN tasks : /\ tasks'[y].artifact_digests = tasks[y].artifact_digests
                                   /\ tasks'[y].task = tasks[y].task
    PROVE  MaterialsStored'
BY DEF MaterialsStored

(* Every step keeps what tasks refer to in the store. *)
LEMMA MaterialsStep == TypeOK /\ MaterialsStored /\ [Next]_vars => MaterialsStored'
<1> SUFFICES ASSUME TypeOK, MaterialsStored, [Next]_vars PROVE MaterialsStored'
  OBVIOUS
<1>0. store \subseteq store'
  BY StoresGrow
<1>1. CASE tasks' = tasks
  BY <1>0, <1>1, MaterialsKept
<1>2. ASSUME NEW x \in DOMAIN tasks PROVE tasks[x] \in TaskState
  BY TaskFacts
<1>3. ASSUME NEW task \in Task, Dispatch(task) PROVE MaterialsStored'
  <2> DEFINE key == <<task.tenant_id, task.job_id>>
  <2>1. /\ tasks' = [y \in DOMAIN tasks \cup {key} |->
                        IF y = key THEN NewTask(task) ELSE tasks[y]]
        /\ \A d \in task.materials : <<task.tenant_id, d>> \in store
        /\ key \notin DOMAIN tasks
    BY <1>3 DEF Dispatch
  <2>2. NewTask(task).artifact_digests = {} /\ NewTask(task).task = task
    BY DEF NewTask
  <2>3. key[1] = task.tenant_id
    OBVIOUS
  <2> HIDE DEF key
  <2> QED
    BY <1>0, <2>1, <2>2, <2>3 DEF MaterialsStored
<1>4. ASSUME NEW r, NEW k, NEW x \in DOMAIN tasks, ClaimGranted(r, k, x)
      PROVE  MaterialsStored'
  BY <1>0, <1>2, <1>4, MaterialsKept DEF ClaimGranted, TaskState
<1>12. ASSUME NEW r, NEW k, NEW x \in DOMAIN tasks, ClaimUnbuilt(r, k, x)
       PROVE  MaterialsStored'
  BY <1>0, <1>2, <1>12, MaterialsKept DEF ClaimUnbuilt, TaskState
<1>5. ASSUME NEW r, NEW k, NEW x \in DOMAIN tasks, ClaimRolledBack(r, k, x)
      PROVE  MaterialsStored'
  BY <1>0, <1>2, <1>5, MaterialsKept DEF ClaimRolledBack, TaskState
<1>6. ASSUME NEW r, NEW k, NEW x \in DOMAIN tasks, Heartbeat(r, k, x)
      PROVE  MaterialsStored'
  BY <1>0, <1>2, <1>6, MaterialsKept DEF Heartbeat, TaskState
<1>7. ASSUME NEW c, UploadRecorded(c) PROVE MaterialsStored'
  <2> DEFINE u == uploads[c]
  <2>1. PICK x \in DOMAIN tasks :
           /\ Recordable(u, x)
           /\ tasks' = [tasks EXCEPT ![x].artifact_digests = @ \cup {u.digest}]
    BY <1>7 DEF UploadRecorded
  <2>2. <<u.runner.tenant_id, u.digest>> \in store'
    BY <1>7 DEF UploadRecorded
  <2>3. x[1] = u.runner.tenant_id
    BY <2>1 DEF Recordable, Active
  <2>4. /\ tasks'[x].artifact_digests = tasks[x].artifact_digests \cup {u.digest}
        /\ tasks'[x].task = tasks[x].task
        /\ DOMAIN tasks' = DOMAIN tasks
        /\ \A y \in DOMAIN tasks : y # x => tasks'[y] = tasks[y]
    BY <1>2, <2>1 DEF TaskState
  <2> HIDE DEF u
  <2> QED
    BY <1>0, <2>2, <2>3, <2>4 DEF MaterialsStored
<1>8. ASSUME NEW r, NEW k, NEW x \in DOMAIN tasks, NEW receipt, Complete(r, k, x, receipt)
      PROVE  MaterialsStored'
  BY <1>0, <1>2, <1>8, MaterialsKept DEF Complete, TaskState
<1>9. CASE Tick \/ UNCHANGED vars \/ \E r \in Registration : Register(r)
  BY <1>1, <1>9 DEF Tick, vars, Register
<1>10. CASE UploadStep
  BY <1>1, <1>7, <1>10 DEF UploadStep, UploadStart, UploadRefused, UploadStoreError, UploadEnded
<1>11. CASE CompleteStep
  BY <1>1, <1>8, <1>11 DEF CompleteStep, CompleteStoreError
<1> QED
  BY <1>3, <1>4, <1>5, <1>6, <1>9, <1>10, <1>11, <1>12 DEF Next, Claim, ClaimFails, HeartbeatStep

(* What a completion may store for a receipt is backed, however many of its   *)
(* projections it reaches.                                                    *)
LEMMA ProjectionsBacked ==
    ASSUME TypeOK, MaterialsStored, ProjectionBacked, store \subseteq store',
           NEW r \in registrations, NEW k \in Key, NEW x \in DOMAIN tasks,
           NEW receipt \in Receipts, Completable(r, k, x, receipt),
           NEW stored \in SUBSET receipt.body.projected,
           statements' = statements
              \cup {ReceiptStatement(r.tenant_id, receipt)}
              \cup ProjectionStatements(r.tenant_id, receipt, stored)
    PROVE  ProjectionBacked'
<1> SUFFICES ASSUME NEW s \in statements', s.projects # None
             PROVE  /\ ReceiptStatement(s.tenant_id, s.receipt) \in statements'
                    /\ s.receipt.body.claimed_outcome \in {"success", "partial"}
                    /\ <<s.tenant_id, s.projects>> \in store'
  BY DEF ProjectionBacked, ReceiptStatement
<1>1. CASE s \in statements
  BY <1>1 DEF ProjectionBacked
<1>2. CASE s = ReceiptStatement(r.tenant_id, receipt)
  BY <1>2 DEF ReceiptStatement
<1>3. CASE s \in ProjectionStatements(r.tenant_id, receipt, stored)
  <2>1. PICK d \in stored : s = [tenant_id |-> r.tenant_id, receipt |-> receipt, projects |-> d]
    BY <1>3 DEF ProjectionStatements
  <2>2. d \in receipt.body.projected
    OBVIOUS
  <2>3. /\ d \in receipt.body.outputs
        /\ receipt.body.claimed_outcome \in {"success", "partial"}
    BY <2>2 DEF Completable, ValidProjections
  <2>4. receipt.body \in ReceiptBody
    BY DEF Receipts
  <2>5. d \in receipt.body.artifacts
    BY <2>3, <2>4, RecordsAssumption
  <2>6. <<x[1], d>> \in store
    BY <2>5 DEF Completable, ValidReceipt, MaterialsStored
  <2>7. x[1] = r.tenant_id
    BY DEF Completable, Active
  <2> QED
    BY <2>1, <2>3, <2>6, <2>7
<1> QED
  BY <1>1, <1>2, <1>3

(* A task that stays completed, with its receipt, stays durable. *)
LEMMA DurableKept ==
    ASSUME CompletionDurable, store \subseteq store', statements \subseteq statements',
           NEW x \in DOMAIN tasks, tasks[x].status = "completed",
           tasks'[x].receipt = tasks[x].receipt
    PROVE  /\ ReceiptStatement(x[1], tasks'[x].receipt) \in statements'
           /\ ProjectionStatements(x[1], tasks'[x].receipt, tasks'[x].receipt.body.projected)
                 \subseteq statements'
           /\ \A d \in tasks'[x].receipt.body.artifacts : <<x[1], d>> \in store'
BY DEF CompletionDurable

(* Every step keeps the projections in the store backed. *)
LEMMA ProjectionStep ==
    TypeOK /\ MaterialsStored /\ ProjectionBacked /\ [Next]_vars => ProjectionBacked'
<1> SUFFICES ASSUME TypeOK, MaterialsStored, ProjectionBacked, [Next]_vars
             PROVE  ProjectionBacked'
  OBVIOUS
<1>1. store \subseteq store'
  BY StoresGrow
<1>2. CASE statements' = statements
  BY <1>1, <1>2 DEF ProjectionBacked, ReceiptStatement
<1>3. CASE CompleteStep
  <2>1. PICK r \in registrations, k \in Key, x \in DOMAIN tasks :
           \E receipt \in Receipts :
              Complete(r, k, x, receipt) \/ CompleteStoreError(r, k, x, receipt)
    BY <1>3 DEF CompleteStep
  <2>2. PICK receipt \in Receipts :
           Complete(r, k, x, receipt) \/ CompleteStoreError(r, k, x, receipt)
    BY <2>1
  <2>3. /\ Completable(r, k, x, receipt)
        /\ \E stored \in SUBSET receipt.body.projected :
              statements' = statements
                 \cup {ReceiptStatement(r.tenant_id, receipt)}
                 \cup ProjectionStatements(r.tenant_id, receipt, stored)
    BY <2>2 DEF Complete, CompleteStoreError
  <2> QED
    BY <1>1, <2>3, ProjectionsBacked
<1>4. CASE \/ Tick \/ UNCHANGED vars \/ Claim \/ ClaimFails \/ HeartbeatStep \/ UploadStep
           \/ (\E r \in Registration : Register(r)) \/ (\E task \in Task : Dispatch(task))
  BY <1>2, <1>4 DEF Tick, vars, Claim, ClaimGranted, ClaimUnbuilt, ClaimFails, ClaimRolledBack,
              HeartbeatStep, Heartbeat, Register, Dispatch, UploadStep, UploadStart,
              UploadRecorded, UploadRefused, UploadStoreError, UploadEnded
<1> QED
  BY <1>3, <1>4 DEF Next

(* A task that is completed after a step was completed before, with the same  *)
(* receipt, unless the step is its completion.                                *)
LEMMA CompletedBefore ==
    ASSUME TypeOK, [Next]_vars, NEW y \in DOMAIN tasks', tasks'[y].status = "completed"
    PROVE  \/ /\ y \in DOMAIN tasks
              /\ tasks[y].status = "completed"
              /\ tasks'[y].receipt = tasks[y].receipt
           \/ \E r \in registrations, k \in Key, receipt \in Receipts :
                 y \in DOMAIN tasks /\ Complete(r, k, y, receipt)
<1>1. CASE tasks' = tasks
  BY <1>1
<1>2. ASSUME NEW x \in DOMAIN tasks PROVE tasks[x] \in TaskState
  BY TaskFacts
<1>3. ASSUME NEW task \in Task, Dispatch(task)
      PROVE  y \in DOMAIN tasks /\ tasks'[y] = tasks[y]
  BY <1>3 DEF Dispatch, NewTask
<1>4. ASSUME NEW r, NEW k, NEW x \in DOMAIN tasks, ClaimGranted(r, k, x)
      PROVE  y \in DOMAIN tasks /\ tasks'[y] = tasks[y]
  BY <1>2, <1>4 DEF ClaimGranted, TaskState
<1>12. ASSUME NEW r, NEW k, NEW x \in DOMAIN tasks, ClaimUnbuilt(r, k, x)
       PROVE  y \in DOMAIN tasks /\ tasks'[y] = tasks[y]
  BY <1>2, <1>12 DEF ClaimUnbuilt, TaskState
<1>5. ASSUME NEW r, NEW k, NEW x \in DOMAIN tasks, ClaimRolledBack(r, k, x)
      PROVE  y \in DOMAIN tasks /\ tasks'[y] = tasks[y]
  BY <1>2, <1>5 DEF ClaimRolledBack, TaskState
<1>6. ASSUME NEW r, NEW k, NEW x \in DOMAIN tasks, Heartbeat(r, k, x)
      PROVE  /\ y \in DOMAIN tasks
             /\ tasks'[y].status = tasks[y].status
             /\ tasks'[y].receipt = tasks[y].receipt
  BY <1>2, <1>6 DEF Heartbeat, TaskState
<1>7. ASSUME NEW c, UploadRecorded(c)
      PROVE  /\ y \in DOMAIN tasks
             /\ tasks'[y].status = tasks[y].status
             /\ tasks'[y].receipt = tasks[y].receipt
  <2>1. PICK x \in DOMAIN tasks :
           tasks' = [tasks EXCEPT ![x].artifact_digests = @ \cup {uploads[c].digest}]
    BY <1>7 DEF UploadRecorded
  <2> QED
    BY <1>2, <2>1 DEF TaskState
<1>8. ASSUME NEW r \in registrations, NEW k \in Key, NEW x \in DOMAIN tasks,
             NEW receipt \in Receipts, Complete(r, k, x, receipt)
      PROVE  \/ y \in DOMAIN tasks /\ tasks'[y] = tasks[y]
             \/ y = x
  BY <1>8 DEF Complete
<1>9. CASE Tick \/ UNCHANGED vars \/ \E r \in Registration : Register(r)
  BY <1>1, <1>9 DEF Tick, vars, Register
<1>10. CASE UploadStep
  BY <1>1, <1>7, <1>10 DEF UploadStep, UploadStart, UploadRefused, UploadStoreError, UploadEnded
<1>11. CASE CompleteStep
  BY <1>1, <1>8, <1>11 DEF CompleteStep, CompleteStoreError
<1> QED
  BY <1>3, <1>4, <1>5, <1>6, <1>9, <1>10, <1>11, <1>12 DEF Next, Claim, ClaimFails, HeartbeatStep

(* Every step keeps completions durable. *)
LEMMA DurableStep ==
    TypeOK /\ MaterialsStored /\ CompletionDurable /\ [Next]_vars => CompletionDurable'
<1> SUFFICES ASSUME TypeOK, MaterialsStored, CompletionDurable, [Next]_vars
             PROVE  CompletionDurable'
  OBVIOUS
<1>1. store \subseteq store' /\ statements \subseteq statements'
  BY StoresGrow
<1>2. ProjectionBacked'
  BY ProjectionStep DEF CompletionDurable
<1>3. ASSUME NEW y \in DOMAIN tasks', tasks'[y].status = "completed"
      PROVE  /\ ReceiptStatement(y[1], tasks'[y].receipt) \in statements'
             /\ ProjectionStatements(y[1], tasks'[y].receipt, tasks'[y].receipt.body.projected)
                   \subseteq statements'
             /\ \A d \in tasks'[y].receipt.body.artifacts : <<y[1], d>> \in store'
  <2>1. CASE /\ y \in DOMAIN tasks
             /\ tasks[y].status = "completed"
             /\ tasks'[y].receipt = tasks[y].receipt
    BY <1>1, <2>1, DurableKept
  <2>2. ASSUME NEW r \in registrations, NEW k \in Key, NEW receipt \in Receipts,
               y \in DOMAIN tasks, Complete(r, k, y, receipt)
        PROVE  /\ ReceiptStatement(y[1], tasks'[y].receipt) \in statements'
               /\ ProjectionStatements(y[1], tasks'[y].receipt,
                                       tasks'[y].receipt.body.projected) \subseteq statements'
               /\ \A d \in tasks'[y].receipt.body.artifacts : <<y[1], d>> \in store'
    <3>1. tasks'[y].receipt = receipt
      <4>1. tasks[y] \in TaskState
        BY <2>2, TaskFacts
      <4> QED
        BY <2>2, <4>1 DEF Complete, TaskState
    <3>2. y[1] = r.tenant_id
      BY <2>2 DEF Complete, Completable, Active
    <3>3. \A d \in receipt.body.artifacts : <<y[1], d>> \in store
      BY <2>2 DEF Complete, Completable, ValidReceipt, MaterialsStored
    <3>4. statements' = statements
             \cup {ReceiptStatement(r.tenant_id, receipt)}
             \cup ProjectionStatements(r.tenant_id, receipt, receipt.body.projected)
      BY <2>2 DEF Complete
    <3> QED
      BY <1>1, <3>1, <3>2, <3>3, <3>4
  <2> QED
    BY <1>3, <2>1, <2>2, CompletedBefore
<1> QED
  BY <1>2, <1>3 DEF CompletionDurable, ReceiptStatement, ProjectionStatements

(* Whatever a completed task refers to is stored, and a completion that fails *)
(* between two puts leaves no projection without its receipt.                 *)
THEOREM CompletionIsDurable == Spec => []CompletionDurable
<1>1. Init => MaterialsStored /\ CompletionDurable
  BY DEF Init, MaterialsStored, CompletionDurable, ProjectionBacked
<1> QED
  BY <1>1, MaterialsStep, DurableStep, TypeCorrect, PTL DEF Spec

(***************************************************************************)
(* The gateway implements the lease queue.                                 *)
(***************************************************************************)
(* The gateway starts as an empty lease queue. *)
LEMMA QueueInit == Init => Queue!Init
BY DEF Init, Queue!Init, ItemOf, Queue!Absent, NoExpiry

(* A step that changes the item of one task only. *)
LEMMA OneItem ==
    ASSUME NEW x \in TaskKey, NEW v, ItemOf(x)' = v,
           \A y \in TaskKey : y # x => ItemOf(y)' = ItemOf(y)
    PROVE  [y \in TaskKey |-> ItemOf(y)]' = [[y \in TaskKey |-> ItemOf(y)] EXCEPT ![x] = v]
OBVIOUS

(* Steps that keep the status, holder, expiry and attempt of every task are   *)
(* invisible to the queue.                                                    *)
LEMMA QueueStutter ==
    ASSUME now' = now, DOMAIN tasks' = DOMAIN tasks,
           \A y \in DOMAIN tasks :
              /\ tasks'[y].status = tasks[y].status
              /\ tasks'[y].attempt = tasks[y].attempt
              /\ tasks'[y].lease_expires_at = tasks[y].lease_expires_at
              /\ tasks'[y].runner_principal_id = tasks[y].runner_principal_id
    PROVE  UNCHANGED Queue!vars
BY DEF ItemOf, Queue!vars

(* A step on one task leaves the other items alone. *)
LEMMA OtherItems ==
    ASSUME NEW x \in DOMAIN tasks, NEW new, tasks' = [tasks EXCEPT ![x] = new]
    PROVE  /\ \A y \in TaskKey : y # x => ItemOf(y)' = ItemOf(y)
           /\ ItemOf(x)' = [phase |-> PhaseOf(new.status),
                            holder |-> new.runner_principal_id,
                            until |-> new.lease_expires_at,
                            round |-> new.attempt]
BY DEF ItemOf

(* A dispatch is the queue's Add. *)
LEMMA QueueDispatch ==
    ASSUME TypeOK, NEW task \in Task, Dispatch(task)
    PROVE  Queue!Next
<1> DEFINE key == <<task.tenant_id, task.job_id>>
<1>1. key \in TaskKey
  BY RecordsAssumption DEF TaskKey
<1>2. /\ key \notin DOMAIN tasks /\ now' = now
      /\ tasks' = [y \in DOMAIN tasks \cup {key} |->
                      IF y = key THEN NewTask(task) ELSE tasks[y]]
  BY DEF Dispatch
<1> HIDE DEF key
<1>3. ItemOf(key)' = [phase |-> "waiting", holder |-> None, until |-> -1, round |-> 0]
  BY <1>2 DEF ItemOf, NewTask, PhaseOf, NoExpiry
<1>4. \A y \in TaskKey : y # key => ItemOf(y)' = ItemOf(y)
  BY <1>2 DEF ItemOf
<1>5. [y \in TaskKey |-> ItemOf(y)]' =
         [[y \in TaskKey |-> ItemOf(y)] EXCEPT ![key] =
             [phase |-> "waiting", holder |-> None, until |-> -1, round |-> 0]]
  BY <1>1, <1>3, <1>4, OneItem
<1>6. ItemOf(key).phase = "absent"
  BY <1>2 DEF ItemOf
<1>7. Queue!Add(key)
  BY <1>1, <1>2, <1>5, <1>6 DEF Queue!Add, Queue!Absent
<1> QED
  BY <1>1, <1>7 DEF Queue!Next

(* A task claim may take is free for the queue. *)
LEMMA CandidateItemFree ==
    ASSUME TypeOK, NEW t, NEW x \in Candidates(t)
    PROVE  /\ x \in DOMAIN tasks /\ x \in TaskKey
           /\ Queue!Free(x)
           /\ ItemOf(x).round = tasks[x].attempt
<1>1. x \in DOMAIN tasks /\ x \in TaskKey
  BY DEF Candidates, TypeOK, TasksTyped
<1>2. /\ ItemOf(x).phase = PhaseOf(tasks[x].status)
      /\ ItemOf(x).until = tasks[x].lease_expires_at
      /\ ItemOf(x).round = tasks[x].attempt
  BY <1>1 DEF ItemOf
<1>3. \/ tasks[x].status = "queued"
      \/ tasks[x].status = "leased" /\ tasks[x].lease_expires_at < now
  BY DEF Candidates
<1> QED
  BY <1>1, <1>2, <1>3 DEF Queue!Free, PhaseOf

(* A granted claim is the queue's Hand. *)
LEMMA QueueClaim ==
    ASSUME TypeOK, NEW r \in registrations, NEW k \in Key, NEW x \in DOMAIN tasks,
           ClaimGranted(r, k, x)
    PROVE  Queue!Next
<1> DEFINE s == tasks[x]
           expires == now + s.task.lease_seconds
           new == [s EXCEPT !.status = "leased", !.attempt = s.attempt + 1,
                        !.lease_id = issued + 1, !.lease_expires_at = expires,
                        !.heartbeat_sequence = 0,
                        !.runner_principal_id = r.principal_id,
                        !.job = [job_id |-> x[2], attempt |-> s.attempt + 1,
                                 lease_id |-> issued + 1, created_at |-> now,
                                 lease_expires_at |-> expires]]
           item == [phase |-> "held", holder |-> r.principal_id, until |-> expires,
                    round |-> s.attempt + 1]
<1>1. tasks' = [tasks EXCEPT ![x] = new] /\ now' = now
  BY DEF ClaimGranted
<1>2. x \in TaskKey /\ Queue!Free(x) /\ ItemOf(x).round = s.attempt
  BY CandidateItemFree DEF ClaimGranted, Claimable, Selected
<1>3. /\ new.status = "leased" /\ new.attempt = s.attempt + 1
      /\ new.lease_expires_at = expires /\ new.runner_principal_id = r.principal_id
  <2>1. s \in TaskState
    BY TaskFacts
  <2> HIDE DEF s, expires
  <2> QED
    BY <2>1 DEF TaskState
<1>4. r.principal_id \in Principal
  BY RecordsAssumption DEF TypeOK
<1>5. expires \in now..(now + 300)
  <2>1. now \in Nat /\ s.task.lease_seconds \in 1..300
    BY TaskFacts DEF TypeOK
  <2> HIDE DEF s
  <2> QED BY <2>1, SMTT(30)
<1> HIDE DEF new, expires, s
<1>6. /\ ItemOf(x)' = item
      /\ \A y \in TaskKey : y # x => ItemOf(y)' = ItemOf(y)
  BY <1>1, <1>3, OtherItems DEF PhaseOf
<1>7. [y \in TaskKey |-> ItemOf(y)]' = [[y \in TaskKey |-> ItemOf(y)] EXCEPT ![x] = item]
  BY <1>2, <1>6, OneItem
<1>8. Queue!Hand(x, r.principal_id)
  BY <1>1, <1>2, <1>5, <1>7 DEF Queue!Hand
<1> QED
  BY <1>2, <1>4, <1>8 DEF Queue!Next

(* A claim whose job cannot be built is the queue's Hand all the same. *)
LEMMA QueueClaimUnbuilt ==
    ASSUME TypeOK, NEW r \in registrations, NEW k \in Key, NEW x \in DOMAIN tasks,
           ClaimUnbuilt(r, k, x)
    PROVE  Queue!Next
<1> DEFINE s == tasks[x]
           expires == now + s.task.lease_seconds
           new == [s EXCEPT !.status = "leased", !.attempt = s.attempt + 1,
                        !.lease_id = issued + 1, !.lease_expires_at = expires,
                        !.heartbeat_sequence = 0, !.runner_principal_id = r.principal_id]
           item == [phase |-> "held", holder |-> r.principal_id, until |-> expires,
                    round |-> s.attempt + 1]
<1>1. tasks' = [tasks EXCEPT ![x] = new] /\ now' = now
  BY DEF ClaimUnbuilt
<1>2. x \in TaskKey /\ Queue!Free(x) /\ ItemOf(x).round = s.attempt
  BY CandidateItemFree DEF ClaimUnbuilt, Claimable, Selected
<1>3. /\ new.status = "leased" /\ new.attempt = s.attempt + 1
      /\ new.lease_expires_at = expires /\ new.runner_principal_id = r.principal_id
  <2>1. s \in TaskState
    BY TaskFacts
  <2> HIDE DEF s, expires
  <2> QED
    BY <2>1 DEF TaskState
<1>4. r.principal_id \in Principal
  BY RecordsAssumption DEF TypeOK
<1>5. expires \in now..(now + 300)
  <2>1. now \in Nat /\ s.task.lease_seconds \in 1..300
    BY TaskFacts DEF TypeOK
  <2> HIDE DEF s
  <2> QED BY <2>1, SMTT(30)
<1> HIDE DEF new, expires, s
<1>6. /\ ItemOf(x)' = item
      /\ \A y \in TaskKey : y # x => ItemOf(y)' = ItemOf(y)
  BY <1>1, <1>3, OtherItems DEF PhaseOf
<1>7. [y \in TaskKey |-> ItemOf(y)]' = [[y \in TaskKey |-> ItemOf(y)] EXCEPT ![x] = item]
  BY <1>2, <1>6, OneItem
<1>8. Queue!Hand(x, r.principal_id)
  BY <1>1, <1>2, <1>5, <1>7 DEF Queue!Hand
<1> QED
  BY <1>2, <1>4, <1>8 DEF Queue!Next

(* A claim rolled back is the queue's Withdraw. *)
LEMMA QueueClaimRolledBack ==
    ASSUME TypeOK, NEW r \in registrations, NEW k \in Key, NEW x \in DOMAIN tasks,
           ClaimRolledBack(r, k, x)
    PROVE  Queue!Next
<1> DEFINE new == [tasks[x] EXCEPT !.status = "queued", !.lease_id = NoLease,
                    !.lease_expires_at = NoExpiry, !.heartbeat_sequence = 0,
                    !.runner_principal_id = None]
           item == [phase |-> "waiting", holder |-> None, until |-> -1,
                    round |-> tasks[x].attempt]
<1>1. tasks' = [tasks EXCEPT ![x] = new] /\ now' = now
  BY DEF ClaimRolledBack
<1>2. x \in TaskKey /\ Queue!Free(x) /\ ItemOf(x).round = tasks[x].attempt
  BY CandidateItemFree DEF ClaimRolledBack, Claimable, Selected
<1>3. /\ new.status = "queued" /\ new.attempt = tasks[x].attempt
      /\ new.lease_expires_at = NoExpiry /\ new.runner_principal_id = None
  <2>1. tasks[x] \in TaskState
    BY TaskFacts
  <2> QED
    BY <2>1 DEF TaskState
<1> HIDE DEF new
<1>4. /\ ItemOf(x)' = item
      /\ \A y \in TaskKey : y # x => ItemOf(y)' = ItemOf(y)
  BY <1>1, <1>3, OtherItems DEF PhaseOf, NoExpiry
<1>5. [y \in TaskKey |-> ItemOf(y)]' = [[y \in TaskKey |-> ItemOf(y)] EXCEPT ![x] = item]
  BY <1>2, <1>4, OneItem
<1>6. Queue!Withdraw(x)
  BY <1>1, <1>2, <1>5 DEF Queue!Withdraw
<1> QED
  BY <1>2, <1>6 DEF Queue!Next

(* A completion is the queue's Finish. *)
LEMMA QueueComplete ==
    ASSUME TypeOK, NEW r \in registrations, NEW k \in Key, NEW x \in DOMAIN tasks,
           NEW receipt, Complete(r, k, x, receipt)
    PROVE  Queue!Next
<1> DEFINE new == [tasks[x] EXCEPT !.status = "completed", !.receipt = receipt]
<1>1. tasks' = [tasks EXCEPT ![x] = new] /\ now' = now
  BY DEF Complete
<1>2. x \in TaskKey
  BY DEF TypeOK, TasksTyped
<1>3. tasks[x].status = "leased" /\ now <= tasks[x].lease_expires_at
  BY DEF Complete, Completable, Active
<1>4. /\ new.status = "completed" /\ new.attempt = tasks[x].attempt
      /\ new.lease_expires_at = tasks[x].lease_expires_at
      /\ new.runner_principal_id = tasks[x].runner_principal_id
  <2>1. tasks[x] \in TaskState
    BY TaskFacts
  <2> QED
    BY <2>1 DEF TaskState
<1> HIDE DEF new
<1>5. ItemOf(x) = [phase |-> "held", holder |-> tasks[x].runner_principal_id,
                   until |-> tasks[x].lease_expires_at, round |-> tasks[x].attempt]
  BY <1>3 DEF ItemOf, PhaseOf
<1> DEFINE item == [phase |-> "finished", holder |-> tasks[x].runner_principal_id,
                   until |-> tasks[x].lease_expires_at, round |-> tasks[x].attempt]
<1>6. /\ ItemOf(x)' = item
      /\ \A y \in TaskKey : y # x => ItemOf(y)' = ItemOf(y)
  BY <1>1, <1>4, OtherItems DEF PhaseOf
<1>7. [y \in TaskKey |-> ItemOf(y)]' = [[y \in TaskKey |-> ItemOf(y)] EXCEPT ![x] = item]
  BY <1>2, <1>6, OneItem
<1>8. Queue!Finish(x)
  <2>1. [ItemOf(x) EXCEPT !.phase = "finished"] = item
    BY <1>5
  <2>2. /\ ItemOf(x).phase = "held" /\ now <= ItemOf(x).until
    BY <1>3, <1>5
  <2> HIDE DEF item
  <2> QED
    BY <1>1, <1>2, <1>7, <2>1, <2>2 DEF Queue!Finish
<1> QED
  BY <1>2, <1>8 DEF Queue!Next

(* Every step of the gateway is a step of the lease queue or invisible to it. *)
LEMMA QueueStep ==
    TypeOK /\ [Next]_vars => [Queue!Next]_(Queue!vars)
<1> DEFINE Goal == [Queue!Next]_(Queue!vars)
<1> SUFFICES ASSUME TypeOK, [Next]_vars PROVE Goal
  OBVIOUS
<1>1. ASSUME now' = now, tasks' = tasks PROVE Goal
  BY <1>1, QueueStutter
<1>2. CASE Tick
  <2>1. now' = now + 1 /\ [y \in TaskKey |-> ItemOf(y)]' = [y \in TaskKey |-> ItemOf(y)]
    BY <1>2 DEF Tick, ItemOf
  <2> QED
    BY <2>1 DEF Queue!Next, Queue!Advance
<1>3. ASSUME NEW task \in Task, Dispatch(task) PROVE Goal
  BY <1>3, QueueDispatch
<1>4. CASE Claim
  BY <1>4, QueueClaim, QueueClaimUnbuilt DEF Claim
<1>5. CASE ClaimFails
  BY <1>5, QueueClaimRolledBack DEF ClaimFails
<1>6. ASSUME NEW r, NEW k, NEW x \in DOMAIN tasks, Heartbeat(r, k, x) PROVE Goal
  <2>1. tasks[x] \in TaskState
    BY TaskFacts
  <2> QED
    BY <1>6, <2>1, QueueStutter DEF Heartbeat, TaskState
<1>7. ASSUME NEW c, UploadRecorded(c) PROVE Goal
  <2>1. PICK x \in DOMAIN tasks :
           tasks' = [tasks EXCEPT ![x].artifact_digests = @ \cup {uploads[c].digest}]
    BY <1>7 DEF UploadRecorded
  <2>2. tasks[x] \in TaskState /\ now' = now
    BY <1>7, TaskFacts DEF UploadRecorded
  <2> QED
    BY <2>1, <2>2, QueueStutter DEF TaskState
<1>8. CASE UploadStep
  BY <1>1, <1>7, <1>8 DEF UploadStep, UploadStart, UploadRefused, UploadStoreError, UploadEnded
<1>9. CASE CompleteStep
  BY <1>1, <1>9, QueueComplete DEF CompleteStep, CompleteStoreError
<1>10. CASE UNCHANGED vars \/ \E r \in Registration : Register(r)
  BY <1>1, <1>10 DEF vars, Register
<1> HIDE DEF Goal
<1> QED
  BY <1>2, <1>3, <1>4, <1>5, <1>6, <1>8, <1>9, <1>10 DEF Next, HeartbeatStep

(* The gateway implements the lease queue. *)
THEOREM GatewayImplementsQueue == Spec => ImplementsLeaseQueue
BY QueueInit, QueueStep, TypeCorrect, PTL DEF Spec, ImplementsLeaseQueue, Queue!Spec
=============================================================================
