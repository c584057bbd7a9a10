# Verification of the collective phase control fabric

TLA+ models of the parts of this repository that carry its protocols, checked
with TLC on small instances and, for the properties that matter most, proved
with TLAPS for every value of the constants. Paths below are relative to the
repository; `api/` stands for `packages/cpcf-api/src/cpcf_api/`, `core/` for
`src/collective_phase_control_fabric/`.

## The system

The repository is a control plane for evidence. Documents are canonical JSON
named by the SHA-256 of their bytes; a *workspace* of a *tenant* is a chain of
*generations*, each a ledger of the documents that count and the head of an
audit-event chain. Clients upload bytes and queue requests through an HTTP API;
external runners pull signed jobs, upload artifacts and return signed receipts;
analyses are pure functions of the documents an authority loader admits.

| component | state it keeps | operations | interacts with |
|---|---|---|---|
| runner gateway, `api/runner_gateway.py` | registrations, tasks with lease and attempt, completed attempts, idempotency cache (all in memory) | register, dispatch, claim, heartbeat, upload_artifact, complete | object store (artifacts, receipts, projections), signer and verifier, clock |
| receipt conformance, `core/v6/runner.py` | none | validate_receipt | called by complete |
| generation unit of work, `api/db.py` | PostgreSQL tables: workspaces, objects, generations, object_ledger, audit_events, quarantine, outbox, idempotency_keys | create_workspace, commit_generation, enqueue, idempotency_get/put | object store, read before and tagged after the transaction |
| object store, `api/object_store.py` | objects and their tags in S3 | put, get, exists, quarantine_unreferenced | called by all of the above |
| generation repository, `core/v6/storage.py` | in-memory reference of a workspace's current generation | create, get, commit | the promise the unit of work keeps |
| control-plane API, `api/app.py` | none of its own | upload, create, queue operations, analyses, status | unit of work, object store |
| worker, `packages/cpcf-worker` | none | selects one outbox row, and stops there | outbox |
| authority loader, trust, `core/v6/authority.py`, `trust.py` | none | derive the authoritative view of a generation | reads ledger and objects |
| coordination, trials, projections, `core/v6/` | event chains inside documents | validate and replay | authority loader |
| analyses, `core/v6/*.py` | none | planning, growth, epistemic, structural and scientific analyses | pure |
| local workspaces, `core/*_v2..v5.py` | CAS files, manifests, CURRENT pointer, lock file | import, commit, execute, plan | file system |

What is hard in it: uploads that stream while leases expire and other uploads
finish; one handler that writes to a store and to memory or to a database, and
fails in between; retries of requests whose answer was lost; commits racing for
one pointer; leases reclaimed at the instant they end; state shared by tenants
by accident. `PROJECT.json` lists these hazards at their lines, with the
properties that watch over them.

## Modules

### RunnerGateway: `api/runner_gateway.py`

State: `registrations`, `tasks` (the `RunnerTaskState` of each tenant and job),
`completed_attempts` and `idempotency` are the fields of
`InMemoryRunnerGateway`; `issued` stands for the source of lease tokens,
`uploads` for the requests being streamed, `store`, `statements` and
`quarantined` for the object store; `now` for the clock.

Grain: the gateway runs in one event loop, and claim, heartbeat and complete
hold its locks without suspending, so each is one action, the store and signer
calls inside them included. An upload suspends while its body arrives: it is
`UploadStart` (budget read), then one of `UploadRecorded`, `UploadRefused`,
`UploadStoreError`, `UploadEnded`, and anything may happen in between. A claim
whose signature fails is `ClaimRolledBack`. One whose job cannot be built, a field
of the task being what the schema of jobs refuses (`Task.well_formed`), raises
before the try: `ClaimUnbuilt` leaves the task leased, an attempt used up and the
lease token known to nobody (`Told`), until the lease is over and reclaimed. A completion in which a put fails is
`CompleteStoreError`: the receipt and any of the projections are stored, nothing
else changes.

Data: digests are model values with a size in bytes, the time is a natural
number, lease tokens are numbered (`secrets.token_hex` does not repeat).
`Task.authorized` and `ReceiptBody.conformant` stand for the checks that compare
signed documents with each other and read no gateway state. Idempotency keys of
a principal are numbered in the order of use: they are only compared for
equality. The cache entries double as the record of what was answered; a claim's
entry holds the job that was signed.

`LeaseQueue` is the abstract specification: items that wait, are held until a
time, are handed on only when that time is over, and are finished only by their
holder in time. The end of the module maps a task's status, attempt, holder
and expiry to it.

### GenerationCommit: `api/db.py`, `commit_generation`

State: one variable per table (`workspaces`, `objects`, `generations`, `ledger`,
`audit_events`, `quarantine` with `unresolved` for its open rows, `outbox`,
`idempotency`), the object store (`store`, `tagged`), the uploads and commit
calls in progress, and `answered`, what callers were told.

Grain: a call is `CommitBegin` (the validation, which reads the store), then the
transaction, one of `CommitReplayed`, `Committed`, `CommitUnacknowledged` (it
took effect, the connection broke) and `CommitRolledBack` (a check, a
constraint, a serialization conflict or a lost database), then, after an
exception, `TagInterrupted`. The transaction is SERIALIZABLE, hence atomic.
`CallerCrash` stops a call before its transaction. An upload is a put and a
tag, with a crash possible between them.

Data: a mutation is a record of what the transaction looks at; its recomputed
digests, scopes and lengths are the flag `valid`. Digests name content, so two
mutations with one digest agree on what the digest covers
(`MutationAssumption`), and the genesis digest, which hashes another shape of
document, equals no generation's. A tenant is left out: every table, key and
path starts with it and nothing relates two. The idempotency table is shared
with the API's endpoints: a row they wrote under the same key has another
request digest and makes the commit raise, which `CommitRolledBack` allows.

`GenerationLog` is the abstract specification, from
`MemoryGenerationRepository`: a log per workspace that grows by
compare-and-append. The end of the module maps the tables to it.

### ControlPlaneApi: `api/app.py` over `api/db.py`

State: the rows the handlers read and write (`workspaces`, `outbox`,
`idempotency`), the object store (`stored`, `tagged`), the requests in progress
(`calls`, one per connection), what clients were told (`answers`) and the clock.

Grain: every database transaction and every store request is an action, because
a handler awaits between them: `Match` and `Mismatch` (require_workspace, If-Match),
`LookupMiss`, `LookupReplay`, `LookupConflict` (idempotency_get), the effect
(`CreateWorkspace`, `WorkspaceExists`, `Enqueue`, `PutObject` and `TagObject`),
`PutRow` (idempotency_put) and `Return`. `Fail` ends a call anywhere: a dead
process, a lost database, a lost answer. `queue_workspace_operation` and
`upload_cas_object` match before they look up, `start_analysis` after,
`create_workspace` never. `Advance` is a commit of GenerationCommit, seen from
here as a pointer that moves on.

Data: a generation is its sequence number; a request is a record and stands for
its `mutation_digest`; a response is the job id and generation it reports. Rows
of the outbox and calls carry a few history fields for the properties, marked as
such. The twelve operation endpoints differ in topic and permission only and are
one kind of request. A row commits wrote under the same key behaves like one of
another request. No run or code changes a queued row: the worker stops after
selecting it.

### LocalGenerations: `core/generation_v5.py`, `cas.py`, `locking.py`

State: the files of a workspace directory (`directory`, `lock_file`, `cas`,
`manifests`, `current` for the pointer CURRENT), the byte-range lock (`holder`),
what each process is doing (`calls`), the commits that were reported
(`acked`), and whether a founding command took back what it had published
(`withdrawn`).

Grain: every file operation is an action: create the directory and the lock
file, write its first byte, store an object, try the lock (polled, with a bounded
wait), compare CURRENT, write the manifest, replace CURRENT, unlock. A process
may fail or be killed between any two; the operating system then drops its lock.
The replacement of CURRENT may also fail after its effect: `_atomic_bytes` renames
first and syncs the directory then (`core/generation.py`), so the command reports
a failure although its generation is the current one.

A founding command that fails, at whatever step, removes its directory after the
lock is released (`initialize_workspace_v5`): `RemoveTree`, which takes any part of
the files, since errors are ignored and the process may be killed on the way.
Where it had published its generation by then this is a *withdrawal*: the log is
gone, with any generation another process appended and reported in between. The
properties say what holds nevertheless. A founding that was reported is never
withdrawn (`FoundingSettles`), nor is anything on top of it; before the founding
was reported a withdrawal is the one step that shortens the log, and it takes all
of it (`Withdrawal`). It is the last step of a behaviour: what the commands under
way find in a directory that is being removed under them is not modelled.
A generation is modelled by what its identifier hashes, the sequence of changes
since the founding. The end of the module maps the chain that CURRENT heads to
`GenerationLog`.

### Process5: `core/process.py`

`run_process` on POSIX, with the child, one descendant inside its process group
and one outside it, two bounded pipes, two reader threads and the caller: wait
with a timeout, kill the group, join the readers for a bounded time, close the
streams, report. A byte is its place in the stream. A reader that took a block
counts, hashes and keeps it in three steps, as `drain` does, and without a lock;
the caller may read between them. The child is arbitrary.

### Trust5, Workspace5, Planner5, Execution5, Coordination5, Trials5, Inspect5, LocalWorkspace5: a local v0.5 workspace

| module | code | what it has |
|---|---|---|
| Trust5 | `core/trust_v5.py` | signed statements, policies, role quorums of three disjoint principals |
| Workspace5 | `core/workspace_v5.py` | founding, import of raw artifacts, attestations and signed objects, advance of time, policy update, migration, `doctor_v5` |
| Planner5, PlanTrees5 | `core/planner_v5.py` | projection of actions through their four outcomes, dominance, plans and policy trees; the worlds that following a tree leads through (`Situations`) |
| Execution5 | `core/execution_v5.py` | `run_action_v5` in its steps (plan, bind, launch, look again, commit), approval of projections |
| Coordination5 | `core/coordination_v5.py` | commit-reveal sessions, each transition a new version of a document |
| Trials5 | `core/trials_v5.py` | protocols, amendments, results and the verdict on acceleration |
| Inspect5 | `core/workspace_v5.py` | the inspect, status, repair and onboarding commands, which write nothing |
| LocalWorkspace5 | | the composition: `Next` over all commands, and the properties |

State: `current`, the manifest CURRENT names (ledger entries with digest, kind,
sources, lifecycle, the policy they were recorded under and the generation they
date from); `migrating`; `runs` and `launched` for adapters in progress. Because
LocalGenerations shows that a commit is an atomic compare-and-append, until a
founding that fails after publishing withdraws the workspace (here the founding
succeeds or has no effect), a command is one action unless it reads or commits more than once: the adapter run (five
actions) and the migration (two commits) do. A command that refuses is no step.
A digest is what it hashes, `<<what, content>>`; a signature is the flag
`sound` of a statement.

### Trust6, Authority6, Coordination6, Trials6: the documents of v0.6

`Trust6` (`core/v6/trust.py`) judges statements, quorums and time. `Authority6`
(`authority.py`, `projection.py`, the history check of `storage.py`) is the
loader: what stands, what was decided, what was promoted and whether the history
is accepted are operators recomputed on every reading; the actions are the
commits that change what it reads. `Coordination6` (`coordination.py`) judges
one session from its signed events, `Trials6` (`trials.py`) one trial from its
documents, in whatever order they came in.

### Fractions6, Structural6, Science6, Planning6, Growth6, GrowthEvidence6, Epistemic6, Workflows6: the analyses of v0.6

Pure functions of documents, each module after the files it names: exact
fractions; siphons, closures, enablement cuts, delays and curve bounds
(`structural_analysis.py`); the audit and its perturbations (`science.py`); the
contingent planner (`planning.py`) and the interventions
(`intervention_analysis.py`), both in `Planning6`; the growth game and
its frontier (`growth.py`, `growth_frontier.py`), its measurement
(`growth_evidence.py`, `growth_frontier_evidence.py`), growth under a hidden
model with its planner, checker, evidence and value of information
(`epistemic*.py`, `information_value.py`), and workflows (`composition.py`,
`synthesis.py`, `catalogue_revision.py`). The code's limits on sizes of searches
are constants. The runs compare them with reference definitions and with every
world the documents allow.

### Science5: the audit of a local v0.5 workspace

`core/science_v5.py`, every dimension of it, and the bounded cut sets of
`core/structural_v5.py`: what is audited is a record of the manifest's entries,
the active attestations, the contract and the policy, and the audit a function
of it. The *local* suite of the documents run edits a workspace a statement at a
time and compares each verdict with what it should mean (`LocalEarned`): reached
only if every set of states and catalysts closed under the transformations has
the targets, independent only if so many groups of observers can be told apart,
served only if no cascade overloads a later verifier. What a reader of the code
may not expect, and the model keeps:

- Robustness is satisfied only if the scenarios of every suite remove nothing
  but witnesses (`OnlyWitnessesGo`): anything else they remove changes the
  snapshot the organization witness must name.
- Two transformations of one subject leave a variable unbound, which nothing
  catches; a witness of a transformation that is not there, or that a scenario
  removed, fails the audit as a whole.
- Keys a scenario removes stay in the policy whose quorum is judged.
- The floors of a typed flow are asked for after every step, not before the first.
- `perturbation_replay_v5` returns the results of all suites of the contract,
  and answers "ok" with none when the audit failed.
- Where the targets are out of reach, every transformation is reported as a cut.

### MC modules and proofs

`MCRunnerGateway`, `MCGenerationCommit`, `MCControlPlaneApi`,
`MCLocalGenerations`, `MCWorkspace5` and `MCDocuments6` (with `MCAnalyses6`,
`MCGrowth6` and `MCEpistemic6`) define the small instances a cfg picks from. No
cfg replaces a definition of the other modules. Where components share nothing a
run holds several *suites*: a behaviour chooses one at the start and stays in
it. A definition marked "Mutant" is a plausible mistake no specification uses.
The modules `*_proofs` hold theorems.

## Runs

| run | instance | shows |
|---|---|---|
| leases | 2 runners, 2 jobs, 2 attempts, times 0..3, lease of 1 | LeasesSound, EvidenceWithinLastLease, refinement of LeaseQueue |
| uploads | 1 runner, 2 connections, 2 artifacts of which one fits, 4 keys | OneEffectPerKey, ArtifactsUnderLease |
| completion | 1 runner, receipts with streams, outputs and projections, 4 outcomes, store failures between two puts | CompletionDurable |
| polling | 2 jobs, or one and one that cannot be built, a disabled runner, a conflicting certificate, fair claims | QueuedIsServed |
| commits | 1 workspace, 2 callers, 2 rival first commits, their retries rebuilt on either base | OneCommitPerKey, AnswersAgree, refinement of GenerationLog |
| ledger | 2 workspaces sharing an object, 7 mutations of which 3 must be refused, an object quarantined, released and quarantined again, uploads | LedgerBacked, AuditChainIntact, QuarantineFollowsHistory |
| requests | 2 connections, 1 key, a workspace that is there or not, an analysis of generation 0, an admission to generation 1, a creation, an upload, 2 jobs, times 0..1, lifetime 1 | AnswersBacked, ReplaysAgree, RepeatsOnlyAfterExpiry |
| local | suite *store*: 2 processes, the founding and 3 changes of which two add the same object, chains of 3 where verify_chain walks 2; suite *process*: 1 descendant, blocks and pipe of 2 bytes, limits of 1, output of 3 and 1 | CurrentLoads, CaptureExact, refinement of GenerationLog, LocalEnds |
| workspace | 5 suites over 5 policies, times 1..3: *trust* (founding, imports, time, updates, migration), *run* (two processes), *coordinate* (two participants), *measure* (a protocol, its rivals, 4 results), *plan* (5 actions, observations that disagree) | DoctorExplained, PolicyChain, LockOutIsFinal, RunsCountOnce, RevealsAfterCommits, CompatibleEarned, PlanHolds |
| documents | suites *quorum*, *renew*, *revoke*, *promote* (the loader), *clock* (6 commits stamped 0..2 in any order), *session* (19 signed events, any chain of up to 10), *trial* (14 documents in any order), *analyses* (networks of up to 3 of 9 transformations, snapshots, local workspaces, plans), *growth*, *hidden* | AuthorityIsCurrent, CompromisedNeverCounts, PromotedByTwo, HistoryFollowsClock, SatisfiedKeptPromise, CompatibleWasRegistered, StructureExact, RobustnessEarned, PlansHold, GrowthHolds, MeasuredIsReal, BeliefHolds, WorkflowsDeliver |
| tenants_replay, retries_share | the modules of the gateway and the API | a statement of the repository the code does not keep, one each (below) |

Bounds. A lease of one tick and a clock of two or three ticks contain the
instants before, at and after an expiry, and a reclaim with a second expiry; two
attempts contain a reclaim and the exhaustion of attempts; two runners,
connections, callers or processes contain every race of two, and every property
of the models relates at most two grants, keys, answers or generations. Keys are
bounded at the number of requests that can matter in the bounded time. A chain
one longer than verify_chain walks shows the limit and what lies past it. Output
of three bytes in blocks of two with a limit of one is cut inside a block and
leaves a shorter block. In the local workspace a key that expires at 2, a second
clock in the auditor's domain and a policy without the clock make every reason
for which a statement stops to verify occur, in histories of up to 4 (trust) to
16 (plan) generations. The documents of a suite contain, for each rule of the
loader or of a trial, one that keeps it and one that breaks it only.

`ledger`, `requests` and `workspace` use the symmetry of callers, connections
and processes, which nothing orders. The proofs below do without all of these
bounds. `CHECK_DEADLOCK FALSE` stands where a bounded clock, history or supply
of documents runs out; the commit runs check for deadlock.

Fairness. `polling` assumes `WF_vars(Claim)`: some enabled runner keeps polling
and the signer does not fail for ever. It is the customer's runners that give
it, the gateway starts nothing by itself; the clock need not advance. Under it,
QueuedIsServed is the strongest that holds: `claim` looks at the least candidate
only and raises when its attempts are used up, so an exhausted job hides all
later ones. The property names that exception. `local` assumes that a process
that is not killed takes its next step (`WF(Step(p))` for each process) and that
reader threads and the caller of `run_process` are scheduled; the lock is not
assumed to be granted, the child not to exit, nor anything of its descendants. A
command then ends because its wait for the lock is bounded, and `run_process`
returns unless a descendant the kill does not reach holds a stream open
(`RunEnds` names that exception).

### What the violation runs show

- *tenants_replay*: `completed_attempts` holds (job id, attempt) without the
  tenant, so a completed job of one tenant makes the receipt of another tenant's
  job of the same id a replay.
- *retries_share*: the idempotency row is read before and written after the job
  is queued, in transactions of their own; overlapping retries and retries after
  a crash queue the job twice.

More that a reader of the code may not expect is in the models without a run of
its own: the retry of a recorded upload meets the gateway's budget, which the
first one used, before the cached answer; operations of the API compare If-Match
before they look for the cached answer, analyses after it; a commit between the
comparison and `enqueue` lets a job for the previous generation in; the tag an
upload sets may stay on an object a generation admitted; the number of artifacts
is compared with its limit only where an upload starts. A commit of the local store may report a failure and yet
be there (above). Two limits of the analyses are not stated by any property. The
bounds on delays are compared with their definition in an assumption that TLC
evaluates, for services that do not pause; where a service pauses, the delay the
code computes may lie below the true horizontal deviation, although
`structural_analysis.py` calls it exact. And an audit ends with an exception, no
profile, if the registry names a unit for a supply's coordinate that it does not
define (`LookupRaises`). The hazards in
`PROJECT.json` have notes where a property could only say less than one might
expect.

## Proofs

Eight modules hold the theorems, for any sets of tenants, runners, jobs,
digests, keys, workspaces, objects, mutations, callers, requests, connections,
processes, policies, attestations and documents, and any limits. Assumptions:
only the named ASSUMEs of the modules, which give the constants their types,
finiteness of digests and mutations, the content-addressing facts above, that
times of policies, of signed documents and of trials and clocks of events are
integers, that what attestations and the contract measure is (whole) numbers and
the planning horizon a natural one, that a projection that is an attestation has
the shape of one, that a workspace is founded on a policy that exists, and that
a digest names one amendment. TLC evaluates them in the runs.

*Gateway* (`RunnerGateway_proofs`). `TypeCorrect` first. The lease properties
follow from one inductive invariant, `LeaseInvariant`: LeasesNeverOverlap, the
first part of LeasesSound, alone is not inductive, because a claim that is about to be granted has to know that
every earlier grant of the task is over and had a smaller attempt.
`GrantsBounded` says so (a queued task's grants ended before now, a leased task's
grants end no later than its lease), and `ReceiptIsCurrent` carries the same to
completed tasks. The rollback of a claim is the interesting step: it may requeue
a task whose old lease is over, and takes back exactly one attempt.
A lease nobody was told of, the failed building of a job, is no grant; it only uses
up an attempt. `EffectOncePerKey` is inductive with types alone, and so is the
budget in `UploadsStayUnderLease`, whose other half is about the single step: an
artifact enters a task only while the lease its upload was started under is the
task's, live and not completed.
`CompletionIsDurable` needs `MaterialsStored` (what a task may refer to has been
in the store since its dispatch or upload): a receipt is compared with the task,
and only through it with the store. A completion that fails between two puts
adds some of the projections of one receipt, which is why the lemmas speak of
any subset of them. `GatewayImplementsQueue` maps every action to a step of the
queue or to stuttering.

*Unit of work* (`GenerationCommit_proofs`). `CommitInvariant` is types,
HistoryLinear and `TablesAgree`. The two need each other: the pointer comparison
extends the line only if the pointer agrees with the last generation row, and
the workspace without generations has its genesis at sequence 0, which is what
makes `ExtendsHistory` demand no predecessor exactly there. TablesAgree also
says that audit rows, idempotency rows and generations correspond one to one and
that a call in progress stays valid because the store only grows. From it follow
AuditChain and AnswersConsistent; LedgerIsBacked, QuarantineIsHistory and
OneCommit add an induction each. `CommitImplementsLog` needs in addition that no
sequence number is missing (`Gapless`), which lets the log be read off the
generation rows.

*API* (`ControlPlaneApi_proofs`). None of the four properties is inductive: an
answer is made of a response that waited in a call or in a row. `ApiInvariant`
says what is so of a call at each of its steps (a response is backed once it is
computed; a call that repeats an answered request has a row, and past a failed
lookup an expired one; a call past the comparison names a generation the
workspace had since it was sent), of a row, an answer and a job. `GrowStep`
proves once that every step only adds to the tables, and the lemmas
`BackedKept`, `CallKept`, `RowKept`, `AnswerKept` and `JobKept` that whatever
the step leaves alone stays as it was; each action then has to account for its
own call only.

*Local store* (`LocalGenerations_proofs`). `StoreInvariant` relates the step a
command is at to the files: until there is a CURRENT the directory belongs to
its founder alone, every other command started from a generation that was there,
what is no longer to be stored is in the CAS, the manifest of the target is in
place when CURRENT is about to be replaced, and between comparison and unlock
the process holds the lock and CURRENT is its base (`OneWriter`). That last part
makes the comparison an atomic one: no other command can move CURRENT between
it and the replacement. All this holds until a withdrawal. What bounds a withdrawal
is `FoundingOnce`: one founding command is under way at a time and its founding
is not reported before it ends, so nothing is removed once it was reported.
CurrentAlwaysLoads, ReportedStays, WritersExclude and LedgersClosed are read off
the invariant; `StoreImplementsLog` maps the replacement of CURRENT to a creation
or an append, the removal of a published workspace to `Withdrawal`, and every
other step, kills and failures included, to stuttering.

*Captured output* (`Process5_proofs`). `ProcessInvariant` accounts for every
byte: there are places d <= t such that the totals, hashes and captured bytes
are those up to d (or up to t where the reader is past that step), the block in
the reader's hands those from d to t, and the pipe those from t to what was
written. It also says that a reader ends only when nobody holds the stream open
or the stream was closed under it, and what the caller knows at each of its
steps. `CaptureIsExact` is its reading at the return. The lemmas on `Places` say
what appending and cutting do to a run of consecutive numbers.

*Local workspace* (`LocalWorkspace5_proofs`). A ledger only ever changes by a
commit that withdraws some digests and adds some entries. One lemma for each
command says what it withdraws and adds (`RawIsOrdinary` to `ApproveIsPromoting`),
`EveryStep` collects them, and each property is then proved over seven forms of a
commit and the founding instead of over the commands. `LedgerInvariant` (entries well formed,
sources present, sessions sound in every version of them) comes first and gives
SessionsInOrder. `PolicyInvariant` adds that every policy descends from its
predecessor by a decision whose members are in the ledger. `LockOut` is an
action property: without trusted time only commits that do not ask for it are
possible. `ProtocolInvariant` says that protocols enter one at a time, so that
the one a result names is the registered one. `OnceInvariant` says that receipts
date from different generations and that what a promotion came from is spent;
`RunInvariant`, about runs in progress, gives it the launch of the run. An
approval names its projection, hence two promotions of one projection would be
one entry.

*Audit of a local workspace* (`Doctor5_proofs`). `AuditExplained` needs to know
of every entry what the command that added it had checked, possibly under
another policy and long ago. `DoctorInvariant` says what of that nothing undoes:
a signature verified at the time it was made (`Vetted`), a document's sources
are among its entry's sources, an attestation imported under the policy in force
is still valid or the time has advanced since, and the time receipt verifies
right after it was recorded (`Anchored`). A commit that moves neither policy nor
time (`Quiet`, one lemma per command) leaves the audit as it is (`QuietKeeps`);
`AdvanceKeeps` and `UpdateKeeps` are the two that move them: the receipt an
advance adds is newer than every attestation, and no attestation was imported
under a policy before it came into force, since its digest is new to the ledger. `OutputInvariant` (a run that ended has one of the outputs) is needed
for projected attestations, whose times come from outputs. `EachError` then reads
one explanation off for each kind of error.

*Documents* (`Documents6_proofs`). AuthorityStaysCurrent, CompromisedDoesNotCount
and PromotionTakesTwo are consequences of what the loader admits, in every state
whatever was committed: the last two without any invariant, the first from the
policy and time the workspace always has. `HistoryIsByClock` shows that sorting
events by their clocks leaves them in commit order exactly if no clock went
back: ranks in a finite total order are a bijection (`RankType`, `RankGrows`),
and the chain numbers fix it. `CompatibleIsRegistered` does the same for the
chain of amendments and reads the rest off assess_trial.

*Sessions* (`Documents6_proofs`). `SatisfiedSessionKept` is about the judgement
of a coordination session, a walk along the chain of its events and then a fold
over what the walk gathered. An induction over a recursive function is within
reach of these provers if the function is unfolded by hand (`ChainUnfolds`,
`OutcomeUnfolds`: its approximations exist, so what CHOOSE picks satisfies the
recursion) and the induction is the least counterexample (`LeastNumber`,
`UpTo`). The walk gathers growing numbers (`Gathered`), each event naming an
earlier one; if it gathered them all, the order is the order of admission
(`ChainInOrder`). Over that order `Kept` is inductive: what the state of the
judgement says has been committed, revealed, verified and delivered, and when,
is so of a prefix of the log, as long as no event broke the session
(`KeptStep`).

*Plans of the local planner* (`Doctor5_proofs`). `PoliciesHold` is a simulation.
A world `KeepsTo` a projected state when all the planner counts on is in the
world and all it measures is no worse there. The worlds after an outcome keep to
the projection of it (`WorldsKeepTo`), what `_safe_branch` accepts of a
projection holds in them (`SafeInWorlds`), and the children of a node are
planned for that projection, so every node that following a policy meets is met
in a world that keeps to what it was planned for (`FurtherIsMet`, `AllMet`, by
induction over the steps of the horizon). In the other direction the worst of
the worlds is the projection (`WorstWorld`), hence an action is refused as unsafe
only if an outcome is. The numbers come from attestations, so the theorem rests
on `DoctorInvariant`, which for this says of every attestation in the ledger
that it is one a principal may sign, under its own digest (`Genuine`). If two
attested actions have one identifier, explain_action_v5 answers for the first in
the ledger; the property says that one of those has an outcome that breaks the
contract.

Only model-checked, and why:

- QueuedIsServed and LocalEnds are liveness under fairness.
- StructureExact, RobustnessEarned, PlansHold, GrowthHolds, MeasuredIsReal,
  BeliefHolds and WorkflowsDeliver are about recursive searches: `Fractions6`,
  below every analysis of v0.6, and most of the modules up to `Workflows6`
  declare RECURSIVE operators, and the reference definitions quantify over all
  worlds, strategies or subsets of an instance.

## Assumptions and what is not modelled

- The clock does not go backwards (`datetime.now(UTC)` is wall time; nothing in
  the code guards against a step back). Clocks of audit events and the trusted
  time of a local workspace may.
- Digests do not collide and tokens do not repeat; signatures are trusted to the
  verifier.
- A gateway restart loses all its state (it is an in-memory conformance
  implementation), so there is no recovery to model.
- PostgreSQL's SERIALIZABLE isolation, S3's conditional put and the atomicity of
  `os.replace` are taken as their documentation promises. A power failure that
  undoes a rename is not modelled.
- Not modelled: authentication, telemetry, wiring, command lines, examples,
  scripts and deployment (no protocol state); the worker (it takes a row lock
  and stops); v0.1 to v0.4 of the local workspace (superseded by v0.5, which the
  command line uses); the linear programs of the analyses (out of TLC's reach);
  Windows job objects.

## What is left

1. The safety halves of `QueuedIsServed` and `LocalEnds`: what a waiting job or
   command depends on, as invariants of the same modules.
2. `Fractions6` without RECURSIVE (the greatest common divisor is its only one),
   which would let the audit and the bounds of `Science6` be proved about.
3. Flux coupling and the occurrence prefix of `core/structural_v5.py`.
