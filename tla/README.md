# A verification of LearnFlow's long-running work

The repository holds two programs. **Role Atlas** (`src/apps/role-atlas`,
TypeScript) produces versioned capability graphs of professional roles by runs
that last up to an hour, call models and web sources, and end in a new version
of a project: runs are leased, fenced, resumable and delivered by an independent
consumer, while users cancel, delete, switch and adopt. **LearnFlow**
(`src/backend` and `src/packages/learning-core`, Python) is a tutor whose work
goes on in the background as well: a worker that consolidates memory, a desktop
broker that lets coding agents change a learner's files, generations under a
lease, and tasks that write lectures while users edit them. This project models
the parts of both that outlive a request, in TLA+, checks them with TLC and
proves their safety with TLAPS.

Paths are relative to `src/apps/role-atlas` for the parts of Role Atlas, to
`src/backend/app` for `services/` and `api/`, and to
`src/packages/learning-core/src/learnflow_core` for `core/`.

## Inventory

| Part | State | Operations | What is hard |
|---|---|---|---|
| Job table (`lib/jobs/repository.ts`, `claim-transaction.ts`) | `role_jobs`: status, owner, lease, base version, checkpoint | claim, renew, checkpoint, complete, fail, cancel, assert | lease expiry against late writers; the order of three statements in one batch; conversations as mutual exclusion |
| Version commit (`lib/versioning/commit*.ts`) | `project_versions`, `projects.head_version_id`, `conversations.version_id`, `build_runs` | commit, adopt, restore an old version | one batch of compare-and-set statements, each with its own guard; a refused insertion does not roll it back |
| Durable dispatch (`lib/jobs/dispatch*.ts`, `app/api/internal/role-jobs`) | `role_job_dispatch`: state, deliveries, window, token, sealed request | enqueue, list, claim a delivery, settle, resume, queue follow-ups | settlements that come late; at most three deliveries; reconciliation after a crash |
| Job worker (`scripts/job-worker.mjs`) | open connections | poll, request, read the stream, settle | its own restarts; a broken connection detaches a run that goes on |
| Job runtime (`lib/jobs/execution.ts`, `runtime.ts`) | the abort signal, heartbeat and journal of an execution | start, beat, abort at one hour, journal, fail | the heartbeat outliving the run; a journal error hiding the failure handler |
| Production routes (`app/api/build-runs`, `snapshot-iterations`, `workspace-upgrades`) | the control state of a handler | claim, run, save, commit, complete, fail | every await is an interleaving point |
| Project lifecycle (`lib/projects`) | deletion mark, conversation mode | delete, restore, set mode | deletion under running work |
| Iteration run records (`lib/iteration/repository.ts`, `reaper.ts`) | `snapshot_iteration_runs` | start, checkpoint, complete, fail, reap | unguarded completion; the reaper reads, then writes |
| Automatic mounts (`lib/learning-path/automatic*.ts`) | `role_learning_mounts`, `role_learning_repairs` | enqueue, supersede, claim, request, retry | lease against an external request; attempt accounting |
| Intake, workspaces, releases, registry, hub | rows and immutable files | confirm, ingest, prepare, publish | short sequential protocols |
| Graph generation, research, presentation | none shared | pure functions around model calls | content, not control |
| Memory (`services/memory_worker.py`, `core/memory_graph.py`) | facts and their consumption, synthesis runs, module versions, claims, one worker's lock | record, queue, recover, reconcile, reserve, check, commit, release, retry, feedback | reserved facts outlive the worker; feedback lands between a check and a commit; updates written from rows read earlier |
| Local agent broker (`services/local_agent_broker.py`, `workspace_files.py`) | runs, workspace operations, the asyncio tasks, the agents' processes, the real files | delegate, isolate, launch, watch, collect, cancel, apply, roll back, set policy, restart | one effect on a disk that no transaction covers; the learner edits the same files; three parties end a process |
| Work-task conversions (`core/work_task_conversions.py`) | the conversion's row: brief, candidate, generation lease, selection; tickets | edit, clarify, generate, expire, hand over, ticket, consume | answers of models to a brief that has changed; three ways to hand over once |
| Background tasks (`services/task_manager.py`, `task_runners.py`, `api/tasks.py`) | task rows, the registry of coroutines, agent actions, lectures and their versions | insert, submit, attach, run, cancel, force, restart, save | cancellation at every await; whole columns written from old reads |
| Tutor, learning tasks and skill runs, review scheduling, accounts | request handlers over their rows | -- | not modelled, see the end |

Interactions. In Role Atlas a request claims a job (or enqueues it with a sealed
copy of itself). The consumer lists the deliverable jobs, claims a delivery, and
its internal request replays the sealed one through the same route, which claims
the job and streams its events. The run renews its lease by a heartbeat, saves
its result as a checkpoint, commits a version in one batch, completes the job;
the version's insertion enqueues a mount. All of them meet only in the database:
each D1 batch is a transaction, everything between two awaits of a handler is
not. In LearnFlow each service is one process with an event loop over SQLite:
requests insert rows that coroutines or a separate worker process work on, and
the two meet in rows, in a registry of coroutines and, on the desktop, in the
learner's files.

`PROJECT.json` lists the components, and the hazards at their lines with the
properties that cover them.

## Modules

| Module | Models |
|---|---|
| `ConversationLock` | what the job table promises to a conversation: a lock that expires, and results that only its holder publishes, once |
| `RoleJobs` | the job table, the version commit and adoption, the executors of builds and iterations, users, crashes and time |
| `RoleDispatch` | extends `RoleJobs` with the dispatch table, the internal route and the consumer |
| `IterationRuns` | extends `RoleJobs` with the run records of iterations and their reaper |
| `LearningMounts` | the outbox of automatic mounts and the repairs it starts, over an abstract job table |
| `MemorySynthesis` | facts, synthesis runs and module versions of one subject, the workers, requests and feedback |
| `LocalAgentRuns` | one workspace, its runs, their executors and processes, cancellation, application, policy |
| `WorkTaskConversions` | one conversion, its generations, clarifications, handoff and tickets |
| `BackgroundTasks` | task rows and coroutines, with the generation of one lecture and the users who edit it |
| `RoleJobsProofs` | theorems about the job table, and that it implements `ConversationLock` |
| `RoleDispatchProofs` | that the consumer keeps what is proved of the job table, and what it adds |
| `IterationRunsProofs` | theorems about run records, and that `IterationRuns` implements `RoleJobs` |
| `LearningMountsProofs`, `MemorySynthesisProofs`, `LocalAgentRunsProofs`, `WorkTaskConversionsProofs`, `BackgroundTasksProofs` | theorems about the module they are named after |
| `MC...` | instances for TLC |

### RoleJobs

`job`, `conv`, `project`, `versions` and `buildRun` are the tables; `exec` is
the control state of the executors, where `pc` names the await a handler stands
at. SQL statements are operators on table values, so that `ClaimBatch` is
literally `TakeStmt` after `InsertStmt` after `ExpireStmt`, and `CommitVersion`
shows which statements of the commit carry the lease fence (`RunAfterCommit`,
`InsertsVersion`) and which do not (`MovesTo`). One action stands for one
statement or batch, with the reads that the code makes in the same step:
`Claim`, `StartRun`, `OpenStream`, `Finish`, `SaveResult`, `AssertLease`,
`LookUpVersion`, `CommitVersion`, `RecordRun`, `Complete`, and on failure `FailRun`, `FailJob`.
`HandlerError`, `PrepareError` and `Crash` take an executor out of that order at
any await. An error goes where the code would catch it: one inside a build's
`journal.commit` never reaches `failBuildRun` (`ErrorPc`), while that of the
assertion before it (`app/api/build-runs/route.ts:217`) does. `Heartbeat`, `LapseLease`, `CancelJob`, `DeleteProject`, `RestoreProject`,
`SetMode`, `AdoptHead`, `AdoptInto` go on beside the executors.

Abstractions, each on purpose:

* *Time.* A lease is `live`, then `expiring` (expired by the clock, yet a writer
  that drew its `now` before storing a large result still passes the fence),
  then `lapsed`. It may lapse at any step, so that 45 seconds, 15 seconds and
  the hour are covered for every relation between them. The abort at the hour is
  `HandlerError`.
* *Content.* Versions are named by the run that wrote them (there is a unique
  key on it); `Root` is whatever version a conversation began with. Results are
  reduced to what they end in: a version to adopt, one kept for review, or a
  draft without version.
* *Owners.* A claim draws a fresh UUID. With finitely many executors, the
  identity of a dead one is used again once no running row names it (`Fresh`).
* *One owner of the project.* The `owner_subject_id` and `actor_json` conditions
  are true of the one user that is modelled; payload comparisons of
  `input_json` are between a job and itself. The insertion fence of intake and
  the version event log are left out.
* *Runs.* All runs are research runs that save their result before they commit.
  The checkpoint `kernel.commit` of a build, which writes the same result again,
  is merged into `SaveResult`. An iteration always ends in a version, for review
  when it changed nothing. The events an executor publishes are not modelled,
  only that a journal error may hide the failure handler (`recorded` in
  `FailRun`) or close the journal (`ErrorPc`).
* `waiting_user` is read by many statements but written to `role_jobs` by none;
  the type allows it, no action produces it.

### RoleDispatch

`dispatch` is the table; `delivery[e]` is the connection of the consumer that
executor `e` serves. `ListBatch` composes the statements of
`listDispatchableJobs` in their order: `Reconcile`, `StopMoved`,
`StopExhausted`, then the states of the rows (`Followed`). `ClaimDispatch`
evaluates `Eligible` again, so that the list itself need not be remembered.
`SettleRejected` merges the two updates of one settlement: the second writes
columns of a row that only the token's owner writes. `Resume` checks neither the
deletion nor the result of its authorisation in its batch, as in the code.

In `RoleJobs` itself a request for any job may come at any time; that a build's
comes only from the consumer is part of `RoleDispatch`.

### IterationRuns

`iterRun` is the status column of `snapshot_iteration_runs`, `snapshots` the
stored snapshots. `recorded[e]` refines the executor of `RoleJobs` between its
last lease assertion and its look-up of the version, where
`completeSnapshotIteration` runs two transactions (`StoreSnapshot`,
`RecordIteration`). The reaper's reads and its updates are separate steps
(`ReadRuns`, `DecideRuns`, `Interrupt`), since nothing but `status='running'`
guards the updates; which runs were silent for 90 minutes is chosen freely. The
other steps of `RoleJobs` are taken as they are. Only iterations have such a
record of their own, so the module assumes `Builds = {}`.

### LearningMounts

`mount` and `repair` are the two tables, `exec` the executions of the mount
route. The job table, the versions and the conversation appear as the
environment, reduced to what the statements here read of them: `StartJob`,
`RunJob`, `WriteVersion`, `EndJob`, `Adopt`, `SwitchMode`, `Delete`, `Restore`
have the guards that `RoleJobs` gives them. `WriteVersion` leaves the outbox row
in the transaction of the version (`Enqueued`).

A listing is four statements, `Supersede`, `SettleRepairs`, `StopMovedRepairs`
and `StopExhaustedRepairs`, which are actions of their own because the listings
of a consumer and of the one that replaces it overlap. An execution takes either
the way of a mount (`ClaimMount`, `Pack`, `Check`, `Requeue`, `RequestMount`,
`StoreReceipt`, `FailMount`) or, when the mount was answered with gaps that
research may close, the way of a repair (`ReadReceipt`, `InsertRepair`,
`LookUpJob`, `SettleSeen`, `ClaimRepair`, `Prepare`, `EnqueueRepair`,
`MarkQueued`, `ReleaseRepair`). Several executions run at once although the
consumer has one slot: a connection that timed out leaves its execution behind. Two
things about the repairs are easily overrated. The version of a repair asks for
no further repair (`RepairsDoNotBreed`), because `eligibleAutomaticRepair` looks
for a repair with its run; a version that the user makes from it is the user's,
and may be repaired. And `StopMovedRepairs` leaves the lease of a repair that is
being prepared, so that this stop is not final: `ReleaseRepair`, which asks for
the lease only, can write pending over it. What does hold is `GivenUpStays`: a
repair that was stopped with nobody holding its lease, before its job existed,
stays stopped.

Abstractions: one conversation, hence one owner; the central service answers with
one of three receipts or one of two faults; the backoff is left to the scheduler;
the compiled package is not remembered, only whether compiling succeeded; whether
the source job's authorisation is found and confirmed is chosen freely
(`Prepare`). A version and its mount are named by the job they are of.

### MemorySynthesis

`fact` is a memory node with its fact row (`use` is the consumption state,
`holder` the run that reserved it, `by` the run that consumed it), `run` the
synthesis run, `module` the version that a run made with its node and claims.
`worker[w]` holds what a worker has read: it goes through `Start` (the lock of
the data volume, and the reads of `recover_interrupted_runs`) and `Recover` (its
writes), `ReconcileRead` and `ReconcileWrite` (the scan for missing runs),
`ReadInputs`, `Reserve`, `Check` (the reads before the commit) and then `Commit`
or, where the check fails, `Release`, and `Die` at any step. `Recover` and
`Release` write the facts that were read before the lock was taken (`held`): a
fact the learner withdrew in between is set eligible again, as in the code, while
its node stays withdrawn.
`RecordEvent` is a request that writes a fact and queues a run from what it then
sees (`QueuePlan`: the trigger rules, the evidence, the fingerprint, the
retargeting of a queued run; the branch that queues a failed run with attempts
left again is unreachable, since a run fails only at the last attempt, which
`MemoryTypeOK` says); `FeedbackRead` and `FeedbackWrite` are a feedback
request, which reads the claim before its first write.

The database decides what is one step. SELECTs see the last commit; the
writer's lock is held from a transaction's first write to its commit; an UPDATE
carries the columns whose value changed. A transaction that begins with a write
is therefore one action, one that first reads is two, and `Planned` merges only
the changed columns into the row as it is by then.

Abstractions: one subject, whose kernel has the trigger rules of the value
kernel; an event makes one fact; a fingerprint is its evidence; drafts are what
claims rest on (nothing, all evidence together, or one claim per fact,
`Drafts`); what the model writes in them is not modelled; time is the bit that
a run is due.

### LocalAgentRuns

`disk` is the content of the real files, up to equality of hashes: the original,
an edit of the learner, or what a run wants there. `task` is the executor
(`Begin`, `Isolate`, `Launch`, then a process that exits or is interrupted,
`Refresh`, `Collect` (the policy is checked), `Store` (the result is committed),
or the two steps of a failure), `process` the agent,
`cancel` the four steps of `cancel_run` (read, write, kill the process, cancel
the task), `apply` the requests of `apply_run_result`: `ApplyRead`, `ApplyLock`
(the UPDATE that takes the writer's lock), `ApplyStale` or `ApplyBegin` (all
hashes, all backups), one `ApplyFile` per file, `ApplyCommit` or
`ApplyRollback`: of a file that cannot be replaced, or of a database that fails at
any point of the batch up to and including the commit (`MaxErrors` bounds such
failures). `UserEdit`, `SetPolicy` and `Restart` go on beside it.

Abstractions: one workspace and one stage; the hash check of a file and its
replacement are one step, as is the copying of the workspace (the code copies
and hashes in one thread without locks), as are a batch's rollback, which gives
the writer's lock back, and the restoration of its files, which follows without
an await; a move is a deletion and a creation;
the learner confirms every deletion; what an agent does inside its copy is the
change it leaves, chosen freely in `Store`.

### WorkTaskConversions

The row is spread over `revision`, `brief`, `state`, `candidate`, `generation`,
`selection`, `project` and `session`. Handlers that change it begin with an
UPDATE, hence hold the lock when they read: `UpdateBrief`, `Generate`, `Expire`,
`Handoff`, `IssueTicket`, `ConsumeTicket`, `ExpireTicket` are one step each. The
clarification (`MessageRead`, `MessageWrite`, `MessageRefused`) and the
generation (`TaskRead`, `TaskStore`, `TaskFail`) call a model between a read and
a write. `Lapse` is the clock reaching the lease, `Restart` takes the background
tasks with it. `Materialize` is shared by handoff and ticket, as in the code.

Abstractions: the content of a brief is the revision that wrote it, and whether
a field is missing; the candidate is known by its generation and mode; requests
that fail an optimistic check or repeat an answered action change nothing and
have no action.

### BackgroundTasks

`request[t]` is a request between its commits (`LookUp`, `Insert`, `Submit`, and
`Attach` when it comes from the tutor), `runner[t]` the coroutine of
`_wrap` around `run_lecture_generation` (`Start`, `Plan`, `Open`,
`WriteSection`, `Load`, `Publish`, `Complete`; `Fail`, `MarkFailed`; `Interrupt`,
`MarkCanceled`; `Finalize`), `canceller` the requests that found no coroutine.
`Cancel`, `ForceCancel`, `CancelAction`, `Save` and `Restart` are the users and
the service. A cancelled coroutine gets its exception at the await where it
stands; one that took no step yet never enters its `try`, and one whose row was
written by a handler of the manager (`closing`) ends with its action still
running, whereas one whose row was written by the run (`finalizing`) goes on into
the manager's handler. A failure while an action is finalized likewise sends a run
to that handler, which then marks a completed row failed, and ends a handler. The
database is assumed to take the status that a handler of the manager writes.

A section is known by the outline of its title and by the edit of its text;
`Placed` pads with `None` as the list in the code is padded, and `Dense` drops the
gaps as the teaching gate does before a lecture is published. `versions` says
which edits some `LectureVersion` holds.

Abstractions: one checkpoint; the contract passes the teaching gate; the
comparison of a save's base version and its write are one step (one user, one
editor); a rollback is a save; the bookkeeping of usage and events is left out.

## Runs

| Run | Instance | Shows |
|---|---|---|
| `RoleJobs_scope` | an iteration and a build of one conversation, two executors; every incident | jobs exclude each other; versions and results are written under their owner only, references resolve, running jobs only move their heads forward; `RoleJobs` implements `ConversationLock` |
| `RoleDispatch_two` | a build and an iteration of one conversation, one executor, one delivery; every incident but adoption | exclusion of durable jobs; a queued job is deliverable; a late settlement does not undo a resumption; what ended stays ended |
| `RoleDispatch_live` | an iteration, crashes at any step, two executors, two deliveries, fairness | queued jobs leave the queue, orphans come to an end, a committed iteration is completed |
| `IterationRuns_safe` | one iteration, two executors, every incident, fairness | run record, snapshot and version agree; a run whose job is over is not shown as running forever |
| `LearningMounts_safe` | one user job, its repair and that one's would-be repair, two executions, two attempts of each, mode switches, adoptions, one retry | receipts stand; repairs follow their jobs, their versions ask for no repair, and what was given up stays so |
| `LearningMounts_live` | a user job and its repair, one execution that may crash, adoptions, deletion, fairness | the final version's mount comes to an answer; repairs come to an end |
| `MemorySynthesis_safe` | three facts, four runs, two workers of which one may die, one refused commit, retracting feedback, fairness | reservations, the chain of versions and consumption are sound; runs end; withdrawn evidence leaves the active version |
| `LocalAgentRuns_safe` | one run over two files, two requests to apply, two edits, two policy changes, one restart, one failure of the database, fairness | batches write only over what the agent saw and under the policy that was confirmed, and are recorded; processes are watched; everything ends |
| `WorkTaskConversions_safe` | four revisions, two generations of three modes, a message, two tickets, one restart, fairness | candidates are current, handoffs agree, edits are neither lost nor let in late, generations end |
| `BackgroundTasks_safe` | two tasks of one checkpoint, one of the tutor, two sections, one edit, one cancellation, one restart, fairness | tasks that nobody cancels end, none is orphaned by a crash or failure; an undisturbed lecture is published whole |
| `LocalAgentRuns_edits` | two files, one edit | violated: the rollback of a batch overwrites an edit |
| `BackgroundTasks_edits` | two tasks, one edit | violated: a generation overwrites a saved edit that no version has |

### Bounds

Two jobs are what the mutual exclusion of a conversation is about; two executors
are what a lease is about: one that lost the job and its successor.
`Incidents` names the user and fault events that an instance lets happen; between
them the runs have all of them. `RoleJobs_scope` has them all, under the constraint
`IncidentsAlone` of its instance: jobs are cancelled, the project deleted, the mode
switched and the head moved away from the conversation's version while there is
only one job, with two executors; `RoleDispatch_two` has all but the last with two
jobs and one executor. `MaxDeliveries` is 3 in the code and 1 or 2 here, the
least at which a delivery can be the last, and follow another. The code's limits
of eight and three attempts of mounts and repairs are two, the least at which a
lease can pass from one execution to another; `MaxFaults` bounds crashes and
requests to mount again together. The instances of `LearningMounts` have one
chain, a version and its repair's: an older mount that waits while a newer one
of the user exists, which `Supersede` is about, needs a second job of the user;
here the statement only shows that it spares the mount of the newest version.

In `MemorySynthesis_safe` three facts suffice for a first module, a refinement,
a retraction of either's evidence and the retargeting of a queued run; runs have
distinct fingerprints, and four are enough for those that three facts produce.
With more facts than `EligibleLimit` allows into one run, a queued run can be
retargeted between a worker's read of it and its reservation: the worker then
reserves the candidates it has read, while its commit consumes those that the
row names by then. The recorded delta differs from the evidence that was
analysed, and a fact reserved by the old candidates stays reserved after its run
has completed. `ReservedIsHeld` states that exception and no other; an instance
with three facts and limits of one shows that it happens, and that the other
properties of the run hold there as well. In the instance of the run it does not
happen.
In `LocalAgentRuns_safe` one run suffices, since what another run applies is, to
this one, an edit; two files are the least a half-written batch has. Two
generations are an old one and its successor; two tickets race one another. Two
background tasks are a generation and the one that resumes or duplicates it.

Executors are interchangeable, and symmetric in the runs that check no liveness.
Deadlock is checked in the Role Atlas runs, where somebody can always go on. It is
not in those of the Python services: once the bounded requests, edits, deaths
and cancellations are used up those systems rest, as they do in reality.

### Fairness

`RoleDispatch!FairSpec`: the consumer's loop polls every five seconds (`WF` of
the listing); a connection is answered and every call of a run returns or is
aborted at its hour (`WF` of each executor's delivery); a delivery that is again
and again claimable is claimed (`SF`, since a listing and a claim are two
requests and a job may be taken from the list between them); windows and the
leases of dead executors lapse, because time passes. Nothing is assumed of users,
of faults, or of the heartbeat of a live executor. `LearningMounts!FairMountSpec`
assumes the same of the mount slot, and that nothing is owed by users, jobs or
faults; its properties say what follows once these have come to rest.
`IterationRuns!FairIterSpec` assumes that somebody keeps opening a page that
reads the latest run, which is what calls the reaper.

`MemorySynthesis!FairSpec`: the worker's loop goes on, a dead worker is started
again (the deployment restarts it), due times pass. `LocalAgentRuns!FairSpec`:
the event loop runs executors and requests to their next await, and a process
ends or times out. `WorkTaskConversions!FairSpec`: a lease's time passes, and
the page that waits for a generation polls it, which is what expires it; nothing
is assumed of the task. `BackgroundTasks!FairSpec`: the event loop runs requests
and coroutines. Edits, feedback, cancellations, deaths and restarts are never
owed.

## Proofs

Every safety invariant and every action property that a run checks is proved for
all values of the constants, and so are the three refinements (`RoleJobs` and
`RoleDispatch` of `ConversationLock`, `IterationRuns` of `RoleJobs`). Each module of
proofs has one inductive invariant (one lemma for its first states, one for its
steps) from which its theorems follow; each invariant was checked by TLC on an
instance before it was proved. The assumptions are those of the modules:
constants are natural numbers where they count, names that must differ differ,
and what follows.

`RoleJobsProofs`, from `ConstantsAssumption` (a claim's owner is not the null
owner, jobs and versions are named apart, the conversation of a job is one). Most
lemmas are about `Work`, the steps of the job table whether or not users may
stream runs of their own, so that they serve the consumer as well.

* `TypeCorrect` -- `Spec => []TypeOK`, one lemma per group of actions, with
  lemmas for each statement of the claim batch (`ExpireTable`, `InsertTable`,
  `TakeTable`, `ClaimTable`).
* `ScopeCorrect` -- `Spec => []ClaimScope`: `OneActiveJob` and
  `ActiveInIterationMode`. Neither is inductive without the types, and the second
  is needed with the first since a claim relies on both halves of its scope.
  `ScopeInv` is their conjunction. The argument is about which statements can
  make a row active: every other step only takes rows out of the active states
  (`Fewer`), and a statement that adds one (`OneMore`) has just checked that no
  other is active in the same table value.
* `WritesAreFenced` -- `FencedWrites`, from `VersionsAreFenced` and
  `CompletionIsFenced`: an executor that lost the lease writes no version and
  completes no job. `TerminalStay` -- `TerminalJobsStay`, from `Ends`, the lemma
  that says what a step may do to the status of a row.
* `VersionsExist` -- `Spec => []VersionsResolve`. `RunsInv` adds `ResultInv` to
  it: what a row says of its result (`RowsOK`), what a version says of its row
  (`VersionsOK`), and what an executor at each `pc` knows of the job it still owns
  (`ExecOK`), for example that an iteration between its last lease assertion and
  its commit goes on with the saved outcome even after it lost the lease. A step
  of one executor leaves this knowledge of another alone because it leaves the
  row alone (`SameRow`), is the claim (`ClaimExec`), or saves a result under the
  lease that the other does not have (`OtherNext`).
* `MovesForward` -- `RunningMovesForward`, by `MoveStep` from the same invariant:
  while a job runs, its conversation steps only to a child, finished to be
  adopted, that was there before or is the version the job itself makes. The first
  case includes the late batch of a replaced executor, which no lease stops.
* `ImplementsTheLock` -- `Spec => ImplementsLock`, that is
  `Spec => Lock!LockSpec` under the refinement mapping at the end of `RoleJobs`.
  `HolderIs` makes the `CHOOSE` of the mapping unique by `ScopeInv`; then each
  change of the tables is one of `AsTake`, `AsRenew`, `AsExpire`, `AsPublish`,
  `AsFree` or `AsStutter`. A claim frees an expired holder and takes the
  conversation in one batch, hence is a `Take` of the lock.

`RoleDispatchProofs`, with at least one delivery. Every step of `DNext` leaves the
tables of the jobs alone, is a step of `RoleJobs`, a claim, or a `TableStep`: a
statement of the consumer or of a durable request on the job table (`StepKinds`).
`DispatchInv` is `ScopeInv`, the types, `ConnectionsOK`, and `RowFollows` for
every row: a row exists for a job that exists, is open while the job is queued, and
carries a delivery's token only when a delivery was counted. From it follow `DispatchTypeCorrect`,
`DispatchScopeCorrect`, `QueuedJobsAreDeliverable`, `FreshJobsStopByScope`
and `DispatchTerminalStay`. A `TableStep` keeps the result and base of every row
and starts nothing (`TableKeeps`), so that `RunsInv` is preserved as well:
`DispatchVersionsExist`, `DispatchVersionsFenced`, `DispatchMovesForward`, and
`DispatchImplementsTheLock`, in which a listing that stops and completes jobs of
several conversations at once is one `Free` (`FreeMany`). `FencedCompletion` is
not among them: a listing completes a job without owning it, if its version
exists.

`IterationRunsProofs`, for `Builds = {}`. `IterationsAreRuns` is
`IterSpec => Spec`: leaving out the records, each step is one of `RoleJobs` or a
stutter, whence `IterationsKeepTheLease`. `IterInv` adds to `RunsInv` that a
version has a final result (`VersionsAreFinal`), `VersionHasRun`, and
`RecordOK(e)`: what an executor has written when it looks for its version and
when it commits. `IterTypeCorrect`, `VersionsHaveRuns`, `IterVersionsExist` and
`CompletedRunsStay` follow; the last three are about four writers of one row.

`LearningMountsProofs`, with a finite set of jobs (mounts are numbered) and
attempts of at least one. `MountInv` is `MountTypeOK`, `RepairsAreSound`, who owns
what (`OwnersOK`), where everything comes from (`OriginsOK`: a mount from a
version, a repair from a mounted version, its job from the repair), and
`ExecutionOK(e)`: what an execution has read of the mount may be stale, but what it
is about to write of the repair's job holds when it writes it. `MountTypeCorrect`, `RepairsStaySound`,
`ReceiptsStay`. `GivenUpRepairsStay` needs the invariant as well: `ReleaseRepair`
and `MarkQueued` write over any status of a repair they own, and `SettleSeen` over
any at all, so that nothing brings a given-up repair back is a matter of who owns
what and of what each execution has seen of the job.

`MemorySynthesisProofs`, with at least one attempt per run. `MemoryInv` has seven
parts. `ChainOK` says that there is a latest version and that the others precede
it; `WorkersOK` says what a worker may rely on at each `pc` -- one worker at a
time, a run that is still queued or running under it, a row that makes the next
version (`IsNext`) of facts nobody has consumed, and what it is about to free is
still what it may free. That last part is why no request
may change a running row, and it needs both `FactsOK` and `ReservedIsHeld`.
`AttemptsOK` bounds the attempts by those allowed and one per death.
`MemoryTypeCorrect`, `RunsStaySound`, `FactsAreConsumedOnce`.

`LocalAgentRunsProofs`. `LocalInv` is `AgentTypeOK`, `ProcessHasTask` and `Safe`:
one batch at a time (`OneBatch`), no run starts from its own result (`BaseInv`),
a run that has copied nothing has changed nothing (`EarlyInv`), a batch that is
being written has the grant and backups equal to what the agent saw
(`BatchInv`), and every file that shows a result is recorded or in the batch
that will be (`RecordInv`), including those a rollback would bring back.
`AgentTypeCorrect`, `ProcessesAreWatched`, `OperationsRecordFiles`,
`WritesAreAllowed`.

`WorkTaskConversionsProofs`, from `ConversionAssumption`. `ConversionInv` has five
parts that need one another:

* `ConversionTypeOK`, unbounded in revisions, projects and imports;
* `DraftInv` -- `GeneratedIsCurrent`, and a conversion that was handed over is
  in state "generated";
* `TargetInv` -- what each kind of handoff has left behind: nothing selected,
  nothing made; a discussion has a session and no import; a creation has exactly
  one import. `OneProject` follows, and is not inductive alone, since a second
  handoff after a discussion must know that the first one imported nothing;
* `TicketInv` -- `TicketsImport`, and that tickets are issued for creations only;
* `ReadInv` -- what a generation or a clarification has read is still what the
  row says as long as the check before its write passes. This is what makes the
  candidate current although the database was let go of meanwhile.

From it follow `ConversionTypeCorrect`, `CandidateIsCurrent`, `HandoffsCorrect`
and, as action properties, `EditsAreKept` (`HandoverIsFixed`,
`ClarificationKeepsEdits`).

`BackgroundTasksProofs`, where tasks and editors are not called "none", "blank" or
"user". `BackgroundInv` is the types with at most as many sections as an outline
has, `RowsOK` -- a generation that ran alone has written the sections before its
next one under its own plan, and publishes what it has read -- and `OwnersOK`: who
has each task in hand. `BackgroundTypeCorrect`, `PublishedStaysWhole`, and
`TasksAreOwned`, the safety behind `TasksEnd`: an active task that nobody has
cancelled is never left without its request or coroutine.

Only model-checked is liveness, since fairness and ENABLED are out of the prover's
reach: `JobsSettle`, `CommittedIsReconciled`, `ClosedJobEndsRun`, `MountsSettle`,
`RetractionPrevails`, `RunsSettle` (of the memory and of the agents),
`GenerationsEnd` and `TasksEnd`; and the two properties that are violated.

## Disagreements between code and documents

* `LocalAgentRuns_edits`: all files of a result are compared and backed up before
  the first is replaced. An edit that the learner makes between that and the
  replacement of its file is noticed, and then overwritten by the rollback of the
  others, which restores every backup.
* `BackgroundTasks_edits`: a runner rewrites the lecture from what it read, and
  snapshots only a published one that it starts afresh over. An edit saved
  meanwhile, or saved into a draft that a failed run left, is lost without a
  version, against the docstring of `LectureVersion`.

Kept as hazards without a run, because the models take these steps and the
documents say something else, or nothing:

* The lease fence guards the insertion of a version but not the compare-and-set
  of the heads (`commit-transaction.ts:47`). One executor loses its lease while
  it commits, the second commits the same run and completes, the user adopts
  another version and then the base again, and the first one's batch moves the
  head.
* A listing stops a repair whose conversation has left, and writes the reason;
  `docs/automatic-learning-mount.md:21` says that a change of version or mode stops
  the continuation. The execution that is preparing the repair keeps its lease;
  its transient failure puts the repair back to pending
  (`lib/learning-path/automatic-research.ts:93`), and once the conversation is back
  the repair is claimed again and its job inserted.
* A build aborted by its deadline is marked cancelled for good, and the user is
  still offered to continue it (`app/api/build-runs/route.ts:238`).
* A heartbeat started before the stream is not stopped when the preparation of
  the stream fails (`app/api/build-runs/route.ts:163`).
* The completion of an iteration run overwrites the cancellation that the
  deletion of its project wrote (`lib/iteration/repository.ts:69`); the reaper may
  interrupt the row of an executor with a valid lease, which that same completion
  repairs.

Met on the way:

* A mount whose last attempt dies with its process stays `running` for ever; a
  superseded mount stays so when its version is adopted again; a repair whose
  enqueueing was answered too late is shown as stopped although its job completed.
* A listing marks a dispatch row failed; a client that re-claims its job by
  streaming and dies leaves a job that is never delivered again.
* A fact whose run was retargeted at the wrong moment stays reserved by a run that
  has completed, and no later run takes it (`core/memory_graph.py:758`, the
  exception in `ReservedIsHeld`), whereas `docs/FIVE_KERNEL_MEMORY_GRAPH.md:166`
  has every reservation end with its run.
* A synthesis run that ended keeps its fingerprint, so that evidence which returns
  to the same set queues nothing (`core/memory_graph.py:741`, the exception
  `GivenUp`); a refused commit leaves its run running until the next restart; the
  scan after a start is outside the loop's `try` and may kill the worker.
* A batch that dies with the desktop service leaves files without operations;
  `cancel_run` can be overwritten by `running` or `completed`; a second request to
  apply writes `stale` over `applied`; deletions and moves do not compare hashes
  again, but keep the content.
* A background task cancelled before its coroutine's first step stays queued
  until a forced cancellation or a restart (`services/task_manager.py:143`); an
  action tied to a task that has just ended, or whose finalization a crash
  prevented, stays running; a save with fewer sections lets the runner pad with
  `None`, on which every resumption fails; two generations can be inserted at
  once, and a third request then fails.
* In the handlers that are not modelled: the rollback of a lecture ends with a
  name that is not defined (`core/api/phase2.py:570`); a blocked contract publishes an
  empty lecture (`services/teaching_contract.py:254`); the expected version of a
  learning task is compared in Python (`services/learning_tasks.py:1524`), and a
  paused skill run resumes beside an active one
  (`services/learning_skill_runtime.py:2368`).

## Plan

What is left, in order of value:

1. Learning tasks and skill runs: the version protocol of a task's contract, and
   the runs of a session (pause, resume, restart) in a module of their own.
2. `BuildFollowups`: the sealed envelope, its clearing and the follow-up jobs of a
   completed build (`dispatch.ts`, `app/api/build-runs/enrich`).
3. `LearningMounts`: a second conversation of the owner, whose mounts exclude each
   other.
4. `MemorySynthesis`: a second subject, and kernels with other trigger rules.
5. Proofs: that the job table which `LearningMounts` assumes as its environment is
   one that `RoleJobs` implements; the safety that liveness rests on elsewhere, as
   `TasksAreOwned` is for background tasks (a mount that is running has an owner or
   attempts left, a generation that is running has a lease).

## Not modelled

Content generation, research, search, presentation and packaging are functions of
documents, without concurrent state. Releases, registry and hub publication are
short sequential protocols over immutable files. Accounts, review scheduling and
the tutor's turns are request handlers that change the rows of one learner at a
time around calls of models; the architecture registry and similar services are
tables of descriptions. Learning tasks and skill runs are the largest part with a
protocol that is not modelled yet. The reasons are listed per component in
`PROJECT.json`.

Most of the repository's code is of this kind, so that the lines the definitions
map to are a small share of it, and will stay so: of some 140,000 lines of
Python a large part is the desktop backend, a copy of the server's, and the rest
is mostly prompts, schemas, serialisation and content. Counted by Python lines
the share leaves out Role Atlas, which is TypeScript and where four of the models
have their source.
