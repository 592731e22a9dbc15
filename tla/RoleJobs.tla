------------------------------ MODULE RoleJobs ------------------------------
(***************************************************************************)
(* The Role Atlas job table: leased, fenced, resumable execution of the    *)
(* long production runs of one project (apps/role-atlas/lib/jobs) together *)
(* with the version commit that a run ends in (lib/versioning).            *)
(*                                                                         *)
(* Every SQL statement is an operator from a table value to a table value, *)
(* so that a batch -- one D1 transaction -- is a composition of them, in   *)
(* the order of the code.  An executor is the code of a route handler      *)
(* after its claim; it interleaves with every other executor, with users   *)
(* and with time at each await.  Durations are abstracted: a lease is live *)
(* until some step lapses it, and it may lapse at any moment.              *)
(***************************************************************************)
EXTENDS Naturals

CONSTANTS
    Jobs,           \* role_jobs.id, which is also the run id
    Builds,         \* the jobs of kind cold_start; the others are iterations
    Conversations,
    ConvOf,         \* role_jobs.conversation_id, immutable once inserted
    Executors,      \* lease owners; a claim draws a fresh one
    NoOwner,
    NoJob,
    Incidents,      \* bound: which of AllIncidents an instance lets happen
    Root            \* the version every conversation is pinned to at first

\* Users stream runs of their own, cancel and resume jobs, delete and restore
\* the project, switch the mode of a conversation and adopt versions; an
\* executor dies, or fails before its stream opens.
AllIncidents == {"stream", "cancel", "resume", "delete", "mode", "adopt",
                 "crash", "prepare"}

ASSUME ConstantsAssumption ==
    /\ Builds \subseteq Jobs
    /\ ConvOf \in [Jobs -> Conversations]
    /\ NoOwner \notin Executors
    /\ NoJob \notin Jobs
    /\ Root \notin Jobs
    /\ Incidents \subseteq AllIncidents

VARIABLES
    job,            \* role_jobs, by id
    conv,           \* conversations: mode and pinned version
    project,        \* projects: deletion mark and head version
    versions,       \* project_versions, named by their source run
    buildRun,       \* build_runs.status of each run
    exec            \* the executors' control state

tables == <<job, conv, project, versions, buildRun>>
vars == <<job, conv, project, versions, buildRun, exec>>

-----------------------------------------------------------------------------
(* Rows *)

VersionId == Jobs \cup {Root}
Active == {"queued", "running", "waiting_user"}
Terminal == {"completed", "cancelled"}
Status == {"absent", "failed"} \cup Active \cup Terminal

\* What a run ends in: a version to adopt, a version kept for review, or for
\* a build an unfinished draft without a version.
Outcome == {"none", "adopt", "review", "draft"}

\* A lease is live, then expired; while it is expiring, a writer in progress
\* still compares with an earlier time.
Leases == {"live", "expiring", "lapsed"}

\* "final" is the outcome saved by the research.commit checkpoint.
JobRow == [status : Status,
           owner  : Executors \cup {NoOwner},
           lease  : {"none"} \cup Leases,
           base   : VersionId,
           final  : Outcome]

NoRow == [status |-> "absent", owner |-> NoOwner, lease |-> "none",
          base |-> Root, final |-> "none"]

\* Where the code of a handler stands after its claim.
ExecPc == {"claimed", "preparing", "working", "reporting", "saving",
           "looking", "committing", "completing", "closing", "failing",
           "releasing", "leaked"}
IdleExec == [job |-> NoJob, pc |-> "idle", outcome |-> "none"]
ExecState == {IdleExec} \cup [job : Jobs, pc : ExecPc, outcome : Outcome]

RunStatus == {"none", "running", "completed", "failed", "cancelled"}

-----------------------------------------------------------------------------
(* Conditions of the WHERE clauses *)

\* The project is live and the conversation is still an iteration
\* conversation pinned to version b.
ScopeOpen(c, b) == /\ ~project.deleted
                   /\ conv[c].mode = "iteration"
                   /\ conv[c].version = b

\* No other job of the conversation of j is active in table t.
NoOtherActive(t, j) ==
    \A k \in Jobs \ {j} : ConvOf[k] = ConvOf[j] => t[k].status \notin Active

\* A running row whose lease_expires_at has passed.
Lapsed(row) == row.status = "running" /\ row.lease \in {"expiring", "lapsed"}

\* The row of j names e as its executor.
Owns(e, j) == job[j].status = "running" /\ job[j].owner = e

\* assertRoleJobLease reads at the current time.
Holds(e, j) == Owns(e, j) /\ job[j].lease = "live"

\* Mutant: the fence forgets to compare the owner.
FenceWithoutOwner(e, j) ==
    job[j].status = "running" /\ job[j].lease \in {"live", "expiring"}

\* The lease fence of a write: e owns the running row and its lease has not
\* expired at the time compared with, drawn before a large result was stored.
Fence(e, j) == Owns(e, j) /\ job[j].lease \in {"live", "expiring"}

Taken(row, e) ==
    [row EXCEPT !.status = "running", !.owner = e, !.lease = "live"]

Released(row, st) ==
    [row EXCEPT !.status = st, !.owner = NoOwner, !.lease = "none"]

-----------------------------------------------------------------------------
(* roleJobClaimStatements: one batch of three statements *)

\* Mutant: the expiry fails running rows whatever their lease.
ExpireLiveStmt(t, c) ==
    [k \in Jobs |-> IF ConvOf[k] = c /\ t[k].status = "running"
                    THEN Released(t[k], "failed") ELSE t[k]]

ExpireStmt(t, c) ==
    [k \in Jobs |-> IF ConvOf[k] = c /\ Lapsed(t[k])
                    THEN Released(t[k], "failed") ELSE t[k]]

\* The base version of a new row is the one the request read; the insert is
\* refused unless it still is the conversation's version.
InsertStmt(t, j) ==
    IF /\ t[j].status = "absent"
       /\ ScopeOpen(ConvOf[j], conv[ConvOf[j]].version)
       /\ NoOtherActive(t, j)
    THEN [t EXCEPT ![j] = [NoRow EXCEPT !.status = "queued",
                                        !.base = conv[ConvOf[j]].version]]
    ELSE t

\* Mutant: the take does not look for another active job.
TakeBesideStmt(t, j, e) ==
    IF /\ t[j].status \in {"queued", "failed", "running"}
       /\ t[j].owner = NoOwner \/ t[j].lease # "live"
       /\ ScopeOpen(ConvOf[j], t[j].base)
    THEN [t EXCEPT ![j] = Taken(@, e)] ELSE t

TakeStmt(t, j, e) ==
    IF /\ t[j].status \in {"queued", "failed", "running"}
       /\ t[j].owner = NoOwner \/ t[j].lease # "live"
       /\ ScopeOpen(ConvOf[j], t[j].base)
       /\ NoOtherActive(t, j)
    THEN [t EXCEPT ![j] = Taken(@, e)] ELSE t

ClaimBatch(t, j, e) == TakeStmt(InsertStmt(ExpireStmt(t, ConvOf[j]), j), j, e)

-----------------------------------------------------------------------------
(* versionCommitStatements: one batch, of which only the first two          *)
(* statements carry the lease fence                                         *)

\* Mutant: a misplaced binding writes the adoption into the run's status.
RunAfterShiftedBinding(e, j) ==
    IF ~project.deleted /\ Fence(e, j) /\ buildRun[j] # "cancelled"
    THEN exec[e].outcome ELSE buildRun[j]

\* Statement 1 marks the run completed unless it was cancelled.
RunAfterCommit(e, j) ==
    IF ~project.deleted /\ Fence(e, j) /\ buildRun[j] # "cancelled"
    THEN "completed" ELSE buildRun[j]

\* Statement 2 inserts the version.
InsertsVersion(e, j) == /\ ~project.deleted
                        /\ Fence(e, j)
                        /\ RunAfterCommit(e, j) \notin {"none", "cancelled"}

\* The later statements only ask that the version exists.
VersionExists(e, j) == j \in versions \/ InsertsVersion(e, j)

\* The unique (project, source run) key rolls the whole batch back.
DuplicateRun(e, j) == j \in versions /\ InsertsVersion(e, j)

\* Mutant: the heads move without asking whether the version exists.
MovesUnseen(current, e, j) ==
    IF exec[e].outcome = "adopt" /\ current = job[j].base THEN j ELSE current

\* Statements 3 and 5: compare and set of a head or of a pinned version.
MovesTo(current, e, j) ==
    IF /\ exec[e].outcome = "adopt"
       /\ current = job[j].base
       /\ VersionExists(e, j)
    THEN j ELSE current

-----------------------------------------------------------------------------
Init == /\ job = [j \in Jobs |-> NoRow]
        /\ conv \in [Conversations ->
                       [mode : {"iteration", "explanation"}, version : {Root}]]
        /\ project = [deleted |-> FALSE, head |-> Root]
        /\ versions = {}
        /\ buildRun = [j \in Jobs |-> "none"]
        /\ exec = [e \in Executors |-> IdleExec]

At(e, pc) == exec[e].pc = pc
\* A failing handler has no more use for its result.
Kept(o, pc) == IF pc \in {"failing", "releasing", "leaked"} THEN "none" ELSE o
GoWith(e, pc, o) ==
    exec' = [exec EXCEPT ![e] = [@ EXCEPT !.pc = pc, !.outcome = Kept(o, pc)]]
Go(e, pc) == GoWith(e, pc, exec[e].outcome)
End(e) == exec' = [exec EXCEPT ![e] = IdleExec]

-----------------------------------------------------------------------------
(* Executor: claim, run, commit, complete or fail *)

\* The claim transaction run by executor e for job j, whatever asked for it.
ClaimTables(e, j) == /\ job' = ClaimBatch(job, j, e)
                     /\ UNCHANGED <<conv, project, versions, buildRun>>

Claimed(e, j) == ClaimBatch(job, j, e)[j].status = "running"
                 /\ ClaimBatch(job, j, e)[j].owner = e

\* An execution draws a fresh owner: no running row names it yet.
Fresh(e) == \A k \in Jobs : ~Owns(e, k)

\* claimRoleJob, or the answer 409.  A saved result is read back with the claim,
\* to be replayed.
Claim(e, j) ==
    /\ At(e, "idle")
    /\ Fresh(e)
    /\ ClaimTables(e, j)
    /\ exec' = IF Claimed(e, j)
               THEN [exec EXCEPT ![e] = [job |-> j, pc |-> "claimed",
                                         outcome |-> job[j].final]]
               ELSE exec

\* A request for a run reaches its handler.  When one comes is left open here;
\* that of a build is always a delivery of the consumer (RoleDispatch).
Request(e, j) == "stream" \in Incidents /\ Claim(e, j)

\* startBuildRun refuses a deleted project; it revives any run row that was
\* not cancelled.  An iteration's own run row is the subject of another module.
StartRun(e) ==
    LET j == exec[e].job IN
    /\ At(e, "claimed")
    /\ IF j \in Builds /\ project.deleted
       THEN Go(e, "releasing") /\ UNCHANGED buildRun
       ELSE /\ Go(e, "preparing")
            /\ buildRun' = IF j \in Builds /\ buildRun[j] # "cancelled"
                           THEN [buildRun EXCEPT ![j] = "running"]
                           ELSE buildRun
    /\ UNCHANGED <<job, conv, project, versions>>

\* The heartbeat is beating and the stream that stops it is created.
OpenStream(e) ==
    /\ At(e, "preparing")
    /\ Go(e, "working")
    /\ UNCHANGED tables

\* An exception between the two -- the last event number cannot be read, the
\* saved checkpoint cannot be restored -- leaves the handler, and the
\* heartbeat goes on renewing the lease of a run nobody executes.
PrepareError(e) ==
    /\ "prepare" \in Incidents
    /\ At(e, "preparing")
    /\ Go(e, "leaked")
    /\ UNCHANGED tables

\* Where an error leaves the handler.  A build commits inside journal.commit,
\* whose error also closes the journal: failBuildRun is never reached.
ErrorPc(e) ==
    LET j == exec[e].job IN
    IF /\ j \in Builds /\ exec[e].outcome = "adopt"
       /\ exec[e].pc \in {"looking", "committing", "completing", "closing"}
    THEN "releasing" ELSE "failing"

\* A model, source or storage error inside the handler, or its aborted signal
\* seen by the graph: the one-hour deadline passed, the heartbeat could not
\* renew the lease, or the user stopped the job.  Between the saved result and
\* journal.commit, assertTaskKernel may still refuse a build: that is recorded.
HandlerError(e) ==
    /\ exec[e].pc \in {"working", "reporting", "saving", "looking",
                       "committing", "completing", "closing"}
    /\ \/ Go(e, ErrorPc(e))
       \/ At(e, "looking") /\ Go(e, "failing")
    /\ UNCHANGED tables

Outcomes(j) == IF j \in Builds THEN {"adopt", "draft"} ELSE {"adopt", "review"}

\* The graph reports its result, or the claimed checkpoint replays one, and
\* the lease is asserted.
Finish(e) ==
    LET j == exec[e].job IN
    /\ At(e, "working")
    /\ IF Holds(e, j)
       THEN \E o \in IF exec[e].outcome = "none" THEN Outcomes(j)
                     ELSE {exec[e].outcome} :
              GoWith(e, "reporting", o)
       ELSE Go(e, "failing")
    /\ UNCHANGED tables

\* The research.commit checkpoint saves the result and renews the lease.  The
\* handlers do not look at whether it was refused.
SaveResult(e) ==
    LET j == exec[e].job IN
    /\ At(e, "reporting")
    /\ job' = IF Fence(e, j)
              THEN [job EXCEPT ![j] = [@ EXCEPT !.final = exec[e].outcome,
                                                !.lease = "live"]]
              ELSE job
    /\ Go(e, IF exec[e].outcome = "draft" THEN "completing"
             ELSE IF j \in Builds THEN "looking" ELSE "saving")
    /\ UNCHANGED <<conv, project, versions, buildRun>>

\* An iteration asserts its lease once more before it writes anything.
AssertLease(e) ==
    /\ At(e, "saving")
    /\ Go(e, IF Holds(e, exec[e].job) THEN "looking" ELSE "failing")
    /\ UNCHANGED tables

\* commitProjectVersion up to its batch: the version of this run is looked up.
LookUpVersion(e) ==
    /\ At(e, "looking")
    /\ Go(e, IF project.deleted THEN ErrorPc(e)
             ELSE IF exec[e].job \in versions THEN "completing"
             ELSE "committing")
    /\ UNCHANGED tables

\* The commit batch.  When the fence refuses the insert the batch is not
\* rolled back: the handler throws unless the run's version already exists.
CommitVersion(e) ==
    LET j == exec[e].job
        c == ConvOf[j]
    IN
    /\ At(e, "committing")
    /\ IF DuplicateRun(e, j)
       THEN UNCHANGED <<buildRun, versions, project, conv>>
       ELSE /\ buildRun' = [buildRun EXCEPT ![j] = RunAfterCommit(e, j)]
            /\ versions' = IF InsertsVersion(e, j)
                           THEN versions \cup {j} ELSE versions
            /\ project' = [project EXCEPT !.head = MovesTo(@, e, j)]
            /\ conv' = [conv EXCEPT ![c].version = MovesTo(@, e, j)]
    /\ Go(e, IF VersionExists(e, j) THEN "completing" ELSE ErrorPc(e))
    /\ UNCHANGED job

\* completeBuildStageRun: a build also records the completion of its run.
RecordRun(e) ==
    LET j == exec[e].job IN
    /\ At(e, "completing") /\ j \in Builds
    /\ buildRun' = [buildRun EXCEPT ![j] =
                      IF @ = "cancelled" THEN @ ELSE "completed"]
    /\ Go(e, "closing")
    /\ UNCHANGED <<job, conv, project, versions>>

\* completeRoleJob.
Complete(e) ==
    LET j == exec[e].job IN
    /\ At(e, IF j \in Builds THEN "closing" ELSE "completing")
    /\ job' = IF Fence(e, j)
              THEN [job EXCEPT ![j] = Released(@, "completed")] ELSE job
    /\ End(e)
    /\ UNCHANGED <<conv, project, versions, buildRun>>

\* onFailure, first half: failBuildRun, told whether the signal is aborted by
\* now, which it may have become at any time.
\* It is not reached when the journal could not write an earlier event.
FailRun(e) ==
    LET j == exec[e].job IN
    /\ At(e, "failing")
    /\ \E recorded, aborted \in BOOLEAN :
         buildRun' = IF recorded /\ j \in Builds /\ buildRun[j] # "cancelled"
                     THEN [buildRun EXCEPT ![j] =
                             IF aborted THEN "cancelled" ELSE "failed"]
                     ELSE buildRun
    /\ Go(e, "releasing")
    /\ UNCHANGED <<job, conv, project, versions>>

\* onFailure, second half: failRoleJob, which does not look at the expiry.
FailJob(e) ==
    LET j == exec[e].job IN
    /\ At(e, "releasing")
    /\ job' = IF Owns(e, j)
              THEN [job EXCEPT ![j] = Released(@, "failed")] ELSE job
    /\ End(e)
    /\ UNCHANGED <<conv, project, versions, buildRun>>

\* The process running e dies.
Crash(e) ==
    /\ "crash" \in Incidents
    /\ ~At(e, "idle")
    /\ End(e)
    /\ UNCHANGED tables

-----------------------------------------------------------------------------
(* Time and users *)

\* 45 seconds pass without a renewal, then the time a write in progress takes.
LapseLease(j) ==
    /\ job[j].status = "running" /\ job[j].lease # "lapsed"
    /\ job' = [job EXCEPT ![j].lease = IF @ = "live" THEN "expiring" ELSE "lapsed"]
    /\ UNCHANGED <<conv, project, versions, buildRun, exec>>

\* The heartbeat of an execution, which beats from before its stream is opened
\* until it is stopped, renews a lease that had not expired when it looked.
Heartbeat(e) ==
    LET j == exec[e].job IN
    /\ exec[e].pc \notin {"idle", "claimed"}
    /\ Fence(e, j)
    /\ job' = [job EXCEPT ![j].lease = "live"]
    /\ UNCHANGED <<conv, project, versions, buildRun, exec>>

CancelJob(j) ==
    /\ "cancel" \in Incidents
    /\ job[j].status \in Active \cup {"failed"}
    /\ job' = [job EXCEPT ![j] = Released(@, "cancelled")]
    /\ UNCHANGED <<conv, project, versions, buildRun, exec>>

\* Deleting a deleted project again still cancels what is active in it.
DeleteProject ==
    /\ "delete" \in Incidents
    /\ project' = [project EXCEPT !.deleted = TRUE]
    /\ buildRun' = [j \in Jobs |-> IF buildRun[j] = "running"
                                   THEN "cancelled" ELSE buildRun[j]]
    /\ job' = [j \in Jobs |-> IF job[j].status \in Active
                              THEN Released(job[j], "cancelled") ELSE job[j]]
    /\ UNCHANGED <<conv, versions, exec>>

RestoreProject ==
    /\ "delete" \in Incidents
    /\ project.deleted
    /\ project' = [project EXCEPT !.deleted = FALSE]
    /\ UNCHANGED <<job, conv, versions, buildRun, exec>>

SetMode(c, m) ==
    /\ "mode" \in Incidents
    /\ conv[c].mode # m
    /\ \A j \in Jobs : ConvOf[j] = c => job[j].status \notin Active
    /\ conv' = [conv EXCEPT ![c].mode = m]
    /\ UNCHANGED <<job, project, versions, buildRun, exec>>

\* adoptProjectVersion without a conversation: the head moves to v if it
\* still is the head h the user compared with.
AdoptHead(v, h) ==
    /\ "adopt" \in Incidents
    /\ v \in versions \cup {Root}
    /\ ~project.deleted /\ project.head = h /\ h # v
    /\ project' = [project EXCEPT !.head = v]
    /\ UNCHANGED <<job, conv, versions, buildRun, exec>>

\* Mutant: the conversation is switched while one of its jobs runs.
AdoptUnderRun(v, h, c) ==
    LET moves == project.head = h /\ h # v IN
    /\ "adopt" \in Incidents
    /\ v \in versions \cup {Root}
    /\ ~project.deleted
    /\ moves \/ (h = v /\ project.head = v)
    /\ project' = [project EXCEPT !.head = v]
    /\ conv' = [conv EXCEPT ![c].version = v]
    /\ UNCHANGED <<job, versions, buildRun, exec>>

\* adoptProjectVersion with a conversation to switch as well.  A queued job
\* of that conversation does not stop it.
AdoptInto(v, h, c) ==
    LET moves == project.head = h /\ h # v IN
    /\ "adopt" \in Incidents
    /\ v \in versions \cup {Root}
    /\ ~project.deleted
    /\ \A j \in Jobs : ConvOf[j] = c
                         => job[j].status \notin {"running", "waiting_user"}
    /\ moves \/ (h = v /\ project.head = v)
    /\ project' = [project EXCEPT !.head = v]
    /\ conv' = [conv EXCEPT ![c].version = v]
    /\ UNCHANGED <<job, versions, buildRun, exec>>

-----------------------------------------------------------------------------
ExecStep(e) == \/ StartRun(e) \/ OpenStream(e) \/ Finish(e) \/ SaveResult(e)
               \/ AssertLease(e) \/ LookUpVersion(e) \/ CommitVersion(e) \/ RecordRun(e)
               \/ Complete(e) \/ FailRun(e) \/ FailJob(e)
ExecFault(e) == PrepareError(e) \/ HandlerError(e) \/ Crash(e)

Surroundings ==
    \/ \E e \in Executors : Heartbeat(e)
    \/ \E j \in Jobs : LapseLease(j) \/ CancelJob(j)
    \/ RestoreProject
    \/ \E c \in Conversations, m \in {"iteration", "explanation"} : SetMode(c, m)
    \/ \E v, h \in VersionId : \/ AdoptHead(v, h)
                               \/ \E c \in Conversations : AdoptInto(v, h, c)
Environment == Surroundings \/ DeleteProject

Next == \/ \E e \in Executors : \/ \E j \in Jobs : Request(e, j)
                                \/ ExecStep(e) \/ ExecFault(e)
        \/ Environment

Spec == Init /\ [][Next]_vars

-----------------------------------------------------------------------------
(* Type invariant *)

\* Every table and every executor is in a state of the schema.
TypeOK ==
    /\ job \in [Jobs -> JobRow]
    /\ conv \in [Conversations -> [mode : {"iteration", "explanation"},
                                   version : VersionId]]
    /\ project \in [deleted : BOOLEAN, head : VersionId]
    /\ versions \subseteq Jobs
    /\ buildRun \in [Jobs -> RunStatus]
    /\ exec \in [Executors -> ExecState]

-----------------------------------------------------------------------------
(* Safety *)

\* At most one job of a conversation is queued, running or waiting.  The
\* database's unique index covers running and waiting rows only; the rest is
\* up to the order of the claim batch and to every statement that revives.
OneActiveJob ==
    \A j \in Jobs : job[j].status \in Active => NoOtherActive(job, j)

\* While a job is active its conversation stays an iteration conversation:
\* the mode switch and the claim exclude each other in either order.
ActiveInIterationMode ==
    \A j \in Jobs : job[j].status \in Active => conv[ConvOf[j]].mode = "iteration"

\* Everything that names a version names one that exists: the head of the
\* project, the version a conversation shows and the base of a job.  The
\* schema has no foreign key for two of them, and every write is a compare and
\* set whose guard sits in another statement of its batch.
ReferencesResolve ==
    /\ project.head \in versions \cup {Root}
    /\ \A c \in Conversations : conv[c].version \in versions \cup {Root}
    /\ \A j \in Jobs : job[j].base \in (versions \ {j}) \cup {Root}

\* An iteration is recorded as completed only when its version exists: a
\* reader of a completed iteration never looks for a version in vain.
CompletedHasVersion ==
    \A j \in Jobs \ Builds : job[j].status = "completed" => j \in versions

\* Who is active: both halves are what the theorem ScopeCorrect proves.
ClaimScope == OneActiveJob /\ ActiveInIterationMode

\* What is named exists: no reader of a head, a conversation, a base or a
\* completed iteration looks for a version in vain.
VersionsResolve == ReferencesResolve /\ CompletedHasVersion

\* While a job runs, its conversation may only step forward from a version to
\* a child that was finished to be adopted: no user and no candidate kept for
\* review moves the base under the run.  A late batch of another job may (its
\* version is there, and moves are not fenced by a lease), but only with a
\* version that was there before: one made now moves it for the run alone.
RunningMovesForward ==
    [][\A j \in Jobs :
         LET from == conv[ConvOf[j]].version
             to == conv'[ConvOf[j]].version
         IN  (job[j].status = "running" /\ from # to)
               => /\ to \in versions' \ {Root} /\ to \in versions \cup {j}
                  /\ ConvOf[to] = ConvOf[j]
                  /\ job[to].base = from
                  /\ job[to].final = "adopt"]_vars

\* An executor that lost its job to another one can no longer commit for it:
\* a version appears only on behalf of the executor that owns the lease at that
\* moment, and never in a project that is deleted.
FencedVersions ==
    [][\A j \in versions' \ versions :
         /\ \E e \in Executors : exec[e].job = j /\ Owns(e, j)
         /\ ~project.deleted]_vars

\* Nor can it complete the job under the executor that took over.
FencedCompletion ==
    [][\A j \in Jobs :
         (job[j].status # "completed" /\ job'[j].status = "completed")
           => \E e \in Executors : exec[e].job = j /\ Owns(e, j)]_vars

\* What only the owner of a lease may write.
FencedWrites == FencedVersions /\ FencedCompletion

\* Completed and cancelled jobs never run again, and what a cancelled job
\* had not committed it never commits, even if the project is restored.
TerminalJobsStay ==
    [][\A j \in Jobs : job[j].status \in Terminal
         => /\ job'[j].status = job[j].status
            /\ j \notin versions => j \notin versions']_vars

-----------------------------------------------------------------------------
(* Refinement: the job table is a lock on each conversation                 *)

RunningIn(c) == {j \in Jobs : ConvOf[j] = c /\ job[j].status = "running"}

Lock == INSTANCE ConversationLock WITH
            holder    <- [c \in Conversations |->
                            IF RunningIn(c) = {} THEN NoJob
                            ELSE CHOOSE j \in RunningIn(c) : TRUE],
            fresh     <- {c \in Conversations :
                            \E j \in RunningIn(c) : job[j].lease = "live"},
            closed    <- {j \in Jobs : job[j].status \in Terminal},
            published <- versions

\* Whatever executors, users, crashes and time do to the tables, they do what
\* an expiring lock per conversation allows.
ImplementsLock == Lock!LockSpec
=============================================================================
