---------------------------- MODULE IterationRuns ----------------------------
(***************************************************************************)
(* The records of iteration runs (lib/iteration/repository) beside the job *)
(* table: each iteration has a row of its own, keyed by the id of its job, *)
(* which has neither owner nor lease.  The executor writes it between two  *)
(* awaits of its run, the deletion of the project cancels it, and a reaper *)
(* (lib/iteration/reaper), called when a page reads the latest run,        *)
(* interrupts the rows whose executor is dead.                             *)
(*                                                                         *)
(* Builds have no such row, and the runs that their enrichment starts under *)
(* derived ids are not modelled; a completed row stands for every status of *)
(* a result.                                                               *)
(***************************************************************************)
EXTENDS RoleJobs

ASSUME IterationsAssumption == Builds = {}

VARIABLES
    iterRun,        \* snapshot_iteration_runs.status, by run
    snapshots,      \* iterations whose immutable snapshot is stored
    recorded,       \* what an executor past its last assertion has written
    reaper          \* the reaper's reads, and the runs it goes on with

ivars == <<job, conv, project, versions, buildRun, exec,
           iterRun, snapshots, recorded, reaper>>

IterStatus == {"none", "running", "completed", "failed", "cancelled", "interrupted"}
Records == {"none", "snapshot", "run"}

IterInit == /\ Init
            /\ iterRun = [j \in Jobs |-> "none"]
            /\ snapshots = {}
            /\ recorded = [e \in Executors |-> "none"]
            /\ reaper = [pc |-> "idle", runs |-> {}]

Mark(j, st) == iterRun' = [iterRun EXCEPT ![j] = st]

-----------------------------------------------------------------------------
(* The executor *)

\* Mutant: a run is started again whatever became of it.
RestartIteration(e) ==
    LET j == exec[e].job IN
    /\ StartRun(e)
    /\ Mark(j, IF iterRun[j] # "cancelled"
               THEN "running" ELSE iterRun[j])
    /\ UNCHANGED <<snapshots, recorded, reaper>>

\* startSnapshotIteration inserts the row, or revives one that failed or was
\* interrupted; a row in any other state is left as it is.
StartIteration(e) ==
    LET j == exec[e].job IN
    /\ StartRun(e)
    /\ Mark(j, IF iterRun[j] \in {"none", "failed", "interrupted"}
               THEN "running" ELSE iterRun[j])
    /\ UNCHANGED <<snapshots, recorded, reaper>>

\* completeSnapshotIteration, first transaction: a result that changed the
\* graph stores its snapshot.
StoreSnapshot(e) ==
    LET j == exec[e].job IN
    /\ At(e, "looking") /\ recorded[e] = "none"
    /\ \E changed \in IF exec[e].outcome = "adopt" THEN {TRUE} ELSE BOOLEAN :
         snapshots' = IF changed THEN snapshots \cup {j} ELSE snapshots
    /\ recorded' = [recorded EXCEPT ![e] = "snapshot"]
    /\ UNCHANGED <<vars, iterRun, reaper>>

\* Mutant: only a running row is completed.
RecordRunning(e) ==
    LET j == exec[e].job IN
    /\ At(e, "looking") /\ recorded[e] = "snapshot"
    /\ Mark(j, IF iterRun[j] = "running" THEN "completed" ELSE iterRun[j])
    /\ recorded' = [recorded EXCEPT ![e] = "run"]
    /\ UNCHANGED <<vars, snapshots, reaper>>

\* Second transaction: the row is completed, whatever its status is by now.
RecordIteration(e) ==
    /\ At(e, "looking") /\ recorded[e] = "snapshot"
    /\ Mark(exec[e].job, "completed")
    /\ recorded' = [recorded EXCEPT ![e] = "run"]
    /\ UNCHANGED <<vars, snapshots, reaper>>

\* Then saveProjectCandidateFromIteration begins.
SaveCandidate(e) ==
    /\ LookUpVersion(e)
    /\ recorded[e] = "run"
    /\ recorded' = [recorded EXCEPT ![e] = "none"]
    /\ UNCHANGED <<iterRun, snapshots, reaper>>

\* onFailure of an iteration: failSnapshotIteration, unless an event could not
\* be written.
FailIteration(e) ==
    LET j == exec[e].job IN
    /\ FailRun(e)
    /\ \E st \in {iterRun[j], "failed", "cancelled"} :
         Mark(j, IF iterRun[j] = "running" THEN st ELSE iterRun[j])
    /\ UNCHANGED <<snapshots, recorded, reaper>>

\* Mutant: what the executor wrote is remembered for its next job.
AbandonKeepingRecord(e) ==
    /\ HandlerError(e) \/ Crash(e)
    /\ UNCHANGED <<iterRun, snapshots, recorded, reaper>>

\* The handler fails or its process dies.
Abandon(e) == /\ HandlerError(e) \/ Crash(e)
              /\ recorded' = [recorded EXCEPT ![e] = "none"]
              /\ UNCHANGED <<iterRun, snapshots, reaper>>

\* Steps that do not touch the row.
OtherStep(e) ==
    /\ \/ OpenStream(e) \/ Finish(e) \/ SaveResult(e) \/ AssertLease(e)
       \/ CommitVersion(e) \/ Complete(e) \/ FailJob(e) \/ PrepareError(e)
       \/ \E j \in Jobs : Request(e, j)
    /\ UNCHANGED <<iterRun, snapshots, recorded, reaper>>

-----------------------------------------------------------------------------
(* The deletion of the project, and the reaper *)

DeleteIterations ==
    /\ DeleteProject
    /\ iterRun' = [j \in Jobs |-> IF iterRun[j] = "running"
                                  THEN "cancelled" ELSE iterRun[j]]
    /\ UNCHANGED <<snapshots, recorded, reaper>>

\* A valid lease proves a live executor.
HasLiveExecutor(j) == job[j].status = "running" /\ job[j].lease = "live"

\* Mutant: a cancelled job does not count as terminal.
FailedOrCompleted(j) == job[j].status \in {"failed", "completed"}

HasTerminalJob(j) == job[j].status \in {"failed", "cancelled", "completed"}

\* The first read: the rows in status running.
ReadRuns ==
    /\ reaper = [pc |-> "idle", runs |-> {}]
    /\ \E j \in Jobs : iterRun[j] = "running"
    /\ reaper' = [pc |-> "read",
                  runs |-> {j \in Jobs : iterRun[j] = "running"}]
    /\ UNCHANGED <<vars, iterRun, snapshots, recorded>>

\* The reads of their jobs and last events; some runs were silent for 90
\* minutes.
DecideRuns ==
    /\ reaper.pc = "read"
    /\ \E silent \in SUBSET reaper.runs :
         reaper' = [pc |-> "idle",
                    runs |-> {j \in reaper.runs :
                                /\ ~HasLiveExecutor(j)
                                /\ HasTerminalJob(j) \/ j \in silent}]
    /\ UNCHANGED <<vars, iterRun, snapshots, recorded>>

\* One update for each run, guarded by the status only.
Interrupt(j) ==
    /\ reaper.pc = "idle" /\ j \in reaper.runs
    /\ Mark(j, IF iterRun[j] = "running" THEN "interrupted" ELSE iterRun[j])
    /\ reaper' = [reaper EXCEPT !.runs = @ \ {j}]
    /\ UNCHANGED <<vars, snapshots, recorded>>

-----------------------------------------------------------------------------
IterNext ==
    \/ \E e \in Executors :
         \/ StartIteration(e) \/ StoreSnapshot(e) \/ RecordIteration(e)
         \/ SaveCandidate(e) \/ FailIteration(e) \/ Abandon(e) \/ OtherStep(e)
    \/ DeleteIterations
    \/ Surroundings /\ UNCHANGED <<iterRun, snapshots, recorded, reaper>>
    \/ ReadRuns \/ DecideRuns \/ \E j \in Jobs : Interrupt(j)

IterSpec == IterInit /\ [][IterNext]_ivars

\* Somebody keeps opening the pages that show the latest run.
ReaperFairness == /\ WF_ivars(ReadRuns) /\ WF_ivars(DecideRuns)
                  /\ \A j \in Jobs : WF_ivars(Interrupt(j))

FairIterSpec == IterSpec /\ ReaperFairness

-----------------------------------------------------------------------------
(* Properties *)

\* The tables, the executors' records and the reaper are well typed, and only
\* an executor between its assertion and its look-up has a record.
IterTypeOK ==
    /\ iterRun \in [Jobs -> IterStatus]
    /\ snapshots \subseteq Jobs
    /\ recorded \in [Executors -> Records]
    /\ \A e \in Executors : recorded[e] # "none" => exec[e].pc = "looking"
    /\ reaper \in [pc : {"idle", "read"}, runs : SUBSET Jobs]

\* A version of an iteration comes with a completed run and, when it was
\* adopted, with the snapshot it shows: four writes in three transactions,
\* against the reaper, the deletion of the project and a second executor.
VersionHasRun ==
    \A j \in versions :
        /\ iterRun[j] = "completed"
        /\ job[j].final = "adopt" => j \in snapshots

\* A completed run stays completed: neither the failure of a replaced executor,
\* nor a later attempt, nor the reaper takes a stored result back.
CompletedRunStays ==
    [][\A j \in Jobs : iterRun[j] = "completed" => iterRun'[j] = "completed"]_ivars

\* A run whose job is over does not go on being shown as running.
ClosedJobEndsRun ==
    \A j \in Jobs :
        (job[j].status \in Terminal /\ iterRun[j] = "running")
          ~> (iterRun[j] # "running")
=============================================================================
