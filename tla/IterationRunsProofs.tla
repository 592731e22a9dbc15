------------------------ MODULE IterationRunsProofs ------------------------
(***************************************************************************)
(* Proofs about IterationRuns: the rows of iteration runs beside a job     *)
(* table whose own invariant is proved in RoleJobsProofs.                  *)
(***************************************************************************)
EXTENDS IterationRuns, RoleJobsProofs

-----------------------------------------------------------------------------
(* The invariant *)

\* A version of an iteration comes from a job whose result is saved, so that
\* no later checkpoint turns it into an adopted one.
VersionsAreFinal == \A k \in versions : job[k].final # "none"

\* What an executor has written: the snapshot of a result to adopt first, then
\* the completed run, and both before it reaches the commit batch.
RecordOK(e) ==
    LET j == exec[e].job
        stored == exec[e].outcome = "adopt" => j \in snapshots
    IN  /\ recorded[e] # "none" => exec[e].pc = "looking" /\ stored
        /\ recorded[e] = "run" \/ exec[e].pc = "committing"
             => iterRun[j] = "completed" /\ stored

IterInv ==
    /\ RunsInv
    /\ IterTypeOK
    /\ VersionsAreFinal
    /\ VersionHasRun
    /\ \A e \in Executors : RecordOK(e)

-----------------------------------------------------------------------------
(* Kinds of step *)

\* An iteration runs on the job table as RoleJobs allows.
LEMMA IterIsRun ==
    ASSUME IterNext
    PROVE  [Next]_vars
  <1>1. ASSUME NEW e \in Executors,
               \/ StartIteration(e) \/ SaveCandidate(e) \/ FailIteration(e)
               \/ Abandon(e) \/ OtherStep(e)
        PROVE  Next
    BY <1>1 DEF StartIteration, SaveCandidate, FailIteration, Abandon, OtherStep,
                Next, ExecStep, ExecFault
  <1>2. ASSUME NEW e \in Executors, StoreSnapshot(e) \/ RecordIteration(e)
        PROVE  UNCHANGED vars
    BY <1>2 DEF StoreSnapshot, RecordIteration
  <1>3. CASE DeleteIterations
    BY <1>3 DEF DeleteIterations, Next, Environment
  <1>4. CASE Surroundings
    BY <1>4 DEF Next, Environment
  <1>5. CASE ReadRuns \/ DecideRuns \/ \E j \in Jobs : Interrupt(j)
    BY <1>5 DEF ReadRuns, DecideRuns, Interrupt
  <1>6. QED
    BY <1>1, <1>2, <1>3, <1>4, <1>5 DEF IterNext

\* Each write of the rows leaves completed ones completed, and snapshots are
\* never removed: the guards of four statements by three writers.
LEMMA IterKept ==
    ASSUME IterTypeOK, IterNext, \A e \in Executors : exec[e].pc # "idle" => exec[e].job \in Jobs
    PROVE  /\ iterRun' \in [Jobs -> IterStatus]
           /\ \A k \in Jobs : iterRun[k] = "completed" => iterRun'[k] = "completed"
           /\ snapshots \subseteq snapshots' /\ snapshots' \subseteq Jobs
  <1> DEFINE Goal == /\ iterRun' \in [Jobs -> IterStatus]
                     /\ \A k \in Jobs : iterRun[k] = "completed" => iterRun'[k] = "completed"
                     /\ snapshots \subseteq snapshots' /\ snapshots' \subseteq Jobs
  <1>0. iterRun \in [Jobs -> IterStatus] /\ snapshots \subseteq Jobs
    BY DEF IterTypeOK
  <1>1. CASE UNCHANGED <<iterRun, snapshots>>
    BY <1>0, <1>1
  <1>2. ASSUME NEW e \in Executors, StartIteration(e)
        PROVE  Goal
    <2>1. exec[e].job \in Jobs
      BY <1>2 DEF StartIteration, StartRun, At
    <2>2. QED
      BY <1>0, <1>2, <2>1 DEF StartIteration, Mark, IterStatus
  <1>3. ASSUME NEW e \in Executors, StoreSnapshot(e)
        PROVE  Goal
    <2>1. exec[e].job \in Jobs
      BY <1>3 DEF StoreSnapshot, At
    <2>2. QED
      BY <1>0, <1>3, <2>1 DEF StoreSnapshot
  <1>4. ASSUME NEW e \in Executors, RecordIteration(e)
        PROVE  Goal
    <2>1. exec[e].job \in Jobs
      BY <1>4 DEF RecordIteration, At
    <2>2. QED
      BY <1>0, <1>4, <2>1 DEF RecordIteration, Mark, IterStatus
  <1>5. ASSUME NEW e \in Executors, FailIteration(e)
        PROVE  Goal
    <2>1. exec[e].job \in Jobs
      BY <1>5 DEF FailIteration, FailRun, At
    <2>2. QED
      BY <1>0, <1>5, <2>1 DEF FailIteration, Mark, IterStatus
  <1>6. ASSUME NEW e \in Executors, SaveCandidate(e) \/ Abandon(e) \/ OtherStep(e)
        PROVE  Goal
    BY <1>1, <1>6 DEF SaveCandidate, Abandon, OtherStep
  <1>7. CASE DeleteIterations
    BY <1>0, <1>7 DEF DeleteIterations, IterStatus
  <1>8. CASE ReadRuns \/ DecideRuns
    BY <1>1, <1>8 DEF ReadRuns, DecideRuns
  <1>9. ASSUME NEW j \in Jobs, Interrupt(j)
         PROVE  Goal
    BY <1>0, <1>9 DEF Interrupt, Mark, IterStatus
  <1>10. QED
    BY <1>1, <1>2, <1>3, <1>4, <1>5, <1>6, <1>7, <1>8, <1>9 DEF IterNext

\* A version is added by the batch of the executor that runs its job.
LEMMA CommitBy ==
    ASSUME TypeOK, Next, NEW k \in versions' \ versions
    PROVE  \E e \in Executors : exec[e].job = k /\ CommitVersion(e)
  <1>1. PICK e \in Executors : CommitVersion(e)
    BY DEF Next, ExecStep, ExecFault, Environment, Surroundings, Request, Claim,
           ClaimTables, tables, StartRun, OpenStream, Finish, SaveResult,
           AssertLease, LookUpVersion, RecordRun, Complete, FailRun, FailJob,
           PrepareError, HandlerError,
           Crash, Heartbeat, LapseLease, CancelJob, DeleteProject, RestoreProject, SetMode,
           AdoptHead, AdoptInto
  <1>2. QED
    BY <1>1 DEF CommitVersion

-----------------------------------------------------------------------------
(* What an executor has written *)

\* Another executor's steps leave it valid.
LEMMA RecordUntouched ==
    ASSUME IterTypeOK, IterNext, NEW e \in Executors, RecordOK(e),
           exec'[e] = exec[e], recorded'[e] = recorded[e],
           \A k \in Jobs : iterRun[k] = "completed" => iterRun'[k] = "completed",
           snapshots \subseteq snapshots', exec[e].pc # "idle" => exec[e].job \in Jobs
    PROVE  RecordOK(e)'
  BY DEF RecordOK

\* A step of e away from its look-up has nothing to show for.
LEMMA RecordEmpty ==
    ASSUME NEW e \in Executors, recorded'[e] = "none", exec'[e].pc # "committing"
    PROVE  RecordOK(e)'
  BY DEF RecordOK

\* The control state that e leaves its step in.
LEMMA ExecPcs ==
    ASSUME TypeOK, NEW e \in Executors,
           \/ ExecStep(e) \/ ExecFault(e) \/ \E j \in Jobs : Request(e, j)
    PROVE  /\ \A d \in Executors \ {e} : exec'[d] = exec[d]
           /\ exec'[e].pc = "committing" => LookUpVersion(e)
           /\ exec[e].pc = "looking" => LookUpVersion(e) \/ HandlerError(e) \/ Crash(e)
  <1>1. CASE \E j \in Jobs : Request(e, j)
    <2>1. exec[e].pc = "idle"
      BY <1>1 DEF Request, Claim, At
    <2>2. \/ exec' = exec
          \/ \E j \in Jobs : exec' = [exec EXCEPT ![e] = [job |-> j, pc |-> "claimed",
                                                        outcome |-> job[j].final]]
      BY <1>1 DEF Request, Claim
    <2>3. QED
      BY <2>1, <2>2 DEF TypeOK
  <1>2. CASE Complete(e) \/ FailJob(e) \/ Crash(e)
    <2>1. exec'[e].pc = "idle" /\ \A d \in Executors \ {e} : exec'[d] = exec[d]
      BY <1>2, EndFacts DEF Complete, FailJob, Crash
    <2>2. QED
      BY <1>2, <2>1 DEF Complete, FailJob, At
  <1>3. CASE \/ StartRun(e) \/ OpenStream(e) \/ Finish(e) \/ SaveResult(e) \/ AssertLease(e)
             \/ LookUpVersion(e) \/ CommitVersion(e) \/ RecordRun(e) \/ FailRun(e)
             \/ PrepareError(e) \/ HandlerError(e)
    <2>1. exec[e].pc # "idle"
      BY <1>3 DEF StartRun, OpenStream, Finish, SaveResult, AssertLease, LookUpVersion,
           CommitVersion, RecordRun, FailRun, PrepareError, HandlerError, At
    <2>2. \E pc, o : GoWith(e, pc, o) /\ (pc = "committing" => LookUpVersion(e))
      BY <1>3 DEF StartRun, OpenStream, Finish, SaveResult, AssertLease, LookUpVersion,
           CommitVersion, RecordRun, FailRun, PrepareError, HandlerError, Go, ErrorPc
    <2>3. PICK pc, o : GoWith(e, pc, o) /\ (pc = "committing" => LookUpVersion(e))
      BY <2>2
    <2>4. exec'[e].pc = pc /\ \A d \in Executors \ {e} : exec'[d] = exec[d]
      BY <2>1, <2>3, GoFacts
    <2>5. exec[e].pc = "looking" => LookUpVersion(e) \/ HandlerError(e)
      BY <1>3 DEF StartRun, OpenStream, Finish, SaveResult, AssertLease,
           CommitVersion, RecordRun, FailRun, PrepareError, At
    <2>6. QED
      BY <2>3, <2>4, <2>5
  <1>4. QED
    BY <1>1, <1>2, <1>3 DEF ExecStep, ExecFault

\* An executor's own steps: the run and its snapshot are written before the
\* look-up that lets it commit.
LEMMA RecordOwn ==
    ASSUME TypeOK, IterTypeOK, NEW e \in Executors, RecordOK(e),
           \A k \in Jobs : iterRun[k] = "completed" => iterRun'[k] = "completed",
           snapshots \subseteq snapshots',
           \/ StartIteration(e) \/ StoreSnapshot(e) \/ RecordIteration(e)
           \/ SaveCandidate(e) \/ FailIteration(e) \/ Abandon(e) \/ OtherStep(e)
    PROVE  /\ RecordOK(e)'
           /\ recorded' \in [Executors -> Records]
           /\ \A d \in Executors \ {e} : exec'[d] = exec[d] /\ recorded'[d] = recorded[d]
  <1>0. /\ recorded \in [Executors -> Records] /\ iterRun \in [Jobs -> IterStatus]
        /\ exec[e].pc # "idle" => exec[e].job \in Jobs
    BY BusyExec DEF IterTypeOK
  <1>1. CASE StartIteration(e) \/ FailIteration(e) \/ OtherStep(e)
    <2>1. /\ \/ ExecStep(e) /\ ~LookUpVersion(e)
             \/ PrepareError(e) \/ \E j \in Jobs : Request(e, j)
          /\ exec[e].pc # "looking"
          /\ recorded' = recorded
      BY <1>1 DEF StartIteration, FailIteration, OtherStep, ExecStep, StartRun, FailRun,
           OpenStream, Finish, SaveResult, AssertLease, CommitVersion, Complete, FailJob,
           PrepareError, Request, Claim, LookUpVersion, At
    <2>2. /\ \A d \in Executors \ {e} : exec'[d] = exec[d]
          /\ exec'[e].pc # "committing"
      <3>1. ~LookUpVersion(e)
        BY <2>1 DEF LookUpVersion, At
      <3>2. QED
        BY <2>1, <3>1, ExecPcs DEF ExecFault
    <2>3. recorded[e] = "none"
      BY <1>0, <2>1 DEF RecordOK
    <2>4. RecordOK(e)'
      BY <2>1, <2>2, <2>3, RecordEmpty
    <2>5. QED
      BY <1>0, <2>1, <2>2, <2>4
  <1>2. CASE Abandon(e)
    <2>1. recorded' = [recorded EXCEPT ![e] = "none"] /\ ExecFault(e)
      BY <1>2 DEF Abandon, ExecFault
    <2>2. /\ \A d \in Executors \ {e} : exec'[d] = exec[d]
          /\ exec'[e].pc # "committing"
      <3>1. CASE Crash(e)
        BY <3>1, EndFacts DEF Crash
      <3>2. CASE HandlerError(e)
        <4>1. PICK pc \in {ErrorPc(e), "failing"} :
                 exec[e].pc # "idle" /\ GoWith(e, pc, exec[e].outcome)
          BY <3>2 DEF HandlerError, Go
        <4>2. pc # "committing"
          BY DEF ErrorPc
        <4>3. QED
          BY <4>1, <4>2, GoFacts
      <3>3. QED
        BY <1>2, <3>1, <3>2 DEF Abandon
    <2>3. RecordOK(e)'
      BY <1>0, <2>1, <2>2, RecordEmpty
    <2>4. QED
      BY <1>0, <2>1, <2>2, <2>3 DEF Records
  <1>3. CASE StoreSnapshot(e)
    <2> DEFINE j == exec[e].job
    <2>1. /\ exec' = exec /\ recorded' = [recorded EXCEPT ![e] = "snapshot"]
          /\ exec[e].pc = "looking"
          /\ exec[e].outcome = "adopt" => snapshots' = snapshots \cup {j}
      BY <1>3 DEF StoreSnapshot, At, vars
    <2>2. recorded'[e] = "snapshot" /\ \A d \in Executors \ {e} : recorded'[d] = recorded[d]
      BY <1>0, <2>1
    <2>3. RecordOK(e)'
      BY <2>1, <2>2 DEF RecordOK
    <2>4. QED
      BY <1>0, <2>1, <2>2, <2>3 DEF Records
  <1>4. CASE RecordIteration(e)
    <2>1. /\ exec' = exec /\ recorded' = [recorded EXCEPT ![e] = "run"]
          /\ exec[e].pc = "looking" /\ recorded[e] = "snapshot"
          /\ iterRun' = [iterRun EXCEPT ![exec[e].job] = "completed"]
          /\ snapshots' = snapshots
      BY <1>4 DEF RecordIteration, At, vars, Mark
    <2>2. recorded'[e] = "run" /\ iterRun'[exec[e].job] = "completed"
      BY <1>0, <2>1
    <2>3. RecordOK(e)'
      BY <2>1, <2>2 DEF RecordOK
    <2>4. QED
      BY <1>0, <2>1, <2>3 DEF Records
  <1>5. CASE SaveCandidate(e)
    <2>1. /\ recorded' = [recorded EXCEPT ![e] = "none"]
          /\ exec[e].pc = "looking" /\ recorded[e] = "run"
      BY <1>5 DEF SaveCandidate, LookUpVersion, At
    <2>2. PICK pc \in {"failing", "releasing", "completing", "committing"} :
            GoWith(e, pc, exec[e].outcome)
      BY <1>5 DEF SaveCandidate, LookUpVersion, Go, ErrorPc
    <2>3. /\ exec'[e].pc = pc /\ exec'[e].job = exec[e].job
          /\ exec'[e].outcome = Kept(exec[e].outcome, pc)
          /\ \A d \in Executors \ {e} : exec'[d] = exec[d]
      BY <2>1, <2>2, GoFacts
    <2>4. recorded'[e] = "none" /\ \A d \in Executors \ {e} : recorded'[d] = recorded[d]
      BY <1>0, <2>1
    <2>5. RecordOK(e)'
      BY <1>0, <2>1, <2>3, <2>4 DEF RecordOK, Kept
    <2>6. QED
      BY <1>0, <2>1, <2>3, <2>4, <2>5 DEF Records
  <1>6. QED
    BY <1>1, <1>2, <1>3, <1>4, <1>5

-----------------------------------------------------------------------------
(* Every step keeps the invariant *)

\* The saved result of a job with a version is not changed,
LEMMA FinalStays ==
    ASSUME RunsInv, VersionsAreFinal, [Next]_vars, NEW k \in versions
    PROVE  job'[k].final = job[k].final
  <1>0. TypeOK /\ ResultInv
    BY DEF RunsInv
  <1>1. CASE UNCHANGED vars
    BY <1>1 DEF vars
  <1>2. CASE Next
    <2>1. k \in Jobs /\ job[k].status # "absent" /\ job[k].final # "none"
      BY <1>0 DEF TypeOK, ResultInv, VersionsOK, VersionsAreFinal
    <2>2. QED
      BY <1>0, <1>2, <2>1, RowsNext, ClaimSame, NextIsWork DEF SameRow
  <1>3. QED
    BY <1>1, <1>2

\* and a version is added for the result that its executor saved.
LEMMA NewVersion ==
    ASSUME RunsInv, Next, NEW k \in versions' \ versions
    PROVE  \E e \in Executors :
             /\ exec[e].job = k /\ exec[e].pc = "committing" /\ job' = job
             /\ exec[e].outcome # "none" /\ job[k].final = exec[e].outcome
  <1>0. TypeOK /\ ResultInv
    BY DEF RunsInv
  <1>1. PICK e \in Executors : exec[e].job = k /\ CommitVersion(e)
    BY <1>0, CommitBy
  <1>2. /\ Fence(e, k) /\ job' = job /\ exec[e].pc = "committing"
    BY <1>1 DEF CommitVersion, InsertsVersion, At
  <1>3. ExecOK(e)
    BY <1>0 DEF ResultInv
  <1>4. QED
    BY <1>1, <1>2, <1>3 DEF ExecOK

\* The versions that there were and the new one have their completed run and
\* their snapshot.
LEMMA VersionNext ==
    ASSUME IterInv, IterNext,
           \A k \in Jobs : iterRun[k] = "completed" => iterRun'[k] = "completed",
           snapshots \subseteq snapshots'
    PROVE  VersionsAreFinal' /\ VersionHasRun'
  <1>0. /\ RunsInv /\ VersionsAreFinal /\ VersionHasRun /\ versions \subseteq Jobs
        /\ [Next]_vars
    BY IterIsRun DEF IterInv, RunsInv, TypeOK
  <1>1. ASSUME NEW k \in versions
        PROVE  /\ job'[k].final # "none" /\ iterRun'[k] = "completed"
               /\ job'[k].final = "adopt" => k \in snapshots'
    BY <1>0, FinalStays DEF VersionsAreFinal, VersionHasRun
  <1>2. ASSUME NEW k \in versions' \ versions
        PROVE  /\ job'[k].final # "none" /\ iterRun'[k] = "completed"
               /\ job'[k].final = "adopt" => k \in snapshots'
    <2>1. Next
      BY <1>0 DEF vars
    <2>2. PICK e \in Executors :
             /\ exec[e].job = k /\ exec[e].pc = "committing" /\ job' = job
             /\ exec[e].outcome # "none" /\ job[k].final = exec[e].outcome
      BY <1>0, <2>1, NewVersion
    <2>3. RecordOK(e) /\ k \in Jobs
      BY <1>0, <2>2, BusyExec DEF IterInv, RunsInv
    <2>4. QED
      BY <2>2, <2>3 DEF RecordOK
  <1>3. QED
    BY <1>1, <1>2 DEF VersionsAreFinal, VersionHasRun

\* Steps outside the executors change neither them nor what they wrote.
LEMMA Others ==
    ASSUME IterTypeOK,
           \/ DeleteIterations
           \/ Surroundings /\ UNCHANGED <<iterRun, snapshots, recorded, reaper>>
           \/ ReadRuns \/ DecideRuns \/ \E j \in Jobs : Interrupt(j)
    PROVE  UNCHANGED <<exec, recorded>>
  BY DEF DeleteIterations, DeleteProject, ReadRuns, DecideRuns, Interrupt, vars,
         Surroundings, Heartbeat, LapseLease, CancelJob, RestoreProject, SetMode,
         AdoptHead, AdoptInto

\* The reaper goes on with runs that exist.
LEMMA ReaperNext ==
    ASSUME IterTypeOK, IterNext
    PROVE  reaper' \in [pc : {"idle", "read"}, runs : SUBSET Jobs]
  <1>1. reaper \in [pc : {"idle", "read"}, runs : SUBSET Jobs]
    BY DEF IterTypeOK
  <1>2. CASE UNCHANGED reaper
    BY <1>1, <1>2
  <1>3. CASE ReadRuns
    BY <1>3 DEF ReadRuns
  <1>4. CASE DecideRuns
    <2>1. \E S \in SUBSET Jobs : reaper' = [pc |-> "idle", runs |-> S]
      BY <1>1, <1>4 DEF DecideRuns
    <2>2. QED
      BY <2>1
  <1>5. ASSUME NEW j \in Jobs, Interrupt(j)
        PROVE  reaper' \in [pc : {"idle", "read"}, runs : SUBSET Jobs]
    BY <1>1, <1>5 DEF Interrupt
  <1>6. QED
    BY <1>2, <1>3, <1>4, <1>5
       DEF IterNext, StartIteration, StoreSnapshot, RecordIteration, SaveCandidate,
           FailIteration, Abandon, OtherStep, DeleteIterations

\* The invariant is inductive.
LEMMA IterInitInv == IterInit => IterInv
  <1> SUFFICES ASSUME IterInit
               PROVE  IterInv
    OBVIOUS
  <1>1. RunsInv
    BY RunsInit DEF IterInit
  <1>2. IterTypeOK
    BY DEF IterInit, IterTypeOK, IterStatus, Records
  <1>3. \A e \in Executors : RecordOK(e)
    BY DEF IterInit, Init, IdleExec, RecordOK
  <1>4. QED
    BY <1>1, <1>2, <1>3 DEF IterInit, Init, IterInv, VersionsAreFinal, VersionHasRun

\* Every step keeps the invariant.
LEMMA IterNextInv == IterInv /\ [IterNext]_ivars => IterInv'
  <1>1. CASE UNCHANGED ivars
    <2>1. UNCHANGED vars
      BY <1>1 DEF ivars, vars
    <2>2. RunsInv => RunsInv'
      BY <2>1, RunsNext, NextIsWork
    <2>3. QED
      BY <1>1, <2>2
         DEF ivars, IterInv, IterTypeOK, VersionsAreFinal, VersionHasRun, RecordOK
  <1>2. ASSUME IterInv, IterNext
        PROVE  IterInv'
    <2>0. /\ RunsInv /\ TypeOK /\ IterTypeOK
          /\ \A e \in Executors : RecordOK(e)
          /\ \A e \in Executors : exec[e].pc # "idle" => exec[e].job \in Jobs
      BY <1>2, BusyExec DEF IterInv, RunsInv
    <2>1. RunsInv'
      BY <1>2, <2>0, IterIsRun, RunsNext, NextIsWork
    <2>2. /\ iterRun' \in [Jobs -> IterStatus]
          /\ \A k \in Jobs : iterRun[k] = "completed" => iterRun'[k] = "completed"
          /\ snapshots \subseteq snapshots' /\ snapshots' \subseteq Jobs
      BY <1>2, <2>0, IterKept
    <2>3. VersionsAreFinal' /\ VersionHasRun'
      BY <1>2, <2>2, VersionNext
    <2>4. recorded' \in [Executors -> Records] /\ \A e \in Executors : RecordOK(e)'
      <3>1. ASSUME NEW e \in Executors,
                   \/ StartIteration(e) \/ StoreSnapshot(e) \/ RecordIteration(e)
                   \/ SaveCandidate(e) \/ FailIteration(e) \/ Abandon(e) \/ OtherStep(e)
            PROVE  recorded' \in [Executors -> Records] /\ \A d \in Executors : RecordOK(d)'
        <4>1. /\ RecordOK(e)' /\ recorded' \in [Executors -> Records]
              /\ \A d \in Executors \ {e} : exec'[d] = exec[d] /\ recorded'[d] = recorded[d]
          BY <2>0, <2>2, <3>1, RecordOwn
        <4>2. \A d \in Executors \ {e} : RecordOK(d)'
          BY <1>2, <2>0, <2>2, <4>1, RecordUntouched
        <4>3. QED
          BY <4>1, <4>2
      <3>2. CASE UNCHANGED <<exec, recorded>>
        <4>1. \A d \in Executors : RecordOK(d)'
          BY <1>2, <2>0, <2>2, <3>2, RecordUntouched
        <4>2. QED
          BY <2>0, <3>2, <4>1 DEF IterTypeOK
      <3>3. QED
        BY <1>2, <2>0, <3>1, <3>2, Others DEF IterNext
    <2>5. IterTypeOK'
      BY <1>2, <2>0, <2>2, <2>4, ReaperNext DEF IterTypeOK, RecordOK
    <2>6. QED
      BY <2>1, <2>3, <2>4, <2>5 DEF IterInv
  <1>3. QED
    BY <1>1, <1>2

LEMMA IterAlways == IterSpec => []IterInv
  BY IterInitInv, IterNextInv, PTL DEF IterSpec

-----------------------------------------------------------------------------
(* Theorems *)

\* The records of the runs are well typed, and only an executor between its
\* last assertion and its look-up has written something for its run.
THEOREM IterTypeCorrect == IterSpec => []IterTypeOK
  <1>1. IterInv => IterTypeOK
    BY DEF IterInv
  <1>2. QED
    BY <1>1, IterAlways, PTL

\* A version of an iteration has a completed run and, when it was adopted, the
\* snapshot it shows, whatever the reaper, the deletion and other executors do.
THEOREM VersionsHaveRuns == IterSpec => []VersionHasRun
  <1>1. IterInv => VersionHasRun
    BY DEF IterInv
  <1>2. QED
    BY <1>1, IterAlways, PTL

\* Beside its records an iteration keeps what the job table promises.
THEOREM IterVersionsExist == IterSpec => []VersionsResolve
  <1>1. IterInv => VersionsResolve
    BY DEF IterInv, RunsInv
  <1>2. QED
    BY <1>1, IterAlways, PTL

\* No writer of the rows takes a stored result back.
THEOREM CompletedRunsStay == IterSpec => CompletedRunStays
  <1>1. IterInv /\ [IterNext]_ivars
          => [\A j \in Jobs : iterRun[j] = "completed" => iterRun'[j] = "completed"]_ivars
    <2>1. IterInv => IterTypeOK /\ \A e \in Executors : exec[e].pc # "idle" => exec[e].job \in Jobs
      BY BusyExec DEF IterInv, RunsInv
    <2>2. QED
      BY <2>1, IterKept
  <1>2. QED
    BY <1>1, IterAlways, PTL DEF IterSpec, CompletedRunStays

-----------------------------------------------------------------------------
(* Iterations are runs *)

\* With its records left out, what an iteration does is what RoleJobs lets an
\* executor do: each of its steps is one of there, or a stutter.
THEOREM IterationsAreRuns == IterSpec => Spec
  <1>1. IterInit => Init
    BY DEF IterInit
  <1>2. [IterNext]_ivars => [Next]_vars
    <2>1. UNCHANGED ivars => UNCHANGED vars
      BY DEF ivars, vars
    <2>2. QED
      BY <2>1, IterIsRun
  <1>3. QED
    BY <1>1, <1>2, PTL DEF IterSpec, Spec

\* Hence iterations keep the lease, the order of their heads and the lock of
\* their conversation, with the two transactions before the commit as well.
THEOREM IterationsKeepTheLease == IterSpec => FencedWrites /\ RunningMovesForward /\ ImplementsLock
  BY IterationsAreRuns, WritesAreFenced, MovesForward, ImplementsTheLock, PTL

=============================================================================
