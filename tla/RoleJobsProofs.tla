--------------------------- MODULE RoleJobsProofs ---------------------------
(***************************************************************************)
(* Proofs about RoleJobs for every number of jobs, conversations and       *)
(* executors and every choice of incidents.                                *)
(***************************************************************************)
EXTENDS RoleJobs, TLAPS

-----------------------------------------------------------------------------
(* Rows and tables *)

Table == [Jobs -> JobRow]

\* Taking the lease off a row keeps it a row.
LEMMA ReleasedRow ==
    ASSUME NEW row \in JobRow, NEW st \in Status
    PROVE  /\ Released(row, st) \in JobRow
           /\ Released(row, st).status = st
           /\ Released(row, st).base = row.base
           /\ Released(row, st).final = row.final
           /\ Released(row, st).owner = NoOwner
  BY DEF Released, JobRow

\* So does giving it to an executor.
LEMMA TakenRow ==
    ASSUME NEW row \in JobRow, NEW e \in Executors
    PROVE  /\ Taken(row, e) \in JobRow
           /\ Taken(row, e).status = "running"
           /\ Taken(row, e).owner = e
           /\ Taken(row, e).base = row.base
           /\ Taken(row, e).final = row.final
  BY DEF Taken, JobRow, Leases, Status, Active

\* The empty row is one.
LEMMA NoRowIsRow == NoRow \in JobRow
  BY DEF NoRow, JobRow, Status, Active, Terminal, VersionId, Outcome

\* The three statements of the claim map a table to a table.
LEMMA ExpireTable ==
    ASSUME NEW t \in Table, NEW c \in Conversations
    PROVE  ExpireStmt(t, c) \in Table
  BY ReleasedRow DEF ExpireStmt, Table, Status

\* The insertion, the take and the claim batch of them leave rows of the table.
LEMMA InsertTable ==
    ASSUME NEW t \in Table, NEW j \in Jobs, TypeOK
    PROVE  InsertStmt(t, j) \in Table
  <1>1. conv[ConvOf[j]].version \in VersionId
    BY ConstantsAssumption DEF TypeOK
  <1>2. [NoRow EXCEPT !.status = "queued",
                      !.base = conv[ConvOf[j]].version] \in JobRow
    BY <1>1, NoRowIsRow DEF NoRow, JobRow, Status, Active
  <1>3. QED
    BY <1>2 DEF InsertStmt, Table

LEMMA TakeTable ==
    ASSUME NEW t \in Table, NEW j \in Jobs, NEW e \in Executors
    PROVE  TakeStmt(t, j, e) \in Table
  BY TakenRow DEF TakeStmt, Table

LEMMA ClaimTable ==
    ASSUME TypeOK, NEW j \in Jobs, NEW e \in Executors
    PROVE  ClaimBatch(job, j, e) \in Table
  <1>1. job \in Table /\ ConvOf[j] \in Conversations
    BY ConstantsAssumption DEF TypeOK, Table
  <1>2. QED
    BY <1>1, ExpireTable, InsertTable, TakeTable DEF ClaimBatch

-----------------------------------------------------------------------------
(* Executors *)

\* An executor past its claim works on a job.
LEMMA BusyExec ==
    ASSUME TypeOK, NEW e \in Executors, exec[e].pc # "idle"
    PROVE  exec[e] \in [job : Jobs, pc : ExecPc, outcome : Outcome]
  BY DEF TypeOK, ExecState, IdleExec

\* An executor that goes on or ends is in a state of executeRoleJob.
LEMMA TypeGo ==
    ASSUME TypeOK, NEW e \in Executors, exec[e].pc # "idle",
           NEW pc \in ExecPc, NEW o \in Outcome, GoWith(e, pc, o)
    PROVE  exec' \in [Executors -> ExecState]
  <1>1. Kept(o, pc) \in Outcome
    BY DEF Kept, Outcome
  <1>2. [exec[e] EXCEPT !.pc = pc, !.outcome = Kept(o, pc)]
          \in [job : Jobs, pc : ExecPc, outcome : Outcome]
    BY <1>1, BusyExec
  <1>3. QED
    BY <1>2 DEF GoWith, TypeOK, ExecState

LEMMA TypeEnd ==
    ASSUME TypeOK, NEW e \in Executors, End(e)
    PROVE  exec' \in [Executors -> ExecState]
  BY DEF TypeOK, End, ExecState

-----------------------------------------------------------------------------
(* Type correctness *)

LEMMA TypeInit == Init => TypeOK
  BY ConstantsAssumption, NoRowIsRow
     DEF Init, TypeOK, VersionId, RunStatus, ExecState

\* The steps of an executor after its claim.
LEMMA TypeExecStep ==
    ASSUME TypeOK, NEW e \in Executors, ExecStep(e)
    PROVE  TypeOK'
  <1> DEFINE j == exec[e].job
  <1>0. exec[e].pc # "idle" /\ exec[e] \in [job : Jobs, pc : ExecPc, outcome : Outcome]
    <2>1. exec[e].pc # "idle"
      BY DEF ExecStep, At, StartRun, OpenStream, Finish, SaveResult, AssertLease,
             AssertLease, LookUpVersion, CommitVersion, RecordRun, Complete,
             FailRun, FailJob
    <2>2. QED
      BY <2>1, BusyExec
  <1>p. /\ {"preparing", "working", "reporting", "saving", "looking", "committing",
            "completing", "closing", "failing", "releasing"} \subseteq ExecPc
        /\ ErrorPc(e) \in {"releasing", "failing"}
    BY DEF ExecPc, ErrorPc
  <1>1. CASE StartRun(e)
    BY <1>0, <1>1, <1>p, TypeGo DEF StartRun, Go, TypeOK, RunStatus
  <1>2. CASE OpenStream(e)
    BY <1>0, <1>2, <1>p, TypeGo DEF OpenStream, Go, TypeOK, tables
  <1>3. CASE Finish(e)
    <2>1. Outcomes(j) \subseteq Outcome
      BY DEF Outcomes, Outcome
    <2>2. exec' \in [Executors -> ExecState]
      BY <1>0, <1>3, <1>p, <2>1, TypeGo DEF Finish, Go
    <2>3. QED
      BY <2>2, <1>3 DEF Finish, TypeOK, tables
  <1>4. CASE SaveResult(e)
    <2>1. exec' \in [Executors -> ExecState]
      BY <1>0, <1>4, <1>p, TypeGo DEF SaveResult, Go
    <2>2. [job[j] EXCEPT !.final = exec[e].outcome, !.lease = "live"] \in JobRow
      <3>1. job[j] \in JobRow /\ exec[e].outcome \in Outcome
        BY <1>0 DEF TypeOK
      <3>2. QED
        BY <3>1 DEF JobRow, Leases
    <2>3. job' \in [Jobs -> JobRow]
      BY <1>4, <2>2 DEF SaveResult, TypeOK
    <2>4. QED
      BY <2>1, <2>3, <1>4 DEF SaveResult, TypeOK
  <1>5. CASE LookUpVersion(e)
    <2>1. exec' \in [Executors -> ExecState]
      BY <1>0, <1>5, <1>p, TypeGo DEF LookUpVersion, Go
    <2>2. QED
      BY <2>1, <1>5 DEF LookUpVersion, TypeOK, tables
  <1>6. CASE CommitVersion(e)
    <2>1. exec' \in [Executors -> ExecState]
      BY <1>0, <1>6, <1>p, TypeGo DEF CommitVersion, Go
    <2>2. RunAfterCommit(e, j) \in RunStatus
      BY <1>0 DEF RunAfterCommit, TypeOK, RunStatus
    <2>3. \A v \in VersionId : MovesTo(v, e, j) \in VersionId
      BY <1>0 DEF MovesTo, VersionId
    <2>4. ConvOf[j] \in Conversations
      BY <1>0, ConstantsAssumption
    <2>5. /\ project' \in [deleted : BOOLEAN, head : VersionId]
          /\ conv' \in [Conversations -> [mode : {"iteration", "explanation"},
                                          version : VersionId]]
      BY <1>6, <2>3, <2>4 DEF CommitVersion, TypeOK
    <2>6. versions' \subseteq Jobs /\ buildRun' \in [Jobs -> RunStatus]
      BY <1>0, <1>6, <2>2 DEF CommitVersion, TypeOK
    <2>7. QED
      BY <1>6, <2>1, <2>5, <2>6 DEF CommitVersion, TypeOK
  <1>7. CASE Complete(e)
    <2>1. Released(job[j], "completed") \in JobRow
      BY <1>0, ReleasedRow DEF TypeOK, Status, Terminal
    <2>2. QED
      BY <1>7, <2>1, TypeEnd DEF Complete, TypeOK, RunStatus
  <1>8. CASE FailRun(e)
    <2>1. exec' \in [Executors -> ExecState]
      BY <1>0, <1>8, <1>p, TypeGo DEF FailRun, Go
    <2>2. QED
      BY <2>1, <1>8 DEF FailRun, TypeOK, RunStatus
  <1>9. CASE FailJob(e)
    <2>1. Released(job[j], "failed") \in JobRow
      BY <1>0, ReleasedRow DEF TypeOK, Status
    <2>2. QED
      BY <1>9, <2>1, TypeEnd DEF FailJob, TypeOK
  <1>10. CASE RecordRun(e)
    <2>1. exec' \in [Executors -> ExecState]
      BY <1>0, <1>10, <1>p, TypeGo DEF RecordRun, Go
    <2>2. QED
      BY <2>1, <1>10 DEF RecordRun, TypeOK, RunStatus
  <1>11. CASE AssertLease(e)
    <2>1. exec' \in [Executors -> ExecState]
      BY <1>0, <1>11, <1>p, TypeGo DEF AssertLease, Go
    <2>2. QED
      BY <2>1, <1>11 DEF AssertLease, TypeOK, tables
  <1>12. QED
    BY <1>1, <1>2, <1>3, <1>4, <1>5, <1>6, <1>7, <1>8, <1>9, <1>10, <1>11
       DEF ExecStep

\* A claim, and the faults of an executor.
LEMMA TypeClaim ==
    ASSUME TypeOK, NEW e \in Executors, NEW j \in Jobs, Claim(e, j)
    PROVE  TypeOK'
  <1>1. [job |-> j, pc |-> "claimed", outcome |-> job[j].final] \in ExecState
    BY DEF TypeOK, JobRow, ExecState, ExecPc
  <1>2. QED
    BY <1>1, ClaimTable DEF Claim, ClaimTables, TypeOK, Table

\* What goes wrong for an executor leaves typed tables.
LEMMA TypeExecFault ==
    ASSUME TypeOK, NEW e \in Executors, ExecFault(e)
    PROVE  TypeOK'
  <1>1. CASE PrepareError(e) \/ HandlerError(e)
    <2>1. exec[e].pc # "idle" /\ exec[e].outcome \in Outcome
      BY <1>1, BusyExec DEF PrepareError, HandlerError, At
    <2>2. \E pc \in ExecPc : GoWith(e, pc, exec[e].outcome)
      BY <1>1 DEF PrepareError, HandlerError, Go, ErrorPc, ExecPc
    <2>3. QED
      BY <1>1, <2>1, <2>2, TypeGo DEF PrepareError, HandlerError, TypeOK, tables
  <1>2. CASE Crash(e)
    BY <1>2, TypeEnd DEF Crash, TypeOK, tables
  <1>3. QED
    BY <1>1, <1>2 DEF ExecFault

\* Time and users.
LEMMA TypeEnvironment ==
    ASSUME TypeOK, Environment
    PROVE  TypeOK'
  <1>1. ASSUME NEW j \in Jobs, LapseLease(j)
        PROVE  TypeOK'
    <2>1. \A l \in Leases : [job[j] EXCEPT !.lease = l] \in JobRow
      BY DEF TypeOK, JobRow
    <2>2. QED
      BY <1>1, <2>1 DEF LapseLease, TypeOK, Leases
  <1>2. ASSUME NEW j \in Jobs, CancelJob(j)
        PROVE  TypeOK'
    <2>1. Released(job[j], "cancelled") \in JobRow
      BY ReleasedRow DEF TypeOK, Status, Terminal
    <2>2. QED
      BY <1>2, <2>1 DEF CancelJob, TypeOK
  <1>3. CASE DeleteProject
    <2>1. \A j \in Jobs : Released(job[j], "cancelled") \in JobRow
      BY ReleasedRow DEF TypeOK, Status, Terminal
    <2>2. QED
      BY <1>3, <2>1 DEF DeleteProject, TypeOK, RunStatus
  <1>4. CASE RestoreProject
    BY <1>4 DEF RestoreProject, TypeOK
  <1>5. ASSUME NEW c \in Conversations, NEW m \in {"iteration", "explanation"},
               SetMode(c, m)
        PROVE  TypeOK'
    BY <1>5 DEF SetMode, TypeOK
  <1>6. ASSUME NEW v \in VersionId, NEW h \in VersionId, AdoptHead(v, h)
        PROVE  TypeOK'
    BY <1>6 DEF AdoptHead, TypeOK
  <1>7. ASSUME NEW v \in VersionId, NEW h \in VersionId,
               NEW c \in Conversations, AdoptInto(v, h, c)
        PROVE  TypeOK'
    BY <1>7 DEF AdoptInto, TypeOK
  <1>8. ASSUME NEW e \in Executors, Heartbeat(e)
        PROVE  TypeOK'
    <2>1. exec[e].job \in Jobs
      BY <1>8, BusyExec DEF Heartbeat
    <2>2. [job[exec[e].job] EXCEPT !.lease = "live"] \in JobRow
      BY <2>1 DEF TypeOK, JobRow, Leases
    <2>3. QED
      BY <1>8, <2>1, <2>2 DEF Heartbeat, TypeOK
  <1>9. QED
    BY <1>1, <1>2, <1>3, <1>4, <1>5, <1>6, <1>7, <1>8 DEF Environment, Surroundings

\* A step on the job table, whether or not users may stream runs of their own:
\* what is shown of it holds also where only the consumer makes the claims.
Work == \/ \E e \in Executors : ExecStep(e) \/ ExecFault(e) \/ \E j \in Jobs : Claim(e, j)
        \/ Environment

\* The steps of RoleJobs are of this kind.
LEMMA NextIsWork == (Next => Work) /\ ([Next]_vars => [Work]_vars)
  BY DEF Next, Work, Request

LEMMA TypeNext == TypeOK /\ [Work]_vars => TypeOK'
  <1> SUFFICES ASSUME TypeOK, [Work]_vars PROVE TypeOK'
    OBVIOUS
  <1>1. CASE UNCHANGED vars
    BY <1>1 DEF vars, TypeOK
  <1>2. CASE Work
    BY <1>2, TypeExecStep, TypeClaim, TypeExecFault, TypeEnvironment
       DEF Work
  <1>3. QED
    BY <1>1, <1>2

\* Every table and every executor stays in a state of its schema.
THEOREM TypeCorrect == Spec => []TypeOK
  BY TypeInit, TypeNext, NextIsWork, PTL DEF Spec

-----------------------------------------------------------------------------
(* How the status of a row moves *)

\* Outside of a claim a row keeps its status, or is ended: as failed or
\* cancelled by anybody, as completed only by the executor that owns it.
Ends(k) ==
    \/ job'[k].status = job[k].status
    \/ /\ job[k].status \in Active \cup {"failed"}
       /\ job'[k].status \in {"failed", "cancelled"}
    \/ /\ job'[k].status = "completed"
       /\ \E e \in Executors : exec[e].job = k /\ Owns(e, k)

\* A job only ends as failed or cancelled, or completed by its owner.
LEMMA ExecEnds ==
    ASSUME TypeOK, NEW e \in Executors, ExecStep(e) \/ ExecFault(e),
           NEW k \in Jobs
    PROVE  Ends(k)
  <1>1. CASE job' = job
    BY <1>1 DEF Ends
  <1>2. CASE SaveResult(e) \/ Complete(e) \/ FailJob(e)
    <2>1. exec[e].pc # "idle" /\ exec[e].job \in Jobs
      BY <1>2, BusyExec DEF SaveResult, Complete, FailJob, At
    <2>2. job[exec[e].job] \in JobRow
      BY <2>1 DEF TypeOK
    <2>3. CASE SaveResult(e)
      BY <2>1, <2>2, <2>3 DEF SaveResult, Ends, TypeOK, JobRow
    <2>4. CASE Complete(e)
      <3>1. Released(job[exec[e].job], "completed").status = "completed"
        BY <2>2, ReleasedRow DEF Status, Terminal
      <3>2. QED
        BY <2>1, <2>4, <3>1 DEF Complete, Fence, Ends, TypeOK
    <2>5. CASE FailJob(e)
      <3>1. Released(job[exec[e].job], "failed").status = "failed"
        BY <2>2, ReleasedRow DEF Status
      <3>2. QED
        BY <2>1, <2>5, <3>1 DEF FailJob, Owns, Ends, Active, TypeOK
    <2>6. QED
      BY <1>2, <2>3, <2>4, <2>5
  <1>3. QED
    BY <1>1, <1>2 DEF ExecStep, ExecFault, tables, StartRun, OpenStream, Finish,
         AssertLease, LookUpVersion, CommitVersion, RecordRun, FailRun, PrepareError,
         HandlerError, Crash

LEMMA EnvironmentEnds ==
    ASSUME TypeOK, Environment, NEW k \in Jobs
    PROVE  Ends(k)
  <1>1. job[k] \in JobRow
    BY DEF TypeOK
  <1>2. CASE job' = job
    BY <1>2 DEF Ends
  <1>3. ASSUME NEW j \in Jobs, LapseLease(j)
        PROVE  Ends(k)
    BY <1>1, <1>3 DEF LapseLease, Ends, TypeOK, JobRow
  <1>8. ASSUME NEW e \in Executors, Heartbeat(e)
        PROVE  Ends(k)
    <2>1. exec[e].job \in Jobs
      BY <1>8, BusyExec DEF Heartbeat
    <2>2. QED
      BY <1>1, <1>8, <2>1 DEF Heartbeat, Ends, TypeOK, JobRow
  <1>4. Released(job[k], "cancelled").status = "cancelled"
    BY <1>1, ReleasedRow DEF Status, Terminal
  <1>5. ASSUME NEW j \in Jobs, CancelJob(j)
        PROVE  Ends(k)
    BY <1>4, <1>5 DEF CancelJob, Ends, TypeOK
  <1>6. CASE DeleteProject
    BY <1>4, <1>6 DEF DeleteProject, Ends
  <1>7. QED
    BY <1>2, <1>3, <1>5, <1>6, <1>8
       DEF Environment, Surroundings, RestoreProject, SetMode, AdoptHead, AdoptInto

\* The expiry of the claim fails running rows of c and leaves the others.
LEMMA ExpireMoves ==
    ASSUME NEW t \in Table, NEW c \in Conversations, NEW k \in Jobs
    PROVE  \/ ExpireStmt(t, c)[k] = t[k]
           \/ /\ t[k].status = "running"
              /\ ExpireStmt(t, c)[k] = Released(t[k], "failed")
              /\ ExpireStmt(t, c)[k].status = "failed"
  <1>1. t[k] \in JobRow /\ "failed" \in Status
    BY DEF Table, Status
  <1>2. QED
    BY <1>1, ReleasedRow DEF ExpireStmt, Lapsed

\* The insert touches one row, which it makes active only when it alone is.
LEMMA InsertMoves ==
    ASSUME NEW t \in Table, NEW j \in Jobs
    PROVE  \/ InsertStmt(t, j) = t
           \/ /\ t[j].status = "absent"
              /\ InsertStmt(t, j)[j].status = "queued"
              /\ InsertStmt(t, j)[j].base = conv[ConvOf[j]].version
              /\ InsertStmt(t, j)[j].final = "none"
              /\ \A k \in Jobs \ {j} : InsertStmt(t, j)[k] = t[k]
              /\ NoOtherActive(t, j)
              /\ conv[ConvOf[j]].mode = "iteration"
  BY DEF InsertStmt, Table, NoRow, ScopeOpen

\* So does the take.
LEMMA TakeMoves ==
    ASSUME NEW t \in Table, NEW j \in Jobs, NEW e \in Executors
    PROVE  \/ TakeStmt(t, j, e) = t
           \/ /\ t[j].status \in {"queued", "failed", "running"}
              /\ TakeStmt(t, j, e)[j] = Taken(t[j], e)
              /\ TakeStmt(t, j, e)[j].status = "running"
              /\ \A k \in Jobs \ {j} : TakeStmt(t, j, e)[k] = t[k]
              /\ NoOtherActive(t, j)
              /\ conv[ConvOf[j]].mode = "iteration"
  <1>1. t[j] \in JobRow
    BY DEF Table
  <1>2. QED
    BY <1>1, TakenRow DEF TakeStmt, Table, ScopeOpen

-----------------------------------------------------------------------------
(* One active job in each conversation, in iteration mode *)

OneActiveIn(t) == \A j \in Jobs : t[j].status \in Active => NoOtherActive(t, j)

ModeIn(t) == \A j \in Jobs : t[j].status \in Active
                               => conv[ConvOf[j]].mode = "iteration"

\* Both survive when rows only stop being active.
LEMMA Fewer ==
    ASSUME NEW t \in Table, NEW u \in Table,
           \A k \in Jobs : u[k].status \in Active => t[k].status \in Active
    PROVE  /\ OneActiveIn(t) => OneActiveIn(u)
           /\ ModeIn(t) => ModeIn(u)
  BY DEF OneActiveIn, ModeIn, NoOtherActive

\* And when one row becomes active under the guards of the claim.
LEMMA OneMore ==
    ASSUME NEW t \in Table, NEW u \in Table, NEW j \in Jobs,
           \A k \in Jobs \ {j} : u[k] = t[k],
           NoOtherActive(t, j), conv[ConvOf[j]].mode = "iteration"
    PROVE  /\ OneActiveIn(t) => OneActiveIn(u)
           /\ ModeIn(t) => ModeIn(u)
  BY DEF OneActiveIn, ModeIn, NoOtherActive

\* The order expire, insert, take of the claim batch keeps both.
LEMMA ClaimKeepsOne ==
    ASSUME TypeOK, NEW j \in Jobs, NEW e \in Executors,
           OneActiveIn(job), ModeIn(job)
    PROVE  OneActiveIn(ClaimBatch(job, j, e)) /\ ModeIn(ClaimBatch(job, j, e))
  <1> DEFINE t1 == ExpireStmt(job, ConvOf[j])
             t2 == InsertStmt(t1, j)
             t3 == TakeStmt(t2, j, e)
  <1>0. ConvOf[j] \in Conversations /\ job \in Table
    BY ConstantsAssumption DEF TypeOK, Table
  <1>1. t1 \in Table
    BY <1>0, ExpireTable
  <1>2. t2 \in Table
    BY <1>1, InsertTable
  <1>3. t3 \in Table
    BY <1>2, TakeTable
  <1>4. OneActiveIn(t1) /\ ModeIn(t1)
    <2>1. \A k \in Jobs : t1[k].status \in Active => job[k].status \in Active
      BY <1>0, ExpireMoves DEF Active
    <2>2. QED
      BY <1>0, <1>1, <2>1, Fewer
  <1>5. OneActiveIn(t2) /\ ModeIn(t2)
    <2> HIDE DEF t1, t2
    <2>1. t2 = t1 \/ /\ \A k \in Jobs \ {j} : t2[k] = t1[k]
                     /\ NoOtherActive(t1, j)
                     /\ conv[ConvOf[j]].mode = "iteration"
      BY <1>1, InsertMoves DEF t2
    <2>2. QED
      BY <1>1, <1>2, <1>4, <2>1, OneMore
  <1>6. OneActiveIn(t3) /\ ModeIn(t3)
    <2> HIDE DEF t2, t3
    <2>1. t3 = t2 \/ /\ \A k \in Jobs \ {j} : t3[k] = t2[k]
                     /\ NoOtherActive(t2, j)
                     /\ conv[ConvOf[j]].mode = "iteration"
      BY <1>2, TakeMoves DEF t3
    <2>2. QED
      BY <1>2, <1>3, <1>5, <2>1, OneMore
  <1>7. QED
    BY <1>6 DEF ClaimBatch

\* The mode of a conversation with an active job does not change.
LEMMA ModeStays ==
    ASSUME TypeOK, Work, NEW k \in Jobs, job[k].status \in Active
    PROVE  conv'[ConvOf[k]].mode = conv[ConvOf[k]].mode
  <1>0. ConvOf[k] \in Conversations
    BY ConstantsAssumption
  <1>1. CASE conv' = conv
    BY <1>1
  <1>2. ASSUME NEW e \in Executors, CommitVersion(e)
        PROVE  conv'[ConvOf[k]].mode = conv[ConvOf[k]].mode
    BY <1>0, <1>2 DEF CommitVersion, TypeOK
  <1>3. ASSUME NEW c \in Conversations, NEW m \in {"iteration", "explanation"},
               SetMode(c, m)
        PROVE  conv'[ConvOf[k]].mode = conv[ConvOf[k]].mode
    BY <1>0, <1>3 DEF SetMode, TypeOK
  <1>4. ASSUME NEW v \in VersionId, NEW h \in VersionId,
               NEW c \in Conversations, AdoptInto(v, h, c)
        PROVE  conv'[ConvOf[k]].mode = conv[ConvOf[k]].mode
    BY <1>0, <1>4 DEF AdoptInto, TypeOK
  <1>5. QED
    BY <1>1, <1>2, <1>3, <1>4
       DEF Work, ExecStep, ExecFault, Environment, Surroundings, Claim,
           ClaimTables, tables, StartRun, OpenStream, Finish, SaveResult,
           AssertLease, LookUpVersion, RecordRun, Complete, FailRun, FailJob,
           PrepareError, HandlerError,
           Crash, Heartbeat, LapseLease, CancelJob, DeleteProject, RestoreProject, AdoptHead

\* Inductive together with the types: every active row alone in its
\* conversation, and that conversation an iteration conversation.
ScopeInv == TypeOK /\ OneActiveJob /\ ActiveInIterationMode

LEMMA ScopeInit == Init => ScopeInv
  <1> SUFFICES ASSUME Init PROVE ScopeInv
    OBVIOUS
  <1>1. \A j \in Jobs : job[j].status \notin Active
    BY DEF Init, NoRow, Active
  <1>2. QED
    BY <1>1, TypeInit DEF ScopeInv, OneActiveJob, ActiveInIterationMode

LEMMA ScopeNext == ScopeInv /\ [Work]_vars => ScopeInv'
  <1> SUFFICES ASSUME ScopeInv, [Work]_vars PROVE ScopeInv'
    OBVIOUS
  <1>0. /\ TypeOK /\ TypeOK' /\ job \in Table /\ job' \in Table
        /\ OneActiveIn(job) /\ ModeIn(job)
    BY TypeNext
       DEF ScopeInv, TypeOK, Table, OneActiveJob, OneActiveIn,
           ActiveInIterationMode, ModeIn
  <1>1. CASE UNCHANGED vars
    BY <1>0, <1>1 DEF vars, ScopeInv, OneActiveJob, ActiveInIterationMode,
                      NoOtherActive
  <1>2. CASE Work
    <2>1. /\ OneActiveIn(job') /\ ModeIn(job')
          /\ \A k \in Jobs : job'[k].status \in Active
               => conv'[ConvOf[k]].mode = conv[ConvOf[k]].mode
      <3>1. ASSUME NEW e \in Executors, NEW j \in Jobs, Claim(e, j)
            PROVE  OneActiveIn(job') /\ ModeIn(job') /\ conv' = conv
        BY <1>0, <3>1, ClaimKeepsOne DEF Claim, ClaimTables
      <3>2. CASE Environment \/ \E e \in Executors : ExecStep(e) \/ ExecFault(e)
        <4>1. \A k \in Jobs : Ends(k)
          BY <1>0, <3>2, EnvironmentEnds, ExecEnds
        <4>2. \A k \in Jobs : job'[k].status \in Active => job[k].status \in Active
          BY <4>1 DEF Ends, Active
        <4>3. QED
          BY <1>0, <1>2, <4>2, Fewer, ModeStays
      <3>3. QED
        BY <1>2, <3>1, <3>2 DEF Work
    <2>2. OneActiveJob'
      BY <2>1 DEF OneActiveJob, OneActiveIn, NoOtherActive
    <2>3. ActiveInIterationMode'
      BY <2>1 DEF ActiveInIterationMode, ModeIn
    <2>4. QED
      BY <1>0, <2>2, <2>3 DEF ScopeInv
  <1>3. QED
    BY <1>1, <1>2

\* In every state at most one job of a conversation is active, and only in
\* iteration mode.
THEOREM ScopeCorrect == Spec => []ClaimScope
  <1>1. ScopeInv => ClaimScope
    BY DEF ScopeInv, ClaimScope
  <1>2. QED
    BY <1>1, ScopeInit, ScopeNext, NextIsWork, PTL DEF Spec

-----------------------------------------------------------------------------
(* Fencing and final states *)

\* A new version belongs to the executor that owns its job.
LEMMA VersionsFenced ==
    ASSUME TypeOK, Work, NEW j \in versions' \ versions
    PROVE  /\ \E e \in Executors : exec[e].job = j /\ Owns(e, j)
           /\ ~project.deleted
  <1>1. ASSUME NEW e \in Executors, CommitVersion(e)
        PROVE  /\ exec[e].job = j /\ Owns(e, j)
               /\ ~project.deleted
    BY <1>1 DEF CommitVersion, InsertsVersion, Fence
  <1>2. CASE versions' = versions
    BY <1>2
  <1>3. QED
    BY <1>1, <1>2
       DEF Work, ExecStep, ExecFault, Environment, Surroundings, Claim,
           ClaimTables, tables, StartRun, OpenStream, Finish, SaveResult,
           AssertLease, LookUpVersion, RecordRun, Complete, FailRun, FailJob,
           PrepareError, HandlerError,
           Crash, Heartbeat, LapseLease, CancelJob, DeleteProject, RestoreProject, SetMode,
           AdoptHead, AdoptInto

\* Whoever lost a job can neither publish a version for it nor, after the
\* deletion of the project, anything at all.
THEOREM VersionsAreFenced == Spec => FencedVersions
  <1>1. TypeOK /\ [Next]_vars
          => [\A j \in versions' \ versions :
                /\ \E e \in Executors : exec[e].job = j /\ Owns(e, j)
                /\ ~project.deleted]_vars
    BY VersionsFenced, NextIsWork
  <1>2. QED
    BY <1>1, TypeInit, TypeNext, NextIsWork, PTL DEF Spec, FencedVersions

\* The claim ends or restarts no job that is completed or cancelled.
LEMMA ClaimStatus ==
    ASSUME TypeOK, NEW e \in Executors, NEW j \in Jobs, Claim(e, j), NEW k \in Jobs
    PROVE  /\ job'[k].status = "completed" => job[k].status = "completed"
           /\ job[k].status \in Terminal => job'[k] = job[k]
  <1> DEFINE t1 == ExpireStmt(job, ConvOf[j])
             t2 == InsertStmt(t1, j)
             t3 == TakeStmt(t2, j, e)
  <1>0. ConvOf[j] \in Conversations /\ job \in Table
    BY ConstantsAssumption DEF TypeOK, Table
  <1>1. t1 \in Table /\ t2 \in Table
    BY <1>0, ExpireTable, InsertTable
  <1>2. t1[k] = job[k] \/ (job[k].status = "running" /\ t1[k].status = "failed")
    BY <1>0, ExpireMoves
  <1>3. t2[k] = t1[k] \/ (t1[k].status = "absent" /\ t2[k].status = "queued")
    BY <1>1, InsertMoves
  <1>4. t3[k] = t2[k] \/ /\ t2[k].status \in {"queued", "failed", "running"}
                         /\ t3[k].status = "running"
    <2> HIDE DEF t2
    <2>1. QED
      BY <1>1, TakeMoves
  <1>5. job' = t3
    BY DEF Claim, ClaimTables, ClaimBatch
  <1> HIDE DEF t1, t2, t3
  <1>6. QED
    BY <1>2, <1>3, <1>4, <1>5 DEF Terminal

\* Only the executor that owns a job completes it.
THEOREM CompletionIsFenced == Spec => FencedCompletion
  <1>1. TypeOK /\ [Next]_vars
          => [\A j \in Jobs :
                (job[j].status # "completed" /\ job'[j].status = "completed")
                  => \E e \in Executors : exec[e].job = j /\ Owns(e, j)]_vars
    <2> SUFFICES ASSUME TypeOK, Next, NEW k \in Jobs,
                        job[k].status # "completed", job'[k].status = "completed"
                 PROVE  \E e \in Executors : exec[e].job = k /\ Owns(e, k)
      OBVIOUS
    <2>1. \A e \in Executors, j \in Jobs : ~Claim(e, j)
      BY ClaimStatus
    <2>2. Ends(k)
      BY <2>1, ExecEnds, EnvironmentEnds DEF Next, Request
    <2>3. QED
      BY <2>2 DEF Ends
  <1>2. QED
    BY <1>1, TypeInit, TypeNext, NextIsWork, PTL DEF Spec, FencedCompletion

\* Both fences together.
THEOREM WritesAreFenced == Spec => FencedWrites
  BY VersionsAreFenced, CompletionIsFenced, PTL DEF FencedWrites

\* Completed and cancelled jobs stay so, and publish nothing afterwards.
THEOREM TerminalStay == Spec => TerminalJobsStay
  <1>1. TypeOK /\ [Next]_vars
          => [\A j \in Jobs : job[j].status \in Terminal
                => /\ job'[j].status = job[j].status
                   /\ j \notin versions => j \notin versions']_vars
    <2> SUFFICES ASSUME TypeOK, Next, NEW k \in Jobs, job[k].status \in Terminal
                 PROVE  /\ job'[k].status = job[k].status
                        /\ k \notin versions => k \notin versions'
      OBVIOUS
    <2>1. \A e \in Executors : ~Owns(e, k)
      BY DEF Owns, Terminal
    <2>2. k \notin versions => k \notin versions'
      BY <2>1, VersionsFenced, NextIsWork
    <2>3. CASE \E e \in Executors, j \in Jobs : Claim(e, j)
      BY <2>2, <2>3, ClaimStatus
    <2>4. CASE ~\E e \in Executors, j \in Jobs : Claim(e, j)
      <3>1. Ends(k)
        BY <2>4, ExecEnds, EnvironmentEnds DEF Next, Request
      <3>2. QED
        BY <2>1, <2>2, <3>1 DEF Ends, Terminal, Active
    <2>5. QED
      BY <2>3, <2>4
  <1>2. QED
    BY <1>1, TypeInit, TypeNext, NextIsWork, PTL DEF Spec, TerminalJobsStay

-----------------------------------------------------------------------------
(* Versions exist: what an executor knows of its job                        *)

\* A row has an owner while it runs, and a result that its kind of run has.
RowsOK ==
    \A k \in Jobs : /\ job[k].final \in {"none"} \cup Outcomes(k)
                    /\ job[k].status = "running" => job[k].owner # NoOwner

\* A version comes from a run, that of a build from one to adopt.
VersionsOK ==
    \A k \in versions : /\ job[k].status # "absent"
                        /\ k \in Builds => job[k].final = "adopt"

\* The result that an executor goes on with is the saved one, unless it has
\* lost its lease, and an iteration asks for the lease before it commits.
ExecOK(e) ==
    LET j == exec[e].job
        o == exec[e].outcome
    IN  exec[e].pc # "idle" =>
          /\ o \in {"none"} \cup Outcomes(j)
          /\ job[j].status # "absent"
          /\ Owns(e, j) /\ exec[e].pc \notin {"failing", "releasing", "leaked"} =>
                job[j].final \in {"none", o}
          /\ exec[e].pc \in {"reporting", "saving", "looking", "committing"} => o # "none"
          /\ exec[e].pc \in {"saving", "looking", "committing"} =>
                o # "draft" /\ (Fence(e, j) => job[j].final = o)
          /\ exec[e].pc \in {"looking", "committing"} /\ j \notin Builds => job[j].final = o
          /\ exec[e].pc = "completing" /\ j \notin Builds => j \in versions

ResultInv == RowsOK /\ VersionsOK /\ \A e \in Executors : ExecOK(e)

\* What every statement but the claim's and the checkpoint's leaves of a row.
SameRow(k) ==
    /\ job'[k].final = job[k].final
    /\ job'[k].base = job[k].base
    /\ job[k].status # "absent" => job'[k].status # "absent"
    /\ job'[k].status = "running" => /\ job[k].status = "running"
                                     /\ job'[k].owner = job[k].owner
    /\ \A e \in Executors : /\ Owns(e, k)' => Owns(e, k)
                            /\ Fence(e, k)' => Fence(e, k)

\* Rows that are left alone, released or renewed.
LEMMA UnchangedRow ==
    ASSUME NEW k \in Jobs, job'[k] = job[k]
    PROVE  SameRow(k)
  BY DEF SameRow, Owns, Fence

\* A row that is released keeps its result, base and origin.
LEMMA ReleasedSame ==
    ASSUME TypeOK, NEW k \in Jobs, NEW st \in Status \ {"absent", "running"},
           job'[k] = Released(job[k], st)
    PROVE  SameRow(k)
  <1>1. job[k] \in JobRow
    BY DEF TypeOK
  <1>2. QED
    BY <1>1, ReleasedRow DEF SameRow, Owns, Fence

\* So does a row whose lease alone changes, and time brings no lease back.
LEMMA LeaseSame ==
    ASSUME TypeOK, NEW k \in Jobs, NEW l \in Leases,
           job'[k] = [job[k] EXCEPT !.lease = l],
           l \in {"live", "expiring"} => job[k].lease \in {"live", "expiring"}
    PROVE  SameRow(k)
  <1>1. job[k] \in JobRow
    BY DEF TypeOK
  <1>2. QED
    BY <1>1 DEF SameRow, Owns, Fence, JobRow

\* The statements of the executors ...
LEMMA ExecSame ==
    ASSUME TypeOK, NEW e \in Executors, ExecStep(e) \/ ExecFault(e), ~SaveResult(e),
           NEW k \in Jobs
    PROVE  SameRow(k)
  <1>1. CASE job' = job
    BY <1>1, UnchangedRow
  <1>2. CASE Complete(e) \/ FailJob(e)
    <2>1. exec[e].pc # "idle" /\ exec[e].job \in Jobs
      BY <1>2, BusyExec DEF Complete, FailJob, At
    <2>2. \/ job'[k] = job[k]
          \/ \E st \in {"completed", "failed"} : job'[k] = Released(job[k], st)
      BY <1>2, <2>1 DEF Complete, FailJob, TypeOK
    <2>3. QED
      BY <2>2, UnchangedRow, ReleasedSame DEF Status, Terminal
  <1>3. QED
    BY <1>1, <1>2 DEF ExecStep, ExecFault, tables, StartRun, OpenStream, Finish,
         AssertLease, LookUpVersion, CommitVersion, RecordRun, FailRun, PrepareError,
         HandlerError, Crash

\* ... and those of time and users.
LEMMA EnvironmentSame ==
    ASSUME TypeOK, Environment, NEW k \in Jobs
    PROVE  SameRow(k)
  <1>1. job[k] \in JobRow /\ job \in [Jobs -> JobRow]
    BY DEF TypeOK
  <1>2. CASE job' = job
    BY <1>2, UnchangedRow
  <1>3. ASSUME NEW j \in Jobs, LapseLease(j)
        PROVE  SameRow(k)
    <2>1. \/ job'[k] = job[k]
          \/ /\ job[k].lease = "live"
             /\ job'[k] = [job[k] EXCEPT !.lease = "expiring"]
          \/ job'[k] = [job[k] EXCEPT !.lease = "lapsed"]
      BY <1>1, <1>3 DEF LapseLease
    <2>2. QED
      BY <2>1, UnchangedRow, LeaseSame DEF Leases
  <1>4. ASSUME NEW e \in Executors, Heartbeat(e)
        PROVE  SameRow(k)
    <2>1. exec[e].job \in Jobs
      BY <1>4, BusyExec DEF Heartbeat
    <2>2. \/ job'[k] = job[k]
          \/ /\ job[k].lease \in {"live", "expiring"}
             /\ job'[k] = [job[k] EXCEPT !.lease = "live"]
      BY <1>1, <1>4, <2>1 DEF Heartbeat, Fence
    <2>3. QED
      BY <2>2, UnchangedRow, LeaseSame DEF Leases
  <1>5. CASE DeleteProject \/ \E j \in Jobs : CancelJob(j)
    <2>1. job'[k] = job[k] \/ job'[k] = Released(job[k], "cancelled")
      BY <1>1, <1>5 DEF DeleteProject, CancelJob
    <2>2. QED
      BY <2>1, UnchangedRow, ReleasedSame DEF Status, Terminal
  <1>6. QED
    BY <1>2, <1>3, <1>4, <1>5
       DEF Environment, Surroundings, RestoreProject, SetMode, AdoptHead, AdoptInto

\* The claim inserts a row without a result, on the version the conversation
\* shows, and gives what it takes to the claiming executor.
LEMMA ClaimSame ==
    ASSUME TypeOK, NEW e \in Executors, NEW j \in Jobs, Claim(e, j), NEW k \in Jobs
    PROVE  /\ \/ job'[k].final = job[k].final /\ job'[k].base = job[k].base
              \/ /\ job[k].status = "absent"
                 /\ job'[k].final = "none"
                 /\ job'[k].base = conv[ConvOf[k]].version
           /\ job[k].status # "absent" => job'[k].status # "absent"
           /\ job'[k].status = "running" =>
                 \/ job'[k].owner = e
                 \/ job[k].status = "running" /\ job'[k] = job[k]
  <1> DEFINE t1 == ExpireStmt(job, ConvOf[j])
             t2 == InsertStmt(t1, j)
             t3 == TakeStmt(t2, j, e)
  <1>0. ConvOf[j] \in Conversations /\ job \in Table
    BY ConstantsAssumption DEF TypeOK, Table
  <1>1. t1 \in Table /\ t2 \in Table
    BY <1>0, ExpireTable, InsertTable
  <1>2. \/ t1[k] = job[k]
        \/ /\ job[k].status = "running" /\ t1[k].status = "failed"
           /\ t1[k].final = job[k].final /\ t1[k].base = job[k].base
    <2>1. job[k] \in JobRow /\ "failed" \in Status
      BY <1>0 DEF Table, Status
    <2>2. /\ Released(job[k], "failed").final = job[k].final
          /\ Released(job[k], "failed").base = job[k].base
      BY <2>1, ReleasedRow
    <2>3. QED
      BY <1>0, <2>2, ExpireMoves
  <1>3. \/ t2[k] = t1[k]
        \/ /\ t1[k].status = "absent" /\ t2[k].status = "queued"
           /\ t2[k].final = "none"
           /\ t2[k].base = conv[ConvOf[k]].version
    BY <1>1, InsertMoves
  <1>4. \/ t3[k] = t2[k]
        \/ /\ t2[k].status \in {"queued", "failed", "running"}
           /\ t3[k].status = "running" /\ t3[k].owner = e
           /\ t3[k].final = t2[k].final /\ t3[k].base = t2[k].base
    <2> HIDE DEF t2
    <2>1. t2[k] \in JobRow
      BY <1>1 DEF Table
    <2>2. /\ Taken(t2[k], e).owner = e
          /\ Taken(t2[k], e).final = t2[k].final
          /\ Taken(t2[k], e).base = t2[k].base
      BY <2>1, TakenRow
    <2>3. QED
      BY <1>1, <2>2, TakeMoves
  <1>5. job' = t3
    BY DEF Claim, ClaimTables, ClaimBatch
  <1> HIDE DEF t1, t2, t3
  <1>6. QED
    BY <1>2, <1>3, <1>4, <1>5

\* What another executor knows of its job stays true.
LEMMA OtherExec ==
    ASSUME TypeOK, NEW e \in Executors, ExecOK(e), exec'[e] = exec[e],
           versions \subseteq versions',
           exec[e].pc # "idle" => SameRow(exec[e].job)
    PROVE  ExecOK(e)'
  <1>1. exec[e].pc # "idle" => exec[e].job \in Jobs
    BY BusyExec
  <1>2. Outcomes(exec[e].job)' = Outcomes(exec[e].job)
    BY DEF Outcomes
  <1>3. QED
    BY <1>1 DEF ExecOK, SameRow, Outcomes

\* No version is ever removed.
LEMMA VersionsGrow ==
    ASSUME [Work]_vars
    PROVE  versions \subseteq versions'
  BY DEF Work, ExecStep, ExecFault, Environment, Surroundings, Claim, vars,
         ClaimTables, tables, StartRun, OpenStream, Finish, SaveResult, CommitVersion,
         AssertLease, LookUpVersion, RecordRun, Complete, FailRun, FailJob,
         PrepareError, HandlerError, Crash, Heartbeat, LapseLease, CancelJob,
         DeleteProject, RestoreProject, SetMode, AdoptHead, AdoptInto

\* Where a step leaves its executor.
LEMMA GoFacts ==
    ASSUME TypeOK, NEW e \in Executors, exec[e].pc # "idle", NEW pc, NEW o, GoWith(e, pc, o)
    PROVE  /\ exec'[e].pc = pc /\ exec'[e].outcome = Kept(o, pc)
           /\ exec'[e].job = exec[e].job
           /\ \A d \in Executors \ {e} : exec'[d] = exec[d]
  <1>1. exec \in [Executors -> ExecState]
    BY DEF TypeOK
  <1>2. exec[e] \in [job : Jobs, pc : ExecPc, outcome : Outcome]
    BY BusyExec
  <1>3. QED
    BY <1>1, <1>2 DEF GoWith

\* An executor that ends is idle.
LEMMA EndFacts ==
    ASSUME TypeOK, NEW e \in Executors, End(e)
    PROVE  exec'[e].pc = "idle" /\ \A d \in Executors \ {e} : exec'[d] = exec[d]
  BY DEF TypeOK, End, IdleExec

\* The checkpoint writes a result that no other one stands in for.
LEMMA SaveRow ==
    ASSUME TypeOK, NEW e \in Executors, ExecOK(e), SaveResult(e), NEW k \in Jobs
    PROVE  \/ SameRow(k)
           \/ /\ k = exec[e].job /\ Owns(e, k) /\ Owns(e, k)'
              /\ job[k].final = "none" /\ job'[k].final = exec[e].outcome
              /\ job'[k].base = job[k].base
              /\ job'[k].status = "running"
              /\ job'[k].owner = job[k].owner
  <1>1. exec[e].pc # "idle" /\ exec[e].job \in Jobs
    BY BusyExec DEF SaveResult, At
  <1>2. CASE job'[k] = job[k]
    BY <1>2, UnchangedRow
  <1>3. CASE /\ k = exec[e].job /\ Fence(e, k)
             /\ job'[k] = [job[k] EXCEPT !.final = exec[e].outcome, !.lease = "live"]
    <2>1. job[k] \in JobRow
      BY DEF TypeOK
    <2>2. Owns(e, k) /\ job[k].lease \in {"live", "expiring"}
      BY <1>3 DEF Fence
    <2>3. job[k].final \in {"none", exec[e].outcome}
      BY <1>1, <1>3, <2>2 DEF ExecOK, SaveResult, At
    <2>4. /\ job'[k].final = exec[e].outcome /\ job'[k].lease = "live"
          /\ job'[k].status = job[k].status /\ job'[k].owner = job[k].owner
          /\ job'[k].base = job[k].base
      BY <1>3, <2>1 DEF JobRow
    <2>5. CASE job[k].final = "none"
      BY <1>3, <2>2, <2>4, <2>5 DEF Owns
    <2>6. CASE job[k].final = exec[e].outcome
      BY <2>2, <2>4, <2>6 DEF SameRow, Owns, Fence
    <2>7. QED
      BY <2>3, <2>5, <2>6
  <1>4. QED
    BY <1>1, <1>2, <1>3 DEF SaveResult, TypeOK

\* The steps of a busy executor.
LEMMA BusyStep ==
    ASSUME TypeOK, ResultInv, NEW e \in Executors, ExecStep(e) \/ ExecFault(e),
           ~(Complete(e) \/ FailJob(e) \/ Crash(e)),
           versions \subseteq versions', exec[e].pc # "idle",
           NEW j \in Jobs, j = exec[e].job, NEW o, o = exec[e].outcome
    PROVE  ExecOK(e)'
  <1>0. ExecOK(e) /\ job[j].final \in {"none"} \cup Outcomes(j)
    BY DEF ResultInv, RowsOK
  <1>1. /\ o \in {"none"} \cup Outcomes(j) /\ job[j].status # "absent"
        /\ Owns(e, j) /\ exec[e].pc \notin {"failing", "releasing", "leaked"} =>
              job[j].final \in {"none", o}
    BY <1>0 DEF ExecOK
  <1>2. (\A k : Outcomes(k)' = Outcomes(k)) /\ \A pc : Kept(o, pc) \in {"none", o}
    BY DEF Outcomes, Kept
  \* A step to a place where nothing is claimed of the result.
  <1>3. ASSUME NEW pc, Go(e, pc), SameRow(j),
               pc \notin {"reporting", "saving", "looking", "committing"},
               pc = "completing" /\ j \notin Builds => j \in versions',
               exec[e].pc \in {"failing", "releasing", "leaked"} =>
                  pc \in {"failing", "releasing", "leaked"}
        PROVE  ExecOK(e)'
    <2>1. /\ exec'[e].pc = pc /\ exec'[e].outcome = Kept(o, pc) /\ exec'[e].job = j
      BY <1>0, <1>3, GoFacts DEF Go
    <2>2. pc \notin {"failing", "releasing", "leaked"} => Kept(o, pc) = o
      BY DEF Kept
    <2>3. QED
      BY <1>1, <1>2, <1>3, <2>1, <2>2 DEF ExecOK, SameRow
  <1>4. CASE SaveResult(e)
    <2>1. \E pc \in {"completing", "looking", "saving"} :
             /\ GoWith(e, pc, o)
             /\ pc = "completing" <=> o = "draft"
             /\ pc = "looking" => j \in Builds
      BY <1>4 DEF SaveResult, Go
    <2>2. PICK pc \in {"completing", "looking", "saving"} :
             /\ exec'[e].pc = pc /\ exec'[e].outcome = o /\ exec'[e].job = j
             /\ pc = "completing" <=> o = "draft"
             /\ pc = "looking" => j \in Builds
      BY <1>0, <2>1, GoFacts DEF Kept
    <2>3. o # "none" /\ (o = "draft" => j \in Builds)
      BY <1>0, <1>1, <1>4 DEF ExecOK, SaveResult, At, Outcomes
    <2>4. job[j] \in JobRow
      BY <1>0 DEF TypeOK
    <2>5. \/ job'[j] = job[j] /\ ~Fence(e, j)
          \/ job'[j] = [job[j] EXCEPT !.final = o, !.lease = "live"]
      BY <1>0, <1>4 DEF SaveResult, TypeOK
    <2>6. /\ job'[j].status = job[j].status /\ job'[j].owner = job[j].owner
          /\ job'[j].final \in {job[j].final, o}
          /\ Fence(e, j)' => job'[j].final = o
      BY <2>4, <2>5 DEF JobRow, Fence, Owns
    <2>7. Owns(e, j)' => job'[j].final \in {"none", o}
      BY <1>1, <1>4, <2>6 DEF Owns, SaveResult, At
    <2>8. QED
      BY <1>1, <1>2, <2>2, <2>3, <2>6, <2>7 DEF ExecOK
  <1>5. CASE job' = job
    <2>0. SameRow(j)
      BY <1>0, <1>5, UnchangedRow
    <2>1. CASE StartRun(e) \/ OpenStream(e) \/ RecordRun(e) \/ FailRun(e)
                  \/ PrepareError(e) \/ HandlerError(e)
      <3>1. \E pc \in {"preparing", "working", "closing", "releasing", "leaked", "failing"} :
               /\ Go(e, pc)
               /\ exec[e].pc \in {"failing", "releasing", "leaked"} =>
                     pc \in {"failing", "releasing", "leaked"}
        BY <2>1 DEF StartRun, OpenStream, RecordRun, FailRun, PrepareError, HandlerError,
                    ErrorPc, At
      <3>2. QED
        BY <1>3, <2>0, <3>1
    <2>2. CASE Finish(e)
      <3>1. CASE Go(e, "failing")
        BY <1>3, <2>0, <3>1
      <3>2. ASSUME NEW p \in IF o = "none" THEN Outcomes(j) ELSE {o}, At(e, "working"),
                   GoWith(e, "reporting", p)
            PROVE  ExecOK(e)'
        <4>1. p \in Outcomes(j) /\ p # "none" /\ Kept(p, "reporting") = p /\ p \in {p, o}
          BY <1>1, <3>2 DEF Outcomes, Kept
        <4>2. exec'[e].pc = "reporting" /\ exec'[e].outcome = p /\ exec'[e].job = j
          BY <1>0, <3>2, <4>1, GoFacts
        <4>3. Owns(e, j) => job[j].final \in {"none", p}
          BY <1>1, <3>2 DEF At
        <4>4. QED
          BY <1>1, <1>2, <2>0, <4>1, <4>2, <4>3 DEF ExecOK, SameRow
      <3>3. QED
        BY <2>2, <3>1, <3>2 DEF Finish
    <2>3. ASSUME NEW pc \in {"looking", "committing"}, Go(e, pc),
                 exec[e].pc \in {"saving", "looking"},
                 exec[e].pc = "saving" => Holds(e, j)
          PROVE  ExecOK(e)'
      <3>1. exec'[e].pc = pc /\ exec'[e].outcome = o /\ exec'[e].job = j
        BY <1>0, <2>3, GoFacts DEF Go, Kept
      <3>2. /\ o # "none" /\ o # "draft" /\ (Fence(e, j) => job[j].final = o)
            /\ exec[e].pc = "looking" /\ j \notin Builds => job[j].final = o
        BY <1>0, <2>3 DEF ExecOK
      <3>3. Holds(e, j) => Fence(e, j)
        BY DEF Holds, Fence
      <3>4. job'[j].final = job[j].final /\ job'[j].status # "absent"
            /\ (Fence(e, j)' => Fence(e, j)) /\ (Owns(e, j)' => Owns(e, j))
        BY <1>1, <2>0 DEF SameRow
      <3>5. j \notin Builds => job[j].final = o
        BY <2>3, <3>2, <3>3
      <3>6. QED
        BY <1>1, <1>2, <2>3, <3>1, <3>2, <3>4, <3>5 DEF ExecOK
    <2>4. CASE AssertLease(e)
      BY <1>3, <2>0, <2>3, <2>4 DEF AssertLease, At
    <2>5. CASE LookUpVersion(e)
      <3>1. CASE Go(e, "committing")
        BY <2>3, <2>5, <3>1 DEF LookUpVersion, At
      <3>2. CASE Go(e, "completing") /\ j \in versions
        BY <1>3, <2>0, <2>5, <3>2 DEF LookUpVersion, At
      <3>3. CASE Go(e, ErrorPc(e))
        BY <1>3, <2>0, <2>5, <3>3 DEF ErrorPc
      <3>4. QED
        BY <2>5, <3>1, <3>2, <3>3 DEF LookUpVersion
    <2>6. CASE CommitVersion(e)
      <3>1. VersionExists(e, j) => j \in versions'
        BY <2>6 DEF CommitVersion, VersionExists, DuplicateRun
      <3>2. CASE Go(e, "completing") /\ VersionExists(e, j)
        BY <1>3, <2>0, <2>6, <3>1, <3>2 DEF CommitVersion, At
      <3>3. CASE Go(e, ErrorPc(e))
        BY <1>3, <2>0, <2>6, <3>3 DEF ErrorPc
      <3>4. QED
        BY <2>6, <3>2, <3>3 DEF CommitVersion
    <2>7. ~SaveResult(e) => StartRun(e) \/ OpenStream(e) \/ RecordRun(e) \/ FailRun(e)
             \/ PrepareError(e) \/ HandlerError(e) \/ Finish(e) \/ AssertLease(e)
             \/ LookUpVersion(e) \/ CommitVersion(e)
      BY DEF ExecStep, ExecFault
    <2>8. QED
      BY <1>4, <2>1, <2>2, <2>4, <2>5, <2>6, <2>7
  <1>6. QED
    BY <1>5, <1>4 DEF ExecStep, ExecFault, tables, StartRun, OpenStream, Finish,
       AssertLease, LookUpVersion, CommitVersion, RecordRun, FailRun, PrepareError,
       HandlerError

\* An executor keeps its account of its job in every step of its own.
LEMMA OwnExec ==
    ASSUME TypeOK, ResultInv, NEW e \in Executors, ExecStep(e) \/ ExecFault(e),
           versions \subseteq versions'
    PROVE  ExecOK(e)'
  <1>1. CASE Complete(e) \/ FailJob(e) \/ Crash(e)
    BY <1>1, EndFacts DEF Complete, FailJob, Crash, ExecOK
  <1>2. CASE ~(Complete(e) \/ FailJob(e) \/ Crash(e))
    <2>1. exec[e].pc # "idle"
      BY <1>2 DEF ExecStep, ExecFault, At, StartRun, OpenStream, Finish, SaveResult,
             AssertLease, LookUpVersion, CommitVersion, RecordRun, FailRun,
             PrepareError, HandlerError
    <2>2. QED
      BY <1>2, <2>1, BusyExec, BusyStep
  <1>3. QED
    BY <1>1, <1>2

\* The one statement that adds a version does so under the lease, for the
\* result that is saved.
LEMMA CommitNew ==
    ASSUME TypeOK, ResultInv, Work, NEW k \in versions' \ versions
    PROVE  /\ k \in Jobs /\ job[k].status # "absent" /\ job' = job
           /\ k \in Builds => job[k].final = "adopt"
  <1>1. PICK e \in Executors : CommitVersion(e)
    BY DEF Work, ExecStep, ExecFault, Environment, Surroundings, Claim,
           ClaimTables, tables, StartRun, OpenStream, Finish, SaveResult,
           AssertLease, LookUpVersion, RecordRun, Complete, FailRun, FailJob,
           PrepareError, HandlerError,
           Crash, Heartbeat, LapseLease, CancelJob, DeleteProject, RestoreProject, SetMode,
           AdoptHead, AdoptInto
  <1>2. k = exec[e].job /\ Fence(e, k) /\ exec[e].pc = "committing"
    BY <1>1 DEF CommitVersion, InsertsVersion, At
  <1>3. k \in Jobs
    BY <1>2, BusyExec
  <1>4. ExecOK(e)
    BY DEF ResultInv
  <1>5. /\ exec[e].outcome \in {"none"} \cup Outcomes(k) /\ exec[e].outcome \notin {"none", "draft"}
        /\ job[k].final = exec[e].outcome /\ job[k].status # "absent"
    BY <1>2, <1>4 DEF ExecOK
  <1>6. QED
    BY <1>1, <1>3, <1>5 DEF CommitVersion, Outcomes

\* Each row, by the statement that wrote it.
LEMMA RowsNext ==
    ASSUME TypeOK, ResultInv, Work, NEW k \in Jobs
    PROVE  \/ SameRow(k)
           \/ \E e \in Executors :
                 /\ SaveResult(e) /\ k = exec[e].job /\ Owns(e, k) /\ Owns(e, k)'
                 /\ job[k].final = "none" /\ job'[k].final = exec[e].outcome
                 /\ job'[k].base = job[k].base
                 /\ job'[k].status = "running"
                 /\ job'[k].owner = job[k].owner
           \/ \E e \in Executors, j \in Jobs : Claim(e, j)
  BY SaveRow, ExecSame, EnvironmentSame DEF Work, ResultInv

\* The result of a completed job stays with it, and a version with its job.
LEMMA RowsOKNext ==
    ASSUME TypeOK, ResultInv, Work
    PROVE  RowsOK' /\ VersionsOK'
  <1>1. \A k : Outcomes(k)' = Outcomes(k)
    BY DEF Outcomes
  <1>2. RowsOK'
    <2>1. SUFFICES ASSUME NEW k \in Jobs
                   PROVE  /\ job'[k].final \in {"none"} \cup Outcomes(k)
                          /\ job'[k].status = "running" => job'[k].owner # NoOwner
      BY <1>1 DEF RowsOK
    <2>2. /\ job[k].final \in {"none"} \cup Outcomes(k)
          /\ job[k].status = "running" => job[k].owner # NoOwner
      BY DEF ResultInv, RowsOK
    <2>3. CASE SameRow(k)
      BY <2>2, <2>3 DEF SameRow
    <2>4. ASSUME NEW e \in Executors, SaveResult(e), k = exec[e].job, Owns(e, k),
                 job'[k].final = exec[e].outcome, job'[k].owner = job[k].owner
          PROVE  /\ job'[k].final \in {"none"} \cup Outcomes(k)
                 /\ job'[k].status = "running" => job'[k].owner # NoOwner
      BY <2>2, <2>4 DEF ResultInv, ExecOK, SaveResult, At, Owns
    <2>5. ASSUME NEW e \in Executors, NEW j \in Jobs, Claim(e, j)
          PROVE  /\ job'[k].final \in {"none"} \cup Outcomes(k)
                 /\ job'[k].status = "running" => job'[k].owner # NoOwner
      BY <2>2, <2>5, ClaimSame, ConstantsAssumption
    <2>6. QED
      BY <2>3, <2>4, <2>5, RowsNext
  <1>3. VersionsOK'
    <2>1. SUFFICES ASSUME NEW k \in versions'
                   PROVE  /\ job'[k].status # "absent"
                          /\ k \in Builds => job'[k].final = "adopt"
      BY DEF VersionsOK
    <2>2. CASE k \in versions
      <3>1. k \in Jobs /\ job[k].status # "absent" /\ (k \in Builds => job[k].final = "adopt")
        BY <2>2 DEF ResultInv, VersionsOK, TypeOK
      <3>2. CASE SameRow(k)
        BY <3>1, <3>2 DEF SameRow
      <3>3. ASSUME NEW e \in Executors, NEW j \in Jobs, Claim(e, j)
            PROVE  /\ job'[k].status # "absent"
                   /\ k \in Builds => job'[k].final = "adopt"
        BY <3>1, <3>3, ClaimSame
      <3>4. QED
        BY <3>1, <3>2, <3>3, RowsNext
    <2>3. CASE k \notin versions
      BY <2>3, CommitNew
    <2>4. QED
      BY <2>2, <2>3
  <1>4. QED
    BY <1>2, <1>3

\* What another executor knows stays true next to a checkpoint and a claim.
LEMMA OtherNext ==
    ASSUME TypeOK, ResultInv, Work, NEW d \in Executors, exec'[d] = exec[d]
    PROVE  ExecOK(d)'
  <1>0. ExecOK(d) /\ versions \subseteq versions'
    BY VersionsGrow DEF ResultInv
  <1>1. CASE exec[d].pc = "idle"
    BY <1>1 DEF ExecOK
  <1>2. CASE exec[d].pc # "idle"
    <2>1. PICK k \in Jobs : k = exec[d].job
      BY <1>2, BusyExec
    <2>2. CASE SameRow(k)
      BY <1>0, <2>1, <2>2, OtherExec
    <2>3. ASSUME NEW e \in Executors, SaveResult(e), k = exec[e].job, Owns(e, k), Owns(e, k)',
                 job[k].final = "none", job'[k].status = "running"
          PROVE  ExecOK(d)'
      <3>1. d # e
        <4>1. exec[e].pc = "reporting" /\ exec'[e].pc # "reporting"
          BY <2>3, GoFacts DEF SaveResult, At, Go
        <4>2. QED
          BY <4>1
      <3>2. ~Owns(d, k)' /\ ~Fence(d, k)'
        BY <2>3, <3>1 DEF Owns, Fence
      <3>3. ~(exec[d].pc \in {"looking", "committing"} /\ k \notin Builds)
        BY <1>0, <2>1, <2>3 DEF ExecOK
      <3>4. QED
        BY <1>0, <2>1, <2>3, <3>2, <3>3 DEF ExecOK, Outcomes
    <2>4. ASSUME NEW e \in Executors, NEW j \in Jobs, Claim(e, j)
          PROVE  ExecOK(d)'
      <3>1. /\ job[k].status # "absent"
            /\ job'[k].final = job[k].final /\ job'[k].status # "absent"
        BY <1>0, <1>2, <2>1, <2>4, ClaimSame DEF ExecOK
      <3>2. (Owns(d, k)' => Owns(d, k)) /\ (Fence(d, k)' => Fence(d, k))
        <4>1. CASE d # e
          BY <2>4, <4>1, ClaimSame DEF Owns, Fence
        <4>2. CASE d = e
          BY <1>2, <2>4, <4>2 DEF Claim, At
        <4>3. QED
          BY <4>1, <4>2
      <3>3. QED
        BY <1>0, <2>1, <3>1, <3>2 DEF ExecOK, Outcomes
    <2>5. QED
      BY <2>2, <2>3, <2>4, RowsNext
  <1>3. QED
    BY <1>1, <1>2

\* A claim hands the saved result on to the executor.
LEMMA ClaimExec ==
    ASSUME TypeOK, ResultInv, Work, NEW e \in Executors, NEW j \in Jobs, Claim(e, j)
    PROVE  ExecOK(e)'
  <1>1. CASE exec' = exec
    BY <1>1, OtherNext
  <1>2. CASE exec' # exec
    <2>1. /\ exec'[e].job = j /\ exec'[e].pc = "claimed" /\ exec'[e].outcome = job[j].final
          /\ job'[j].status = "running"
      BY <1>2 DEF Claim, ClaimTables, Claimed, TypeOK
    <2>2. job[j].final \in {"none"} \cup Outcomes(j) /\ job'[j].final \in {"none", job[j].final}
      BY ClaimSame DEF ResultInv, RowsOK
    <2>3. QED
      BY <2>1, <2>2 DEF ExecOK, Outcomes
  <1>3. QED
    BY <1>1, <1>2

LEMMA ResultNext ==
    ASSUME TypeOK, ResultInv, [Work]_vars
    PROVE  ResultInv'
  <1>1. CASE UNCHANGED vars
    BY <1>1 DEF vars, ResultInv, RowsOK, VersionsOK, ExecOK, Outcomes, Owns, Fence
  <1>2. CASE Work
    <2>1. RowsOK' /\ VersionsOK'
      BY <1>2, RowsOKNext
    <2>2. SUFFICES ASSUME NEW d \in Executors
                   PROVE  ExecOK(d)'
      BY <2>1 DEF ResultInv
    <2>3. CASE exec'[d] = exec[d]
      BY <1>2, <2>3, OtherNext
    <2>4. ASSUME NEW e \in Executors, ExecStep(e) \/ ExecFault(e)
          PROVE  ExecOK(d)'
      <3>1. CASE d = e
        BY <2>4, <3>1, VersionsGrow, OwnExec
      <3>2. CASE d # e
        <4>1. (\E pc, o : GoWith(e, pc, o)) \/ End(e)
          BY <2>4 DEF ExecStep, ExecFault, StartRun, OpenStream, Finish, SaveResult, Go,
             AssertLease, LookUpVersion, CommitVersion, RecordRun, Complete, FailRun, FailJob,
             PrepareError, HandlerError, Crash
        <4>2. exec'[d] = exec[d]
          BY <3>2, <4>1 DEF GoWith, End, TypeOK
        <4>3. QED
          BY <2>3, <4>2
      <3>3. QED
        BY <3>1, <3>2
    <2>5. ASSUME NEW e \in Executors, NEW j \in Jobs, Claim(e, j)
          PROVE  ExecOK(d)'
      <3>1. CASE d = e
        BY <1>2, <2>5, <3>1, ClaimExec
      <3>2. CASE d # e
        BY <2>3, <2>5, <3>2 DEF Claim, TypeOK
      <3>3. QED
        BY <3>1, <3>2
    <2>6. CASE Environment
      BY <2>3, <2>6 DEF Environment, Surroundings, Heartbeat, LapseLease, CancelJob,
         DeleteProject, RestoreProject, SetMode, AdoptHead, AdoptInto
    <2>7. QED
      BY <1>2, <2>4, <2>5, <2>6 DEF Work
  <1>3. QED
    BY <1>1, <1>2

-----------------------------------------------------------------------------
(* Versions exist: the references                                           *)

\* A job is completed by the statement of an executor that got to it.
LEMMA CompletedBy ==
    ASSUME TypeOK, Work, NEW k \in Jobs,
           job[k].status # "completed", job'[k].status = "completed"
    PROVE  \E e \in Executors : Complete(e) /\ k = exec[e].job
  <1>1. job[k] \in JobRow /\ job \in [Jobs -> JobRow]
    BY DEF TypeOK
  <1>2. \A st \in {"failed", "cancelled"} : job'[k] # Released(job[k], st)
    BY <1>1, ReleasedRow DEF Status, Terminal
  <1>3. \A e \in Executors, j \in Jobs : ~Claim(e, j)
    BY ClaimStatus
  <1>4. \A l : [job[k] EXCEPT !.lease = l].status = job[k].status
    BY <1>1 DEF JobRow
  <1>5. ~Environment
    <2>1. ASSUME NEW e \in Executors, Heartbeat(e)
          PROVE  FALSE
      <3>1. job'[k] = job[k] \/ job'[k] = [job[k] EXCEPT !.lease = "live"]
        BY <1>1, <2>1 DEF Heartbeat
      <3>2. QED
        BY <1>4, <3>1
    <2>2. ASSUME NEW j \in Jobs, LapseLease(j)
          PROVE  FALSE
      <3>1. job'[k] = job[k] \/ \E l : job'[k] = [job[k] EXCEPT !.lease = l]
        BY <1>1, <2>2 DEF LapseLease
      <3>2. QED
        BY <1>4, <3>1
    <2>3. QED
      BY <1>1, <1>2, <2>1, <2>2 DEF Environment, Surroundings, CancelJob, DeleteProject,
         RestoreProject, SetMode, AdoptHead, AdoptInto
  <1>6. PICK e \in Executors : SaveResult(e) \/ Complete(e) \/ FailJob(e)
    BY <1>3, <1>5 DEF Work, ExecStep, ExecFault, tables, StartRun, OpenStream, Finish,
         AssertLease, LookUpVersion, CommitVersion, RecordRun, FailRun, PrepareError,
         HandlerError, Crash
  <1>7. ~SaveResult(e)
    <2>1. SUFFICES ASSUME SaveResult(e)
                   PROVE  FALSE
      OBVIOUS
    <2>2. \/ job'[k] = job[k]
          \/ job'[k] = [job[k] EXCEPT !.final = exec[e].outcome, !.lease = "live"]
      BY <1>1, <2>1 DEF SaveResult
    <2>3. [job[k] EXCEPT !.final = exec[e].outcome, !.lease = "live"].status = job[k].status
      BY <1>1 DEF JobRow
    <2>4. QED
      BY <2>2, <2>3
  <1>8. ~FailJob(e)
    BY <1>1, <1>2 DEF FailJob
  <1>9. k = exec[e].job
    BY <1>1, <1>6, <1>7, <1>8 DEF Complete
  <1>10. QED
    BY <1>6, <1>7, <1>8, <1>9

RunsInv == TypeOK /\ ResultInv /\ VersionsResolve

\* Each write of a head, of a shown version or of a base finds the version.
LEMMA ReferencesNext ==
    ASSUME TypeOK, ResultInv, ReferencesResolve, Work
    PROVE  ReferencesResolve'
  <1>0. versions \subseteq versions' /\ versions \subseteq Jobs
    BY VersionsGrow DEF TypeOK
  <1>1. /\ project.head \in versions \cup {Root}
        /\ \A c \in Conversations : conv[c].version \in versions \cup {Root}
        /\ \A k \in Jobs : job[k].base \in (versions \ {k}) \cup {Root}
    BY DEF ReferencesResolve
  <1>2. /\ project'.head \in versions' \cup {Root}
        /\ \A c \in Conversations : conv'[c].version \in versions' \cup {Root}
    <2>1. ASSUME NEW e \in Executors, CommitVersion(e)
          PROVE  /\ project'.head \in versions' \cup {Root}
                 /\ \A c \in Conversations : conv'[c].version \in versions' \cup {Root}
      <3>1. PICK j \in Jobs : j = exec[e].job
        BY <2>1, BusyExec DEF CommitVersion, At
      <3>2. CASE DuplicateRun(e, j)
        BY <1>1, <2>1, <3>1, <3>2 DEF CommitVersion
      <3>3. CASE ~DuplicateRun(e, j)
        <4>1. VersionExists(e, j) => j \in versions'
          BY <2>1, <3>1, <3>3 DEF CommitVersion, VersionExists
        <4>2. \A v \in versions \cup {Root} : MovesTo(v, e, j) \in versions' \cup {Root}
          BY <1>0, <4>1 DEF MovesTo
        <4>3. project'.head = MovesTo(project.head, e, j)
          BY <2>1, <3>1, <3>3 DEF CommitVersion, TypeOK
        <4>4. \A c \in Conversations :
                 conv'[c].version \in {conv[c].version, MovesTo(conv[c].version, e, j)}
          BY <2>1, <3>1, <3>3 DEF CommitVersion, TypeOK
        <4>5. QED
          BY <1>0, <1>1, <4>2, <4>3, <4>4
      <3>4. QED
        BY <3>2, <3>3
    <2>2. CASE UNCHANGED <<conv, project>>
      BY <1>0, <1>1, <2>2
    <2>3. CASE DeleteProject \/ RestoreProject
      BY <1>0, <1>1, <2>3 DEF DeleteProject, RestoreProject, TypeOK
    <2>4. ASSUME NEW c \in Conversations, NEW m \in {"iteration", "explanation"}, SetMode(c, m)
          PROVE  /\ project'.head \in versions' \cup {Root}
                 /\ \A d \in Conversations : conv'[d].version \in versions' \cup {Root}
      BY <1>0, <1>1, <2>4 DEF SetMode, TypeOK
    <2>5. ASSUME NEW v \in VersionId, NEW h \in VersionId,
                 AdoptHead(v, h) \/ \E c \in Conversations : AdoptInto(v, h, c)
          PROVE  /\ project'.head \in versions' \cup {Root}
                 /\ \A d \in Conversations : conv'[d].version \in versions' \cup {Root}
      BY <1>0, <1>1, <2>5 DEF AdoptHead, AdoptInto, TypeOK
    <2>6. QED
      BY <2>1, <2>2, <2>3, <2>4, <2>5
         DEF Work, ExecStep, ExecFault, Environment, Surroundings, Claim,
             ClaimTables, tables, StartRun, OpenStream, Finish, SaveResult,
             AssertLease, LookUpVersion, RecordRun, Complete, FailRun, FailJob,
             PrepareError, HandlerError, Crash, Heartbeat, LapseLease, CancelJob
  <1>3. ASSUME NEW k \in Jobs
        PROVE  job'[k].base \in (versions' \ {k}) \cup {Root}
    <2>1. CASE job'[k].base = job[k].base
      BY <1>0, <1>1, <2>1
    <2>2. CASE \E e \in Executors, j \in Jobs : Claim(e, j)
      <3>1. ConvOf[k] \in Conversations
        BY ConstantsAssumption
      <3>2. job[k].status = "absent" => k \notin versions
        BY DEF ResultInv, VersionsOK
      <3>3. QED
        BY <1>0, <1>1, <2>2, <3>1, <3>2, ClaimSame
    <2>3. QED
      BY <2>1, <2>2, RowsNext DEF SameRow
  <1>4. QED
    BY <1>2, <1>3 DEF ReferencesResolve

\* Together, the invariant of jobs, results and versions is inductive.
LEMMA RunsNext ==
    ASSUME RunsInv, [Work]_vars
    PROVE  RunsInv'
  <1>0. TypeOK /\ ResultInv /\ ReferencesResolve /\ CompletedHasVersion
    BY DEF RunsInv, VersionsResolve
  <1>1. TypeOK' /\ ResultInv' /\ versions \subseteq versions'
    BY <1>0, TypeNext, ResultNext, VersionsGrow
  <1>2. ReferencesResolve'
    <2>1. CASE UNCHANGED vars
      BY <1>0, <2>1 DEF vars, ReferencesResolve
    <2>2. QED
      BY <1>0, <2>1, ReferencesNext
  <1>3. CompletedHasVersion'
    <2>1. SUFFICES ASSUME NEW k \in Jobs \ Builds, job'[k].status = "completed",
                          job[k].status # "completed"
                   PROVE  k \in versions
      BY <1>0, <1>1 DEF CompletedHasVersion
    <2>2. Work
      BY <2>1 DEF vars
    <2>3. PICK e \in Executors : Complete(e) /\ k = exec[e].job
      BY <1>0, <2>1, <2>2, CompletedBy
    <2>4. exec[e].pc = "completing" /\ ExecOK(e)
      BY <1>0, <2>1, <2>3 DEF Complete, At, ResultInv
    <2>5. QED
      BY <2>1, <2>3, <2>4 DEF ExecOK
  <1>4. QED
    BY <1>1, <1>2, <1>3 DEF RunsInv, VersionsResolve

LEMMA RunsInit == Init => RunsInv
  <1> SUFFICES ASSUME Init
               PROVE  RunsInv
    OBVIOUS
  <1>1. ResultInv
    BY DEF Init, NoRow, IdleExec, ResultInv, RowsOK, VersionsOK, ExecOK
  <1>2. VersionsResolve
    BY DEF Init, NoRow, VersionsResolve, ReferencesResolve, CompletedHasVersion
  <1>3. QED
    BY <1>1, <1>2, TypeInit DEF RunsInv

\* Every head, shown version and base names a version that exists, and every
\* completed iteration has one.
THEOREM VersionsExist == Spec => []VersionsResolve
  <1>1. RunsInv => VersionsResolve
    BY DEF RunsInv
  <1>2. QED
    BY <1>1, RunsInit, RunsNext, NextIsWork, PTL DEF Spec

\* Under a run only a commit moves the conversation, from the base of a result
\* that was saved to be adopted.  If it also makes the version, it owns the lease
\* of the one job that runs.
LEMMA MoveStep ==
    ASSUME RunsInv, ScopeInv, Work, NEW k \in Jobs, job[k].status = "running",
           NEW c, c = ConvOf[k], conv'[c].version # conv[c].version
    PROVE  LET from == conv[c].version
               to == conv'[c].version
           IN  /\ to \in versions' \ {Root} /\ to \in versions \cup {k}
               /\ ConvOf[to] = c
               /\ job[to].base = from
               /\ job[to].final = "adopt"
  <1>0. /\ TypeOK /\ ResultInv /\ c \in Conversations
        /\ conv \in [Conversations -> [mode : {"iteration", "explanation"}, version : VersionId]]
    BY ConstantsAssumption DEF RunsInv, TypeOK
  <1>1. ASSUME NEW v \in VersionId, NEW h \in VersionId, NEW d \in Conversations,
               AdoptInto(v, h, d)
        PROVE  FALSE
    BY <1>0, <1>1 DEF AdoptInto
  <1>2. ASSUME NEW d \in Conversations, NEW m \in {"iteration", "explanation"}, SetMode(d, m)
        PROVE  FALSE
    BY <1>0, <1>2 DEF SetMode
  <1>3. PICK e \in Executors : CommitVersion(e)
    BY <1>1, <1>2 DEF Work, ExecStep, ExecFault, Environment, Surroundings, Claim,
             ClaimTables, tables, StartRun, OpenStream, Finish, SaveResult,
             AssertLease, LookUpVersion, RecordRun, Complete, FailRun, FailJob,
             PrepareError, HandlerError, Crash, Heartbeat, LapseLease, CancelJob,
             DeleteProject, RestoreProject, AdoptHead
  <1>4. PICK j \in Jobs : j = exec[e].job
    BY <1>0, <1>3, BusyExec DEF CommitVersion, At
  <1>5. ~DuplicateRun(e, j) /\ conv' = [conv EXCEPT ![ConvOf[j]].version = MovesTo(@, e, j)]
    BY <1>3, <1>4 DEF CommitVersion
  <1>6. /\ c = ConvOf[j]
        /\ conv'[c].version = MovesTo(conv[c].version, e, j)
    BY <1>0, <1>5
  <1>7. /\ exec[e].outcome = "adopt" /\ conv[c].version = job[j].base /\ VersionExists(e, j)
        /\ conv'[c].version = j
    BY <1>6 DEF MovesTo
  <1>8. j \in versions' /\ j # Root
    BY <1>3, <1>4, <1>5, <1>7, ConstantsAssumption DEF CommitVersion, VersionExists
  <1>9. job[j].final = "adopt"
    <2>1. ExecOK(e) /\ exec[e].pc = "committing"
      BY <1>0, <1>3 DEF ResultInv, CommitVersion, At
    <2>2. CASE j \in Builds /\ j \in versions
      BY <1>0, <2>2 DEF ResultInv, VersionsOK
    <2>3. CASE j \in Builds /\ InsertsVersion(e, j)
      BY <1>4, <1>7, <2>1, <2>3 DEF ExecOK, InsertsVersion
    <2>4. CASE j \notin Builds
      BY <1>4, <1>7, <2>1, <2>4 DEF ExecOK
    <2>5. QED
      BY <1>7, <2>2, <2>3, <2>4 DEF VersionExists
  <1>10. j \in versions \/ j = k
    <2>1. SUFFICES ASSUME j \notin versions
                   PROVE  j = k
      OBVIOUS
    <2>2. job[j].status = "running"
      BY <1>7, <2>1 DEF VersionExists, InsertsVersion, Fence, Owns
    <2>3. NoOtherActive(job, k) /\ "running" \in Active
      BY DEF ScopeInv, OneActiveJob, Active
    <2>4. QED
      BY <1>6, <2>2, <2>3 DEF NoOtherActive
  <1>11. QED
    BY <1>6, <1>7, <1>8, <1>9, <1>10

\* While a job runs, its conversation only steps forward from a version to a
\* child of it that was finished to be adopted, and that either was there before
\* (a late batch of its job moves the base) or is the version of the run.
THEOREM MovesForward == Spec => RunningMovesForward
  <1>1. RunsInv /\ ScopeInv /\ [Next]_vars
          => [\A j \in Jobs :
                LET from == conv[ConvOf[j]].version
                    to == conv'[ConvOf[j]].version
                IN  (job[j].status = "running" /\ from # to)
                      => /\ to \in versions' \ {Root} /\ to \in versions \cup {j}
                         /\ ConvOf[to] = ConvOf[j]
                         /\ job[to].base = from
                         /\ job[to].final = "adopt"]_vars
    BY MoveStep, NextIsWork
  <1>2. QED
    BY <1>1, RunsInit, RunsNext, ScopeInit, ScopeNext, NextIsWork, PTL
       DEF Spec, RunningMovesForward

-----------------------------------------------------------------------------
(* The job table implements a lock on each conversation                     *)

Holder == [c \in Conversations |-> IF RunningIn(c) = {} THEN NoJob
                                   ELSE CHOOSE j \in RunningIn(c) : TRUE]
Live == {c \in Conversations : \E j \in RunningIn(c) : job[j].lease = "live"}
Closed == {j \in Jobs : job[j].status \in Terminal}
LockStep == [Lock!LockNext]_(Lock!lockVars)

\* The steps of the lock, told of the job table.
LEMMA AsTake ==
    ASSUME NEW c \in Conversations, NEW j \in Jobs, ConvOf[j] = c, j \notin Closed,
           c \notin Live, Holder' = [Holder EXCEPT ![c] = j], Live' = Live \cup {c},
           Closed' = Closed, versions' = versions
    PROVE  LockStep
  <1>1. Lock!Take(c, j)
    BY DEF Lock!Take, Holder, Live, Closed
  <1>2. QED
    BY <1>1 DEF LockStep, Lock!LockNext

\* Each change of the tables that an action makes is one of ConversationLock.
LEMMA AsRenew ==
    ASSUME NEW c \in Conversations, Holder[c] # NoJob, Holder' = Holder,
           Live' = Live \cup {c}, Closed' = Closed, versions' = versions
    PROVE  LockStep
  <1>1. Lock!Renew(c)
    BY DEF Lock!Renew, Holder, Live, Closed
  <1>2. QED
    BY <1>1 DEF LockStep, Lock!LockNext

LEMMA AsExpire ==
    ASSUME NEW c \in Conversations, c \in Live, Holder' = Holder,
           Live' = Live \ {c}, Closed' = Closed, versions' = versions
    PROVE  LockStep
  <1>1. Lock!Expire(c)
    BY DEF Lock!Expire, Holder, Live, Closed
  <1>2. QED
    BY <1>1 DEF LockStep, Lock!LockNext

LEMMA AsPublish ==
    ASSUME NEW c \in Conversations, Holder[c] # NoJob, Holder[c] \notin versions,
           versions' = versions \cup {Holder[c]},
           Holder' = Holder, Live' = Live, Closed' = Closed
    PROVE  LockStep
  <1>1. Lock!Publish(c)
    BY DEF Lock!Publish, Holder, Live, Closed
  <1>2. QED
    BY <1>1 DEF LockStep, Lock!LockNext

LEMMA AsFree ==
    ASSUME NEW C \in SUBSET Conversations, NEW J \in SUBSET Jobs,
           Holder' = [c \in Conversations |-> IF c \in C THEN NoJob ELSE Holder[c]],
           Live' = Live \ C, \A c \in Conversations \ C : Holder[c] \notin J,
           Closed' = Closed \cup J, versions' = versions
    PROVE  LockStep
  <1>1. Lock!Free(C, J)
    BY DEF Lock!Free, Holder, Live, Closed
  <1>2. QED
    BY <1>1 DEF LockStep, Lock!LockNext

LEMMA AsStutter ==
    ASSUME Holder' = Holder, Live' = Live, Closed' = Closed, versions' = versions
    PROVE  LockStep
  <1>1. UNCHANGED Lock!lockVars
    BY DEF Lock!lockVars, Holder, Live, Closed
  <1>2. QED
    BY <1>1 DEF LockStep

\* A running job is the one that holds its conversation.
LEMMA HolderIs ==
    ASSUME ScopeInv, NEW j \in Jobs, job[j].status = "running"
    PROVE  /\ ConvOf[j] \in Conversations
           /\ RunningIn(ConvOf[j]) = {j}
           /\ Holder[ConvOf[j]] = j /\ j # NoJob
           /\ ConvOf[j] \in Live <=> job[j].lease = "live"
  <1>1. ConvOf[j] \in Conversations /\ j # NoJob
    BY ConstantsAssumption
  <1>2. \A k \in RunningIn(ConvOf[j]) : k = j
    BY DEF ScopeInv, OneActiveJob, NoOtherActive, RunningIn, Active
  <1>3. RunningIn(ConvOf[j]) = {j}
    BY <1>2 DEF RunningIn
  <1>4. QED
    BY <1>1, <1>3 DEF Holder, Live

One(S) == IF S = {} THEN NoJob ELSE CHOOSE j \in S : TRUE

\* The refinement mapping, written out.
LEMMA HolderOf ==
    /\ Holder = [c \in Conversations |-> One(RunningIn(c))]
    /\ Holder' = [c \in Conversations |-> One(RunningIn(c)')]
  BY DEF Holder, One

\* Who holds what depends on the running rows alone.
LEMMA SameRunning ==
    ASSUME \A k \in Jobs : job'[k].status = "running" <=> job[k].status = "running"
    PROVE  Holder' = Holder
  <1>1. \A c : RunningIn(c)' = RunningIn(c)
    BY DEF RunningIn
  <1>2. QED
    BY <1>1, HolderOf

\* A step that changes neither a running row nor a live lease leaves the lock alone.
LEMMA SameLive ==
    ASSUME \A k \in Jobs : job'[k].status = "running" <=> job[k].status = "running",
           \A k \in Jobs : job[k].status = "running" =>
              (job'[k].lease = "live" <=> job[k].lease = "live")
    PROVE  Live' = Live
  BY DEF Live, RunningIn

\* A row that stops running frees its conversation.
LEMMA FreeOne ==
    ASSUME ScopeInv, NEW j \in Jobs, NEW st \in {"failed", "completed", "cancelled"},
           job' = [job EXCEPT ![j] = Released(job[j], st)],
           job[j].status \notin Terminal, versions' = versions
    PROVE  LockStep
  <1>0. /\ TypeOK /\ ConvOf[j] \in Conversations
        /\ job'[j].status = st /\ \A k \in Jobs \ {j} : job'[k] = job[k]
    <2>1. TypeOK /\ ConvOf[j] \in Conversations
      BY ConstantsAssumption DEF ScopeInv
    <2>2. job \in [Jobs -> JobRow] /\ st \in Status
      BY <2>1 DEF TypeOK, Status, Terminal
    <2>3. Released(job[j], st).status = st
      BY <2>2, ReleasedRow
    <2>4. QED
      BY <2>1, <2>2, <2>3
  <1> DEFINE J == IF st \in Terminal THEN {j} ELSE {}
  <1>1. Closed' = Closed \cup J
    BY <1>0 DEF Closed, Terminal
  <1>2. CASE job[j].status = "running"
    <2>1. RunningIn(ConvOf[j]) = {j} /\ Holder[ConvOf[j]] = j
      BY <1>2, HolderIs
    <2>2. RunningIn(ConvOf[j])' = {}
      BY <1>0, <2>1 DEF RunningIn
    <2>3. \A c \in Conversations \ {ConvOf[j]} : RunningIn(c)' = RunningIn(c) /\ j \notin RunningIn(c)
      BY <1>0 DEF RunningIn
    <2>4. Holder' = [c \in Conversations |-> IF c \in {ConvOf[j]} THEN NoJob ELSE Holder[c]]
      <3>1. One({}) = NoJob
        BY DEF One
      <3>2. \A c \in Conversations :
               One(RunningIn(c)') = IF c \in {ConvOf[j]} THEN NoJob ELSE One(RunningIn(c))
        BY <2>2, <2>3, <3>1
      <3>3. QED
        BY <3>2, HolderOf
    <2>5. Live' = Live \ {ConvOf[j]}
      BY <1>0, <2>2, <2>3 DEF Live, RunningIn
    <2>6. \A c \in Conversations \ {ConvOf[j]} : Holder[c] # j
      BY <2>3, ConstantsAssumption DEF Holder
    <2>7. {ConvOf[j]} \in SUBSET Conversations /\ J \in SUBSET Jobs
      BY <1>0
    <2>8. \A c \in Conversations \ {ConvOf[j]} : Holder[c] \notin J
      BY <2>6
    <2> HIDE DEF J
    <2>9. QED
      BY <1>1, <2>4, <2>5, <2>7, <2>8, AsFree
  <1>3. CASE job[j].status # "running"
    <2>1. Holder' = Holder /\ Live' = Live
      BY <1>0, <1>3, SameRunning, SameLive
    <2>2. Holder = [c \in Conversations |-> IF c \in {} THEN NoJob ELSE Holder[c]]
      BY DEF Holder
    <2>3. \A c \in Conversations : Holder[c] # j
      BY <1>3, ConstantsAssumption DEF Holder, RunningIn
    <2>4. {} \in SUBSET Conversations /\ J \in SUBSET Jobs /\ Live' = Live \ {}
      BY <2>1
    <2>5. \A c \in Conversations \ {} : Holder[c] \notin J
      BY <2>3
    <2>6. Holder' = [c \in Conversations |-> IF c \in {} THEN NoJob ELSE Holder[c]]
      BY <2>1, <2>2
    <2> HIDE DEF J
    <2>7. QED
      BY <1>1, <2>4, <2>5, <2>6, AsFree
  <1>4. QED
    BY <1>2, <1>3

\* A renewal under the fence.
LEMMA RenewOne ==
    ASSUME ScopeInv, NEW e \in Executors, NEW j \in Jobs, Fence(e, j), NEW row,
           row.status = "running", row.lease = "live",
           job' = [job EXCEPT ![j] = row], versions' = versions
    PROVE  LockStep
  <1>1. job[j].status = "running" /\ job \in [Jobs -> JobRow]
    BY DEF Fence, Owns, ScopeInv, TypeOK
  <1>2. job'[j] = row /\ \A k \in Jobs \ {j} : job'[k] = job[k]
    BY <1>1
  <1>3. Holder' = Holder
    BY <1>1, <1>2, SameRunning
  <1>4. ConvOf[j] \in Conversations /\ RunningIn(ConvOf[j]) = {j} /\ Holder[ConvOf[j]] # NoJob
    BY <1>1, HolderIs
  <1>5. Live' = Live \cup {ConvOf[j]}
    BY <1>1, <1>2, <1>4 DEF Live, RunningIn
  <1>6. Closed' = Closed
    BY <1>1, <1>2 DEF Closed, Terminal
  <1>7. QED
    BY <1>3, <1>4, <1>5, <1>6, AsRenew

\* A step that writes no row and adds no version.
LEMMA NoStep ==
    ASSUME job' = job, versions' = versions
    PROVE  LockStep
  <1>1. Holder' = Holder /\ Live' = Live /\ Closed' = Closed
    BY SameRunning, SameLive DEF Closed
  <1>2. QED
    BY <1>1, AsStutter

\* A step of an executor is a step of the lock, or a stutter.
LEMMA LockExec ==
    ASSUME ScopeInv, NEW e \in Executors, ExecStep(e) \/ ExecFault(e)
    PROVE  LockStep
  <1>0. TypeOK /\ job \in [Jobs -> JobRow]
    BY DEF ScopeInv, TypeOK
  <1>1. CASE SaveResult(e)
    <2>1. PICK j \in Jobs : j = exec[e].job
      BY <1>0, <1>1, BusyExec DEF SaveResult, At
    <2>2. CASE Fence(e, j)
      <3> DEFINE row == [job[j] EXCEPT !.final = exec[e].outcome, !.lease = "live"]
      <3>1. row.status = "running" /\ row.lease = "live"
        BY <1>0, <2>2 DEF JobRow, Fence, Owns
      <3>2. job' = [job EXCEPT ![j] = row] /\ versions' = versions
        BY <1>1, <2>1, <2>2 DEF SaveResult
      <3> HIDE DEF row
      <3>3. QED
        BY <2>2, <3>1, <3>2, RenewOne
    <2>3. CASE ~Fence(e, j)
      BY <1>1, <2>1, <2>3, NoStep DEF SaveResult
    <2>4. QED
      BY <2>2, <2>3
  <1>2. CASE Complete(e) \/ FailJob(e)
    <2>1. PICK j \in Jobs : j = exec[e].job
      BY <1>0, <1>2, BusyExec DEF Complete, FailJob, At
    <2>2. CASE job' = job
      BY <1>2, <2>2, NoStep DEF Complete, FailJob
    <2>3. CASE job' # job
      BY <1>2, <2>1, <2>3, FreeOne DEF Complete, FailJob, Fence, Owns, Terminal
    <2>4. QED
      BY <2>2, <2>3
  <1>3. CASE CommitVersion(e) /\ versions' # versions
    <2>1. PICK j \in Jobs : j = exec[e].job
      BY <1>0, <1>3, BusyExec DEF CommitVersion, At
    <2>2. /\ Fence(e, j) /\ versions' = versions \cup {j} /\ j \notin versions /\ job' = job
      BY <1>3, <2>1 DEF CommitVersion, InsertsVersion
    <2>3. ConvOf[j] \in Conversations /\ Holder[ConvOf[j]] = j /\ j # NoJob
      BY <2>2, HolderIs DEF Fence, Owns
    <2>4. Holder' = Holder /\ Live' = Live /\ Closed' = Closed
      BY <2>2, SameRunning, SameLive DEF Closed
    <2>5. QED
      BY <2>2, <2>3, <2>4, AsPublish
  <1>4. CASE job' = job /\ versions' = versions
    BY <1>4, NoStep
  <1>5. QED
    BY <1>1, <1>2, <1>3, <1>4 DEF ExecStep, ExecFault, tables, StartRun, OpenStream, Finish,
         AssertLease, LookUpVersion, CommitVersion, RecordRun, FailRun, PrepareError,
         HandlerError, Crash

\* So is a step of a user, of time or of the listing.
LEMMA LockEnvironment ==
    ASSUME ScopeInv, Environment
    PROVE  LockStep
  <1>0. TypeOK /\ job \in [Jobs -> JobRow]
    BY DEF ScopeInv, TypeOK
  <1>1. ASSUME NEW e \in Executors, Heartbeat(e)
        PROVE  LockStep
    <2>1. PICK j \in Jobs : j = exec[e].job
      BY <1>0, <1>1, BusyExec DEF Heartbeat
    <2> DEFINE row == [job[j] EXCEPT !.lease = "live"]
    <2>2. row.status = "running" /\ row.lease = "live"
      BY <1>0, <1>1, <2>1 DEF JobRow, Heartbeat, Fence, Owns
    <2>3. job' = [job EXCEPT ![j] = row] /\ versions' = versions /\ Fence(e, j)
      BY <1>1, <2>1 DEF Heartbeat
    <2> HIDE DEF row
    <2>4. QED
      BY <2>2, <2>3, RenewOne
  <1>2. ASSUME NEW j \in Jobs, LapseLease(j)
        PROVE  LockStep
    <2>1. PICK l \in {"expiring", "lapsed"} :
             /\ job' = [job EXCEPT ![j] = [job[j] EXCEPT !.lease = l]]
             /\ job[j].lease = "live" => l = "expiring"
      BY <1>2 DEF LapseLease
    <2>2. /\ job[j].status = "running" /\ job'[j].status = "running" /\ job'[j].lease # "live"
          /\ \A k \in Jobs \ {j} : job'[k] = job[k]
          /\ versions' = versions
      BY <1>0, <1>2, <2>1 DEF LapseLease, JobRow
    <2>3. Holder' = Holder /\ Closed' = Closed
      BY <2>2, SameRunning DEF Closed, Terminal
    <2>4. RunningIn(ConvOf[j]) = {j} /\ ConvOf[j] \in Conversations
          /\ (ConvOf[j] \in Live <=> job[j].lease = "live")
      BY <2>2, HolderIs
    <2>5. Live' = Live \ {ConvOf[j]}
      BY <2>2, <2>4 DEF Live, RunningIn
    <2>6. CASE ConvOf[j] \in Live
      BY <2>2, <2>3, <2>4, <2>5, <2>6, AsExpire
    <2>7. CASE ConvOf[j] \notin Live
      BY <2>2, <2>3, <2>5, <2>7, AsStutter
    <2>8. QED
      BY <2>6, <2>7
  <1>3. ASSUME NEW j \in Jobs, CancelJob(j)
        PROVE  LockStep
    BY <1>3, FreeOne DEF CancelJob, Active, Terminal
  <1>4. CASE DeleteProject
    <2> DEFINE J == {j \in Jobs : job[j].status \in Active}
    <2>1. /\ \A k \in Jobs : job'[k] = IF k \in J THEN Released(job[k], "cancelled") ELSE job[k]
          /\ \A k \in Jobs : Released(job[k], "cancelled").status = "cancelled"
      BY <1>0, <1>4, ReleasedRow DEF DeleteProject, Status, Terminal
    <2>2. \A k \in Jobs : job'[k].status # "running"
      BY <2>1 DEF Active
    <2>3. \A c : RunningIn(c)' = {}
      BY <2>2 DEF RunningIn
    <2>4. One({}) = NoJob
      BY DEF One
    <2>5. Holder' = [c \in Conversations |-> IF c \in Conversations THEN NoJob ELSE Holder[c]]
      BY <2>3, <2>4, HolderOf
    <2>6. Live' = Live \ Conversations
      BY <2>3 DEF Live
    <2>7. Closed' = Closed \cup J
      BY <2>1 DEF Closed, Active, Terminal
    <2>8. J \in SUBSET Jobs /\ versions' = versions
      BY <1>4 DEF DeleteProject
    <2> HIDE DEF J
    <2>9. QED
      BY <2>5, <2>6, <2>7, <2>8, AsFree
  <1>5. CASE job' = job /\ versions' = versions
    BY <1>5, NoStep
  <1>6. QED
    BY <1>1, <1>2, <1>3, <1>4, <1>5
       DEF Environment, Surroundings, RestoreProject, SetMode, AdoptHead, AdoptInto

\* A claim takes a conversation whose lease is not live, frees one whose lease
\* has expired, or leaves the lock alone.
LEMMA LockClaim ==
    ASSUME ScopeInv, RowsOK, NEW e \in Executors, NEW j \in Jobs, Claim(e, j)
    PROVE  LockStep
  <1> DEFINE t1 == ExpireStmt(job, ConvOf[j])
             t2 == InsertStmt(t1, j)
             t3 == TakeStmt(t2, j, e)
  <1>0. TypeOK /\ ConvOf[j] \in Conversations /\ job \in Table
    BY ConstantsAssumption DEF ScopeInv, TypeOK, Table
  <1>1. t1 \in Table /\ t2 \in Table
    BY <1>0, ExpireTable, InsertTable
  <1>2. ASSUME NEW k \in Jobs
        PROVE  \/ t1[k] = job[k] /\ ~(ConvOf[k] = ConvOf[j] /\ Lapsed(job[k]))
               \/ /\ ConvOf[k] = ConvOf[j] /\ Lapsed(job[k]) /\ job[k].status = "running"
                  /\ t1[k].status = "failed"
    <2>1. job[k] \in JobRow /\ "failed" \in Status
      BY <1>0 DEF Table, Status
    <2>2. Released(job[k], "failed").status = "failed"
      BY <2>1, ReleasedRow
    <2>3. QED
      BY <2>2 DEF ExpireStmt, Lapsed
  <1>3. ASSUME NEW k \in Jobs
        PROVE  t2[k] = t1[k] \/ (k = j /\ t1[k].status = "absent" /\ t2[k].status = "queued")
    BY <1>1, InsertMoves
  <1>4. \/ t3 = t2
        \/ /\ t2[j].status \in {"queued", "failed", "running"}
           /\ t2[j].owner = NoOwner \/ t2[j].lease # "live"
           /\ t3[j].status = "running" /\ t3[j].lease = "live"
           /\ \A k \in Jobs \ {j} : t3[k] = t2[k]
           /\ NoOtherActive(t2, j)
    <2> HIDE DEF t2
    <2>1. t2[j] \in JobRow
      BY <1>1 DEF Table
    <2>2. Taken(t2[j], e).lease = "live" /\ Taken(t2[j], e).status = "running"
      BY <2>1 DEF Taken, JobRow
    <2>3. QED
      BY <1>1, <2>2 DEF TakeStmt, Table
  <1>5. job' = t3 /\ versions' = versions
    BY DEF Claim, ClaimTables, ClaimBatch
  <1> HIDE DEF t1, t2, t3
  <1>6. Closed' = Closed
    BY <1>2, <1>3, <1>4, <1>5 DEF Closed, Terminal
  <1>7. CASE t3 # t2
    <2>1. ConvOf[j] \notin Live
      <3>1. SUFFICES ASSUME NEW k \in RunningIn(ConvOf[j]), job[k].lease = "live"
                     PROVE  FALSE
        BY DEF Live
      <3>2. k \in Jobs /\ ConvOf[k] = ConvOf[j] /\ job[k].status = "running"
            /\ job[k].owner # NoOwner
        BY DEF RunningIn, RowsOK
      <3>3. t2[k] = job[k]
        BY <1>2, <1>3, <3>1, <3>2 DEF Lapsed
      <3>4. QED
        BY <1>4, <1>7, <3>1, <3>2, <3>3 DEF NoOtherActive, Active
    <2>2. RunningIn(ConvOf[j])' = {j}
      BY <1>4, <1>5, <1>7 DEF RunningIn, NoOtherActive, Active
    <2>3. \A c \in Conversations \ {ConvOf[j]} : RunningIn(c)' = RunningIn(c)
      <3>1. \A k \in Jobs : ConvOf[k] # ConvOf[j] => job'[k] = job[k]
        BY <1>2, <1>3, <1>4, <1>5
      <3>2. QED
        BY <3>1 DEF RunningIn
    <2>4. Holder' = [Holder EXCEPT ![ConvOf[j]] = j]
      <3>1. One({j}) = j
        BY DEF One
      <3>2. Holder'[ConvOf[j]] = j
        BY <1>0, <2>2, <3>1, HolderOf
      <3>3. \A c \in Conversations \ {ConvOf[j]} : Holder'[c] = Holder[c]
        BY <2>3, HolderOf
      <3>4. QED
        BY <1>0, <3>2, <3>3, HolderOf
    <2>5. Live' = Live \cup {ConvOf[j]}
      <3>1. job'[j].lease = "live"
        BY <1>4, <1>5, <1>7
      <3>2. \A c \in Conversations \ {ConvOf[j]} : \A k \in RunningIn(c) : job'[k] = job[k]
        BY <1>2, <1>3, <1>4, <1>5 DEF RunningIn
      <3>3. QED
        BY <1>0, <2>2, <2>3, <3>1, <3>2 DEF Live
    <2>6. j \notin Closed
      BY <1>2, <1>3, <1>4, <1>7 DEF Closed, Terminal
    <2>7. QED
      BY <1>0, <1>5, <1>6, <2>1, <2>4, <2>5, <2>6, AsTake
  <1>8. CASE t3 = t2
    <2>1. \A k \in Jobs : job'[k].status = "running" =>
             job'[k] = job[k] /\ ~(ConvOf[k] = ConvOf[j] /\ Lapsed(job[k]))
      BY <1>2, <1>3, <1>5, <1>8
    <2>2. \A k \in Jobs : job[k].status = "running" /\ ~(ConvOf[k] = ConvOf[j] /\ Lapsed(job[k]))
             => job'[k] = job[k]
      BY <1>2, <1>3, <1>5, <1>8
    <2>3. CASE \E k \in Jobs : ConvOf[k] = ConvOf[j] /\ Lapsed(job[k])
      <3>1. PICK k \in Jobs : ConvOf[k] = ConvOf[j] /\ Lapsed(job[k])
        BY <2>3
      <3>2. RunningIn(ConvOf[j]) = {k} /\ ConvOf[j] \notin Live
        BY <3>1, HolderIs DEF Lapsed
      <3>3. RunningIn(ConvOf[j])' = {}
        BY <2>1, <3>1, <3>2 DEF RunningIn
      <3>4. \A c \in Conversations \ {ConvOf[j]} : RunningIn(c)' = RunningIn(c)
        BY <2>1, <2>2 DEF RunningIn
      <3>5. One({}) = NoJob
        BY DEF One
      <3>6. Holder' = [c \in Conversations |-> IF c \in {ConvOf[j]} THEN NoJob ELSE Holder[c]]
        <4>1. \A c \in Conversations :
                 One(RunningIn(c)') = IF c \in {ConvOf[j]} THEN NoJob ELSE One(RunningIn(c))
          BY <3>3, <3>4, <3>5
        <4>2. QED
          BY <4>1, HolderOf
      <3>7. Live' = Live \ {ConvOf[j]}
        <4>1. \A c \in Conversations \ {ConvOf[j]} : \A i \in RunningIn(c) : job'[i] = job[i]
          BY <2>2 DEF RunningIn
        <4>2. QED
          BY <3>3, <3>4, <4>1 DEF Live
      <3>8. {ConvOf[j]} \in SUBSET Conversations /\ {} \in SUBSET Jobs /\ Closed' = Closed \cup {}
            /\ \A c \in Conversations \ {ConvOf[j]} : Holder[c] \notin {}
        BY <1>0, <1>6
      <3>9. QED
        BY <1>5, <3>6, <3>7, <3>8, AsFree
    <2>4. CASE ~\E k \in Jobs : ConvOf[k] = ConvOf[j] /\ Lapsed(job[k])
      <3>1. Holder' = Holder /\ Live' = Live
        BY <2>1, <2>2, <2>4, SameRunning, SameLive
      <3>2. QED
        BY <1>5, <1>6, <3>1, AsStutter
    <2>5. QED
      BY <2>3, <2>4
  <1>9. QED
    BY <1>7, <1>8

LEMMA LockNextStep ==
    ASSUME ScopeInv, RowsOK, [Work]_vars
    PROVE  LockStep
  <1>1. CASE UNCHANGED vars
    BY <1>1, NoStep DEF vars
  <1>2. CASE Work
    BY <1>2, LockExec, LockEnvironment, LockClaim DEF Work
  <1>3. QED
    BY <1>1, <1>2

\* The first states of the tables are the first states of the lock.
LEMMA LockInitial == Init => Lock!LockInit
  <1> SUFFICES ASSUME Init
               PROVE  Lock!LockInit
    OBVIOUS
  <1>1. /\ \A c : RunningIn(c) = {}
        /\ \A j \in Jobs : job[j].status \notin Terminal
        /\ versions = {}
    BY DEF Init, NoRow, RunningIn, Terminal
  <1>2. QED
    BY <1>1 DEF Lock!LockInit

\* Whatever executors, users, crashes and time do to the tables, they do what
\* an expiring lock per conversation allows.
THEOREM ImplementsTheLock == Spec => ImplementsLock
  <1>1. ScopeInv /\ RunsInv /\ [Next]_vars => [Lock!LockNext]_(Lock!lockVars)
    BY LockNextStep, NextIsWork DEF RunsInv, ResultInv, LockStep
  <1>2. QED
    BY <1>1, LockInitial, ScopeInit, ScopeNext, RunsInit, RunsNext, NextIsWork, PTL
       DEF Spec, ImplementsLock, Lock!LockSpec

=============================================================================
