------------------------ MODULE RoleDispatchProofs ------------------------
(***************************************************************************)
(* Proofs about RoleDispatch, whose executors, users and clock are those   *)
(* of RoleJobs: what was proved of their steps there is cited here, and    *)
(* the steps that the consumer and the durable requests add are proved.    *)
(***************************************************************************)
EXTENDS RoleDispatch, RoleJobsProofs

-----------------------------------------------------------------------------
(* The kinds of step *)

\* A step of RoleJobs other than a claim.
JobStep == Environment \/ \E e \in Executors : ExecStep(e) \/ ExecFault(e)

\* A statement of the consumer or of a durable request on the job table.
TableStep == \/ \E j \in Jobs : Enqueue(j) \/ Resume(j)
             \/ ListBatch
             \/ \E e \in Executors : SettleRejected(e)

\* A connection that is served names a job.
ConnectionsOK ==
    \A e \in Executors : delivery[e].stage # "none" => delivery[e].job \in Jobs

\* Nothing else happens to the tables of RoleJobs.
LEMMA StepKinds ==
    ASSUME ConnectionsOK, DNext
    PROVE  \/ UNCHANGED vars
           \/ JobStep
           \/ \E e \in Executors, j \in Jobs : Claim(e, j)
           \/ TableStep
  <1>1. ASSUME NEW e \in Executors, DeliveryStep(e)
        PROVE  \/ UNCHANGED vars
               \/ JobStep
               \/ \E j \in Jobs : Claim(e, j)
               \/ TableStep
    <2>1. CASE Reject(e) \/ SettleFinished(e)
      BY <2>1 DEF Reject, SettleFinished
    <2>2. CASE DeliverClaim(e)
      BY <2>2 DEF DeliverClaim, ConnectionsOK, Stage
    <2>3. CASE Run(e)
      BY <2>3 DEF Run, JobStep, ExecStep
    <2>4. CASE SettleRejected(e)
      BY <2>4 DEF TableStep
    <2>5. QED
      BY <1>1, <2>1, <2>2, <2>3, <2>4 DEF DeliveryStep
  <1>2. ASSUME NEW e \in Executors, RunFault(e)
        PROVE  UNCHANGED vars \/ JobStep
    BY <1>2 DEF RunFault, JobStep, ExecFault
  <1>3. ASSUME NEW e \in Executors, NEW j \in Jobs, Streamed(e, j)
        PROVE  Claim(e, j)
    BY <1>3 DEF Streamed, Request
  <1>4. ASSUME NEW e \in Executors, Disconnect(e) \/ \E j \in Jobs : ClaimDispatch(e, j)
        PROVE  UNCHANGED vars
    BY <1>4 DEF Disconnect, ClaimDispatch
  <1>5. ASSUME NEW j \in Jobs, LapseWindow(j)
        PROVE  UNCHANGED vars
    BY <1>5 DEF LapseWindow
  <1>6. ASSUME NEW j \in Jobs, Enqueue(j) \/ Resume(j)
        PROVE  TableStep
    BY <1>6 DEF TableStep
  <1>7. CASE ListBatch
    BY <1>7 DEF TableStep
  <1>8. CASE Environment
    BY <1>8 DEF JobStep
  <1>9. QED
    BY <1>1, <1>2, <1>3, <1>4, <1>5, <1>6, <1>7, <1>8 DEF DNext

-----------------------------------------------------------------------------
(* What each kind of step does to the row of one job *)

\* Executors fail only jobs that run, users only cancel.
LEMMA QueuedStays ==
    ASSUME TypeOK, JobStep, NEW k \in Jobs, job[k].status = "queued"
    PROVE  job'[k].status \in {"queued", "cancelled"}
  <1>0. job[k] \in JobRow
    BY DEF TypeOK
  <1>1. CASE job'[k] = job[k]
    BY <1>1
  <1>2. ASSUME NEW e \in Executors, SaveResult(e) \/ Complete(e) \/ FailJob(e)
        PROVE  job'[k] = job[k]
    <2>1. exec[e].job \in Jobs
      BY <1>2, BusyExec DEF SaveResult, Complete, FailJob, At
    <2>2. ~Owns(e, k)
      BY DEF Owns
    <2>3. QED
      BY <1>2, <2>1, <2>2 DEF SaveResult, Complete, FailJob, Fence, TypeOK
  <1>3. ASSUME NEW e \in Executors, ExecStep(e) \/ ExecFault(e)
        PROVE  job'[k] = job[k]
    BY <1>2, <1>3 DEF ExecStep, ExecFault, tables, StartRun, OpenStream, Finish,
         AssertLease, LookUpVersion, CommitVersion, RecordRun, FailRun, PrepareError,
         HandlerError, Crash
  <1>4. Released(job[k], "cancelled").status = "cancelled"
    BY <1>0, ReleasedRow DEF Status, Terminal
  <1>5. ASSUME NEW e \in Executors, Heartbeat(e)
        PROVE  job'[k] = job[k]
    <2>1. exec[e].job \in Jobs
      BY <1>5, BusyExec DEF Heartbeat
    <2>2. QED
      BY <1>5, <2>1 DEF Heartbeat, Fence, Owns, TypeOK
  <1>6. ASSUME NEW j \in Jobs, LapseLease(j)
        PROVE  job'[k] = job[k]
    BY <1>6 DEF LapseLease, TypeOK
  <1>7. ASSUME NEW j \in Jobs, CancelJob(j)
        PROVE  job'[k] = job[k] \/ job'[k].status = "cancelled"
    BY <1>4, <1>7 DEF CancelJob, TypeOK
  <1>8. CASE DeleteProject
    BY <1>4, <1>8 DEF DeleteProject, Active
  <1>9. CASE Environment
    BY <1>5, <1>6, <1>7, <1>8, <1>9
       DEF Environment, Surroundings, RestoreProject, SetMode, AdoptHead, AdoptInto
  <1>10. QED
    BY <1>3, <1>9 DEF JobStep

\* A job step puts no job into the queue.
LEMMA JobStepStatus ==
    ASSUME TypeOK, JobStep, NEW k \in Jobs
    PROVE  /\ job'[k].status = "queued" => job[k].status = "queued"
           /\ job'[k].status = "absent" => job[k].status = "absent"
           /\ Ends(k)
  <1>1. Ends(k)
    BY ExecEnds, EnvironmentEnds DEF JobStep
  <1>2. QED
    BY <1>1 DEF Ends

\* A claim takes the row that it inserts: the guards of the take are those of
\* the insert, so that nothing is left queued without a dispatch row.
LEMMA ClaimQueue ==
    ASSUME TypeOK, NEW e \in Executors, NEW j \in Jobs, Claim(e, j), NEW k \in Jobs
    PROVE  /\ job'[k].status = "queued" => job[k].status = "queued"
           /\ job'[k].status = "absent" => job[k].status = "absent"
           /\ job[k].status = "queued" => job'[k].status \in {"queued", "running"}
  <1> DEFINE t1 == ExpireStmt(job, ConvOf[j])
             t2 == InsertStmt(t1, j)
             t3 == TakeStmt(t2, j, e)
             new == [NoRow EXCEPT !.status = "queued",
                                  !.base = conv[ConvOf[j]].version]
  <1>0. ConvOf[j] \in Conversations /\ job \in Table
    BY ConstantsAssumption DEF TypeOK, Table
  <1>1. t1 \in Table /\ t2 \in Table
    BY <1>0, ExpireTable, InsertTable
  <1>2. t1[k] = job[k] \/ (job[k].status = "running" /\ t1[k].status = "failed")
    BY <1>0, ExpireMoves
  <1>3. t3[k] = t2[k] \/ /\ t2[k].status \in {"queued", "failed", "running"}
                         /\ t3[k].status = "running"
    <2> HIDE DEF t2
    <2>1. QED
      BY <1>1, TakeMoves
  <1>4. job' = t3
    BY DEF Claim, ClaimTables, ClaimBatch
  <1>5. CASE t2 = t1
    <2> HIDE DEF t1, t2, t3
    <2>1. QED
      BY <1>2, <1>3, <1>4, <1>5
  <1>6. CASE t2 # t1
    <2>1. /\ t1[j].status = "absent" /\ NoOtherActive(t1, j)
          /\ ScopeOpen(ConvOf[j], conv[ConvOf[j]].version)
          /\ t2 = [t1 EXCEPT ![j] = new]
      <3> HIDE DEF t1
      <3>1. QED
        BY <1>6 DEF InsertStmt
    <2> HIDE DEF t1, t2, t3
    <2>2. /\ t2[j] = new /\ \A i \in Jobs \ {j} : t2[i] = t1[i]
      BY <1>1, <2>1 DEF Table
    <2>3. /\ new.status = "queued" /\ new.owner = NoOwner
          /\ new.base = conv[ConvOf[j]].version
      BY DEF NoRow
    <2> HIDE DEF new
    <2>4. NoOtherActive(t2, j)
      BY <2>1, <2>2 DEF NoOtherActive
    <2>5. t3[j].status = "running"
      <3>1. t3 = [t2 EXCEPT ![j] = Taken(t2[j], e)]
        BY <2>1, <2>2, <2>3, <2>4 DEF t3, TakeStmt
      <3>2. t2[j] \in JobRow
        BY <1>1 DEF Table
      <3>3. QED
        BY <1>1, <3>1, <3>2, TakenRow DEF Table
    <2>6. QED
      BY <1>2, <1>3, <1>4, <2>1, <2>2, <2>5
  <1>7. QED
    BY <1>5, <1>6

\* The listing, statement by statement.
LEMMA ReconcileMoves ==
    ASSUME NEW t \in Table, NEW k \in Jobs
    PROVE  /\ Reconcile(t) \in Table
           /\ \/ Reconcile(t)[k] = t[k]
              \/ /\ t[k].status \in {"failed", "running"} /\ k \in versions \ Builds
                 /\ Reconcile(t)[k].status = "completed"
  <1>1. \A i \in Jobs : /\ Released(t[i], "completed") \in JobRow
                        /\ Released(t[i], "completed").status = "completed"
    BY ReleasedRow DEF Table, Status, Terminal
  <1>2. QED
    BY <1>1 DEF Reconcile, Lapsed, Table

\* The two statements of the sweep stop rows whose scope has moved on, or whose
\* deliveries are used up, and leave the others as they are.
LEMMA StopMovedMoves ==
    ASSUME NEW t \in Table, NEW k \in Jobs
    PROVE  /\ StopMoved(t) \in Table
           /\ \/ StopMoved(t)[k] = t[k]
              \/ /\ t[k].status \in {"queued", "running"}
                 /\ ~ScopeOpen(ConvOf[k], t[k].base)
                 /\ StopMoved(t)[k].status = "failed"
  <1>1. \A i \in Jobs : /\ Released(t[i], "failed") \in JobRow
                        /\ Released(t[i], "failed").status = "failed"
    BY ReleasedRow DEF Table, Status
  <1>2. QED
    BY <1>1 DEF StopMoved, Waiting, Lapsed, Table

LEMMA StopExhaustedMoves ==
    ASSUME NEW t \in Table, NEW k \in Jobs
    PROVE  /\ StopExhausted(t) \in Table
           /\ \/ StopExhausted(t)[k] = t[k]
              \/ /\ t[k].status \in {"queued", "running"}
                 /\ dispatch[k].deliveries >= MaxDeliveries
                 /\ StopExhausted(t)[k].status = "failed"
  <1>1. \A i \in Jobs : /\ Released(t[i], "failed") \in JobRow
                        /\ Released(t[i], "failed").status = "failed"
    BY ReleasedRow DEF Table, Status
  <1>2. QED
    BY <1>1 DEF StopExhausted, Waiting, Lapsed, Table

\* Taken together: a listing completes or stops, and stops a job that it was
\* waiting for because its scope moved or its deliveries are used up.
LEMMA ListMoves ==
    ASSUME TypeOK, ListBatch, NEW k \in Jobs
    PROVE  /\ job' \in Table
           /\ \/ job'[k] = job[k]
              \/ /\ job[k].status \in {"failed", "running"} /\ k \in versions \ Builds
                 /\ job'[k].status = "completed"
              \/ /\ job[k].status \in {"queued", "running"}
                 /\ job'[k].status = "failed"
                 /\ \/ ~ScopeOpen(ConvOf[k], job[k].base)
                    \/ dispatch[k].deliveries >= MaxDeliveries
  <1> DEFINE t1 == Reconcile(job)
             t2 == StopMoved(t1)
             t3 == StopExhausted(t2)
  <1>0. job \in Table
    BY DEF TypeOK, Table
  <1>1. /\ t1 \in Table
        /\ \/ t1[k] = job[k]
           \/ /\ job[k].status \in {"failed", "running"} /\ k \in versions \ Builds
              /\ t1[k].status = "completed"
    BY <1>0, ReconcileMoves
  <1> HIDE DEF t1
  <1>2. /\ t2 \in Table
        /\ \/ t2[k] = t1[k]
           \/ /\ t1[k].status \in {"queued", "running"}
              /\ ~ScopeOpen(ConvOf[k], t1[k].base)
              /\ t2[k].status = "failed"
    BY <1>1, StopMovedMoves
  <1> HIDE DEF t2
  <1>3. /\ t3 \in Table
        /\ \/ t3[k] = t2[k]
           \/ /\ t2[k].status \in {"queued", "running"}
              /\ dispatch[k].deliveries >= MaxDeliveries
              /\ t3[k].status = "failed"
    BY <1>2, StopExhaustedMoves
  <1>4. job' = t3
    BY DEF ListBatch, t1, t2
  <1> HIDE DEF t3
  <1>5. QED
    BY <1>1, <1>2, <1>3, <1>4

\* A request inserts a row under the guards of the claim.
LEMMA EnqueueMoves ==
    ASSUME TypeOK, NEW j \in Jobs, Enqueue(j)
    PROVE  /\ job' \in Table
           /\ \A k \in Jobs \ {j} : job'[k] = job[k]
           /\ \/ job'[j] = job[j]
              \/ /\ job[j].status = "absent" /\ job'[j].status = "queued"
                 /\ NoOtherActive(job, j) /\ conv[ConvOf[j]].mode = "iteration"
  <1>0. job \in Table
    BY DEF TypeOK, Table
  <1>1. job' = InsertStmt(job, j)
    BY DEF Enqueue
  <1>2. QED
    BY <1>0, <1>1, InsertTable, InsertMoves

\* So does a resume put one back.
LEMMA ResumeMoves ==
    ASSUME TypeOK, NEW j \in Jobs, Resume(j)
    PROVE  /\ job' \in Table
           /\ \A k \in Jobs \ {j} : job'[k] = job[k]
           /\ job[j].status \in {"failed", "running"} /\ job'[j].status = "queued"
           /\ NoOtherActive(job, j) /\ conv[ConvOf[j]].mode = "iteration"
  <1>1. /\ Released(job[j], "queued") \in JobRow
        /\ Released(job[j], "queued").status = "queued"
    BY ReleasedRow DEF TypeOK, Status, Active
  <1>2. QED
    BY <1>1 DEF Resume, Lapsed, TypeOK, Table

\* A settlement fails a waiting job, and only as the delivery that wrote the
\* dispatch row.
LEMMA SettleMoves ==
    ASSUME TypeOK, ConnectionsOK, NEW e \in Executors, SettleRejected(e), NEW k \in Jobs
    PROVE  /\ job' \in Table
           /\ \/ job'[k] = job[k]
              \/ /\ job[k].status \in {"queued", "running"}
                 /\ job'[k].status = "failed"
                 /\ dispatch[k].token = e
  <1>1. delivery[e].job \in Jobs
    BY DEF SettleRejected, ConnectionsOK, Stage
  <1>2. \A i \in Jobs : [job[i] EXCEPT !.status = "failed"] \in JobRow
    BY DEF TypeOK, JobRow, Status
  <1>3. job[k] \in JobRow
    BY DEF TypeOK
  <1>4. QED
    BY <1>1, <1>2, <1>3 DEF SettleRejected, Waiting, Lapsed, TypeOK, Table, JobRow

-----------------------------------------------------------------------------
(* Types *)

\* The added steps write the job table only, and keep it a table.
LEMMA TableStepTypes ==
    ASSUME TypeOK, ConnectionsOK, TableStep
    PROVE  /\ TypeOK' /\ job' \in Table
           /\ UNCHANGED <<conv, project, versions, buildRun, exec>>
  <1>1. UNCHANGED <<conv, project, versions, buildRun, exec>>
    BY DEF TableStep, Enqueue, Resume, ListBatch, SettleRejected
  <1>2. job' \in Table
    <2>1. CASE Jobs = {}
      <3>1. job' = [j \in Jobs |-> job'[j]]
        BY <2>1 DEF TableStep, ListBatch, StopExhausted, SettleRejected, ConnectionsOK, Stage
      <3>2. QED
        BY <2>1, <3>1 DEF Table
    <2>2. CASE Jobs # {}
      BY <2>2, EnqueueMoves, ResumeMoves, ListMoves, SettleMoves DEF TableStep
    <2>3. QED
      BY <2>1, <2>2
  <1>3. QED
    BY <1>1, <1>2 DEF TypeOK, Table

\* The dispatch rows stay in their domains: a delivery is counted only below
\* the maximum.
LEMMA DispatchTypes ==
    ASSUME DTypeOK, ConnectionsOK, DNext
    PROVE  dispatch' \in [Jobs -> DispatchRow]
  <1>0. dispatch \in [Jobs -> DispatchRow] /\ MaxDeliveries \in Nat
    BY DeliveriesAssumption DEF DTypeOK
  <1>1. ReadyRow \in DispatchRow
    BY <1>0 DEF ReadyRow, NoDispatch, DispatchRow
  <1>2. CASE UNCHANGED dispatch
    BY <1>0, <1>2
  <1>3. ASSUME NEW j \in Jobs, Enqueue(j) \/ Resume(j)
        PROVE  dispatch' \in [Jobs -> DispatchRow]
    BY <1>0, <1>1, <1>3 DEF Enqueue, Resume
  <1>4. CASE ListBatch
    <2>1. \A k \in Jobs :
            /\ [dispatch[k] EXCEPT !.state = "failed"] \in DispatchRow
            /\ [dispatch[k] EXCEPT !.state = "done"] \in DispatchRow
      BY <1>0 DEF DispatchRow
    <2>2. QED
      BY <1>0, <1>4, <2>1 DEF ListBatch, Followed
  <1>5. ASSUME NEW e \in Executors, NEW j \in Jobs, ClaimDispatch(e, j)
        PROVE  dispatch' \in [Jobs -> DispatchRow]
    <2>1. /\ dispatch[j] \in DispatchRow
          /\ dispatch[j].deliveries \in 0 .. MaxDeliveries
          /\ dispatch[j].deliveries < MaxDeliveries
      BY <1>0, <1>5 DEF ClaimDispatch, Eligible, DispatchRow
    <2>2. dispatch[j].deliveries + 1 \in 0 .. MaxDeliveries
      BY <1>0, <2>1
    <2> DEFINE row == [dispatch[j] EXCEPT !.state = "active",
                         !.deliveries = @ + 1, !.token = e, !.window = "open"]
    <2>3. row \in DispatchRow
      BY <2>1, <2>2 DEF DispatchRow
    <2>4. dispatch' = [dispatch EXCEPT ![j] = row]
      BY <1>5 DEF ClaimDispatch
    <2>5. QED
      BY <1>0, <2>3, <2>4
  <1>6. ASSUME NEW j \in Jobs, NEW w \in {"open", "lapsed"},
               dispatch' = [dispatch EXCEPT ![j].window = w]
        PROVE  dispatch' \in [Jobs -> DispatchRow]
    <2>1. [dispatch[j] EXCEPT !.window = w] \in DispatchRow
      BY <1>0, <1>6 DEF DispatchRow
    <2>2. QED
      BY <1>0, <1>6, <2>1
  <1>7. ASSUME NEW e \in Executors, SettleRejected(e) \/ SettleFinished(e)
        PROVE  dispatch' \in [Jobs -> DispatchRow]
    <2>1. delivery[e].job \in Jobs
      BY <1>7 DEF SettleRejected, SettleFinished, ConnectionsOK, Stage
    <2>2. \/ UNCHANGED dispatch
          \/ dispatch' = [dispatch EXCEPT ![delivery[e].job].window = "open"]
      BY <1>7 DEF SettleRejected, SettleFinished
    <2>3. QED
      BY <1>0, <1>6, <2>1, <2>2
  <1>8. ASSUME NEW j \in Jobs, LapseWindow(j)
        PROVE  dispatch' \in [Jobs -> DispatchRow]
    BY <1>6, <1>8 DEF LapseWindow
  <1>9. QED
    BY <1>2, <1>3, <1>4, <1>5, <1>7, <1>8
       DEF DNext, DeliveryStep, Reject, DeliverClaim, Run, RunFault, Disconnect, Streamed

\* A connection is opened for a job, moves on with it or is closed.
ConnectionsKept == delivery' \in [Executors -> Delivery] /\ ConnectionsOK'

\* A delivery that is at work is at work on a job.
LEMMA OneConnection ==
    ASSUME DTypeOK, ConnectionsOK, NEW e \in Executors, NEW x \in Delivery,
           x.stage # "none" => x.job \in Jobs,
           delivery' = [delivery EXCEPT ![e] = x]
    PROVE  ConnectionsKept
  BY DEF DTypeOK, ConnectionsOK, ConnectionsKept

\* ... also when it advances.
LEMMA AdvanceKeeps ==
    ASSUME DTypeOK, ConnectionsOK, NEW e \in Executors,
           NEW from \in {"handling", "streaming"},
           NEW to \in {"streaming", "rejected", "finished"},
           delivery' = Advance(e, from, to)
    PROVE  ConnectionsKept
  <1>1. CASE delivery' = delivery
    BY <1>1 DEF DTypeOK, ConnectionsOK, ConnectionsKept
  <1>2. CASE delivery' # delivery
    <2> DEFINE x == [delivery[e] EXCEPT !.stage = to]
    <2>1. delivery[e].stage = from /\ delivery' = [delivery EXCEPT ![e] = x]
      BY <1>2 DEF Advance, Stage
    <2>2. delivery[e].job \in Jobs
      BY <2>1 DEF ConnectionsOK
    <2>3. x \in Delivery /\ x.job \in Jobs
      BY <2>2 DEF DTypeOK, Delivery
    <2>4. QED
      BY <2>1, <2>3, OneConnection
  <1>3. QED
    BY <1>1, <1>2

\* Every step writes at most one connection.
LEMMA DeliveryTypes ==
    ASSUME DTypeOK, ConnectionsOK, DNext
    PROVE  ConnectionsKept
  <1>0. delivery \in [Executors -> Delivery]
    BY DEF DTypeOK
  <1>1. UNCHANGED delivery => ConnectionsKept
    BY <1>0 DEF ConnectionsKept, ConnectionsOK
  <1>2. ASSUME NEW e \in Executors, delivery' = [delivery EXCEPT ![e] = NoDelivery]
        PROVE  ConnectionsKept
    BY <1>2, OneConnection DEF NoDelivery, Delivery
  <1>3. ASSUME NEW e \in Executors
        PROVE  /\ delivery' = Advance(e, "handling", "rejected") => ConnectionsKept
               /\ delivery' = Advance(e, "handling", "streaming") => ConnectionsKept
               /\ delivery' = Advance(e, "streaming", "finished") => ConnectionsKept
    BY AdvanceKeeps
  <1>4. ASSUME NEW e \in Executors, NEW j \in Jobs, ClaimDispatch(e, j)
        PROVE  ConnectionsKept
    <2>1. [job |-> j, stage |-> "handling"] \in Delivery
      BY DEF Delivery
    <2>2. QED
      BY <1>4, <2>1, OneConnection DEF ClaimDispatch
  <1>5. ASSUME NEW e \in Executors, DeliveryStep(e)
        PROVE  ConnectionsKept
    <2>1. CASE Reject(e)
      BY <1>3, <2>1 DEF Reject
    <2>2. CASE DeliverClaim(e)
      BY <1>1, <1>3, <2>2 DEF DeliverClaim
    <2>3. CASE Run(e)
      BY <1>1, <1>3, <2>3 DEF Run
    <2>4. CASE SettleRejected(e) \/ SettleFinished(e)
      BY <1>2, <2>4 DEF SettleRejected, SettleFinished
    <2>5. QED
      BY <1>5, <2>1, <2>2, <2>3, <2>4 DEF DeliveryStep
  <1>6. ASSUME NEW e \in Executors, RunFault(e)
        PROVE  ConnectionsKept
    BY <1>1, <1>2, <1>3, <1>6 DEF RunFault
  <1>7. ASSUME NEW e \in Executors, Disconnect(e)
        PROVE  ConnectionsKept
    BY <1>2, <1>7 DEF Disconnect
  <1>8. CASE ListBatch \/ \E j \in Jobs : Enqueue(j) \/ Resume(j) \/ LapseWindow(j)
    BY <1>1, <1>8 DEF ListBatch, Enqueue, Resume, LapseWindow
  <1>9. QED
    BY <1>1, <1>4, <1>5, <1>6, <1>7, <1>8 DEF DNext, Streamed

-----------------------------------------------------------------------------
(* The dispatch row of one job *)

\* A row exists only for a job, is open while the job is queued, and names a
\* delivery only when one was counted.
RowFollows(k) ==
    /\ job[k].status = "absent" => dispatch[k].state = "absent"
    /\ job[k].status = "queued" => dispatch[k].state \in {"ready", "active"}
    /\ dispatch[k].deliveries = 0 => dispatch[k].token = NoOwner

\* It stays so when the row stays and the job does not enter the queue.
LEMMA RowKept ==
    ASSUME NEW k \in Jobs, RowFollows(k),
           job'[k].status = "absent" => job[k].status = "absent",
           job'[k].status = "queued" => job[k].status = "queued",
           dispatch'[k].state = dispatch[k].state,
           dispatch'[k].deliveries = dispatch[k].deliveries,
           dispatch'[k].token = dispatch[k].token
    PROVE  RowFollows(k)'
  BY DEF RowFollows

\* Steps of executors, claims and users of RoleJobs leave the rows alone.
LEMMA RowOfRun ==
    ASSUME TypeOK, NEW k \in Jobs, RowFollows(k), UNCHANGED dispatch,
           UNCHANGED vars \/ JobStep \/ \E e \in Executors, j \in Jobs : Claim(e, j)
    PROVE  RowFollows(k)'
  <1>1. /\ job'[k].status = "absent" => job[k].status = "absent"
        /\ job'[k].status = "queued" => job[k].status = "queued"
    BY JobStepStatus, ClaimQueue DEF vars
  <1>2. QED
    BY <1>1, RowKept

\* Enqueueing and resuming write the row together with the job.
LEMMA RowOfRequest ==
    ASSUME DTypeOK, NEW k \in Jobs, RowFollows(k), NEW j \in Jobs,
           Enqueue(j) \/ Resume(j)
    PROVE  RowFollows(k)'
  <1>0. /\ TypeOK /\ dispatch \in [Jobs -> DispatchRow]
        /\ ReadyRow.state = "ready" /\ ReadyRow.token = NoOwner
    BY DEF DTypeOK, ReadyRow, NoDispatch
  <1>1. CASE k # j
    <2>1. job'[k] = job[k] /\ dispatch'[k] = dispatch[k]
      BY <1>0, <1>1, EnqueueMoves, ResumeMoves DEF Enqueue, Resume
    <2>2. QED
      BY <2>1, RowKept
  <1>2. CASE k = j /\ Resume(j)
    BY <1>0, <1>2, ResumeMoves DEF Resume, RowFollows
  <1>3. CASE k = j /\ Enqueue(j)
    <2>1. job' = InsertStmt(job, j)
      BY <1>3 DEF Enqueue
    <2>2. CASE job'[j] = job[j]
      BY <1>0, <1>3, <2>1, <2>2 DEF Enqueue, RowFollows
    <2>3. CASE job'[j] # job[j]
      <3>1. job[j].status = "absent" /\ job'[j].status = "queued"
        BY <1>0, <1>3, <2>3, EnqueueMoves
      <3>2. dispatch'[j] = ReadyRow
        BY <1>0, <1>3, <2>1, <3>1 DEF Enqueue, RowFollows
      <3>3. QED
        BY <1>0, <1>3, <3>1, <3>2 DEF RowFollows
    <2>4. QED
      BY <2>2, <2>3
  <1>4. QED
    BY <1>1, <1>2, <1>3

\* The listing closes the rows of the jobs that it or others ended.
LEMMA RowOfListing ==
    ASSUME DTypeOK, NEW k \in Jobs, RowFollows(k), ListBatch
    PROVE  RowFollows(k)'
  <1>0. TypeOK /\ dispatch[k] \in DispatchRow
    BY DEF DTypeOK
  <1>1. /\ job'[k].status = "absent" => job[k].status = "absent"
        /\ job'[k].status = "queued" => job[k].status = "queued"
    BY <1>0, ListMoves
  <1>2. /\ dispatch'[k].deliveries = dispatch[k].deliveries
        /\ dispatch'[k].token = dispatch[k].token
        /\ \/ dispatch[k].state = "absent" /\ dispatch'[k].state = "absent"
           \/ job'[k].status \in Terminal \cup {"failed"}
           \/ dispatch'[k].state = dispatch[k].state
    BY <1>0 DEF ListBatch, Followed, DispatchRow
  <1>3. QED
    BY <1>1, <1>2 DEF RowFollows, Terminal

\* A delivery is counted in the write that names it, and a settlement moves the window.
LEMMA RowOfDelivery ==
    ASSUME DTypeOK, ConnectionsOK, NEW k \in Jobs, RowFollows(k), NEW e \in Executors,
           \/ \E j \in Jobs : ClaimDispatch(e, j)
           \/ SettleRejected(e) \/ SettleFinished(e)
    PROVE  RowFollows(k)'
  <1>0. TypeOK /\ dispatch \in [Jobs -> DispatchRow] /\ dispatch[k] \in DispatchRow
    BY DEF DTypeOK
  <1>1. ASSUME NEW j \in Jobs, ClaimDispatch(e, j)
        PROVE  RowFollows(k)'
    <2>1. CASE k # j
      BY <1>0, <1>1, <2>1, RowKept DEF ClaimDispatch, vars
    <2>2. CASE k = j
      <3>1. /\ dispatch'[k].state = "active"
            /\ dispatch'[k].deliveries = dispatch[k].deliveries + 1
        BY <1>0, <1>1, <2>2 DEF ClaimDispatch, DispatchRow
      <3>2. dispatch[k].deliveries \in Nat
        BY <1>0, DeliveriesAssumption DEF DispatchRow
      <3>3. job' = job /\ job[k].status # "absent"
        BY <1>1, <2>2 DEF ClaimDispatch, Eligible, Waiting, Lapsed, vars
      <3>4. QED
        BY <3>1, <3>2, <3>3 DEF RowFollows
    <2>3. QED
      BY <2>1, <2>2
  <1>2. ASSUME NEW j \in Jobs, NEW w, dispatch' = [dispatch EXCEPT ![j].window = w]
        PROVE  /\ dispatch'[k].state = dispatch[k].state
               /\ dispatch'[k].deliveries = dispatch[k].deliveries
               /\ dispatch'[k].token = dispatch[k].token
    BY <1>0, <1>2 DEF DispatchRow
  <1>3. CASE SettleRejected(e) \/ SettleFinished(e)
    <2>1. delivery[e].job \in Jobs
      BY <1>3 DEF SettleRejected, SettleFinished, ConnectionsOK, Stage
    <2>2. \/ UNCHANGED dispatch
          \/ dispatch' = [dispatch EXCEPT ![delivery[e].job].window = "open"]
      BY <1>3 DEF SettleRejected, SettleFinished
    <2>3. /\ dispatch'[k].state = dispatch[k].state
          /\ dispatch'[k].deliveries = dispatch[k].deliveries
          /\ dispatch'[k].token = dispatch[k].token
      BY <1>2, <2>1, <2>2
    <2>4. /\ job'[k].status = "absent" => job[k].status = "absent"
          /\ job'[k].status = "queued" => job[k].status = "queued"
      BY <1>0, <1>3, SettleMoves DEF SettleFinished, vars
    <2>5. QED
      BY <2>3, <2>4, RowKept
  <1>4. QED
    BY <1>1, <1>3

\* Together: every step of the system keeps the row of a job in step with it.
LEMMA RowNext ==
    ASSUME DTypeOK, ConnectionsOK, NEW k \in Jobs, RowFollows(k), DNext
    PROVE  RowFollows(k)'
  <1>0. TypeOK
    BY DEF DTypeOK
  <1>1. ASSUME NEW e \in Executors, DeliveryStep(e)
        PROVE  RowFollows(k)'
    <2>1. CASE Reject(e) \/ DeliverClaim(e) \/ Run(e)
      <3>1. UNCHANGED dispatch
        BY <2>1 DEF Reject, DeliverClaim, Run
      <3>2. CASE Reject(e)
        BY <1>0, <3>1, <3>2, RowOfRun DEF Reject
      <3>3. CASE DeliverClaim(e)
        <4>1. \E j \in Jobs : Claim(e, j)
          BY <3>3 DEF DeliverClaim, ConnectionsOK, Stage
        <4>2. QED
          BY <1>0, <3>1, <4>1, RowOfRun
      <3>4. CASE Run(e)
        <4>1. JobStep
          BY <3>4 DEF Run, JobStep, ExecStep
        <4>2. QED
          BY <1>0, <3>1, <4>1, RowOfRun
      <3>5. QED
        BY <2>1, <3>2, <3>3, <3>4
    <2>2. QED
      BY <1>1, <2>1, RowOfDelivery DEF DeliveryStep
  <1>2. ASSUME NEW e \in Executors, RunFault(e)
        PROVE  RowFollows(k)'
    <2>1. UNCHANGED dispatch /\ (UNCHANGED vars \/ JobStep)
      BY <1>2 DEF RunFault, JobStep, ExecFault
    <2>2. QED
      BY <1>0, <2>1, RowOfRun
  <1>3. ASSUME NEW e \in Executors, Disconnect(e) \/ \E j \in Jobs : Streamed(e, j)
        PROVE  RowFollows(k)'
    <2>1. /\ UNCHANGED dispatch
          /\ UNCHANGED vars \/ \E j \in Jobs : Claim(e, j)
      BY <1>3 DEF Disconnect, Streamed, Request
    <2>2. QED
      BY <1>0, <2>1, RowOfRun
  <1>4. CASE Environment /\ UNCHANGED <<dispatch, delivery>>
    <2>1. UNCHANGED dispatch /\ JobStep
      BY <1>4 DEF JobStep
    <2>2. QED
      BY <1>0, <2>1, RowOfRun
  <1>5. ASSUME NEW j \in Jobs, LapseWindow(j)
        PROVE  RowFollows(k)'
    <2>1. CASE k # j
      BY <1>5, <2>1, RowKept DEF LapseWindow, vars, DTypeOK
    <2>2. CASE k = j
      <3>1. dispatch' = [dispatch EXCEPT ![k] = [dispatch[k] EXCEPT !.window = "lapsed"]]
        BY <1>5, <2>2 DEF LapseWindow
      <3>2. dispatch'[k] = [dispatch[k] EXCEPT !.window = "lapsed"]
        BY <3>1 DEF DTypeOK
      <3>3. dispatch[k] \in DispatchRow /\ job' = job
        BY <1>5 DEF LapseWindow, vars, DTypeOK
      <3>4. QED
        BY <3>2, <3>3, RowKept DEF DispatchRow
    <2>3. QED
      BY <2>1, <2>2
  <1>6. ASSUME NEW e \in Executors, NEW j \in Jobs, ClaimDispatch(e, j)
        PROVE  RowFollows(k)'
    BY <1>6, RowOfDelivery
  <1>7. QED
    BY <1>1, <1>2, <1>3, <1>4, <1>5, <1>6, RowOfRequest, RowOfListing DEF DNext

-----------------------------------------------------------------------------
(* The invariant *)

\* The steps that the consumer adds keep at most one job of a conversation
\* active, and only in iteration mode.
LEMMA DispatchScope ==
    ASSUME ScopeInv, ConnectionsOK, DNext
    PROVE  ScopeInv'
  <1>0. /\ TypeOK /\ job \in Table /\ OneActiveIn(job) /\ ModeIn(job)
    BY DEF ScopeInv, TypeOK, Table, OneActiveJob, OneActiveIn,
           ActiveInIterationMode, ModeIn
  <1>1. CASE UNCHANGED vars \/ JobStep \/ \E e \in Executors, j \in Jobs : Claim(e, j)
    <2>1. [Work]_vars
      BY <1>1 DEF JobStep, Work
    <2>2. QED
      BY <2>1, ScopeNext
  <1>2. CASE TableStep
    <2>1. TypeOK' /\ job' \in Table /\ conv' = conv
      BY <1>0, <1>2, TableStepTypes
    <2>2. OneActiveIn(job') /\ ModeIn(job')
      <3>1. CASE ListBatch \/ \E e \in Executors : SettleRejected(e)
        <4>1. \A k \in Jobs : job'[k].status \in Active => job[k].status \in Active
          BY <1>0, <3>1, ListMoves, SettleMoves DEF Active
        <4>2. QED
          BY <1>0, <2>1, <4>1, Fewer
      <3>2. ASSUME NEW j \in Jobs, Enqueue(j) \/ Resume(j)
            PROVE  OneActiveIn(job') /\ ModeIn(job')
        <4>1. /\ \A k \in Jobs \ {j} : job'[k] = job[k]
              /\ \/ job'[j] = job[j]
                 \/ NoOtherActive(job, j) /\ conv[ConvOf[j]].mode = "iteration"
          BY <1>0, <3>2, EnqueueMoves, ResumeMoves
        <4>2. CASE job'[j] = job[j]
          <5>1. \A k \in Jobs : job'[k] = job[k]
            BY <4>1, <4>2
          <5>2. QED
            BY <1>0, <2>1, <5>1, Fewer
        <4>3. CASE job'[j] # job[j]
          BY <1>0, <2>1, <4>1, <4>3, OneMore
        <4>4. QED
          BY <4>2, <4>3
      <3>3. QED
        BY <1>2, <3>1, <3>2 DEF TableStep
    <2>3. QED
      BY <2>1, <2>2 DEF ScopeInv, OneActiveJob, OneActiveIn, NoOtherActive,
                        ActiveInIterationMode, ModeIn
  <1>3. QED
    BY <1>1, <1>2, StepKinds

\* Inductive: the invariant of the job table, the types of the dispatch table
\* and the connections, and every row in step with its job.
DispatchInv ==
    /\ ScopeInv
    /\ dispatch \in [Jobs -> DispatchRow]
    /\ delivery \in [Executors -> Delivery]
    /\ ConnectionsOK
    /\ \A k \in Jobs : RowFollows(k)

\* Nothing is dispatched at first.
LEMMA DispatchInit == DInit => DispatchInv
  <1> SUFFICES ASSUME DInit PROVE DispatchInv
    OBVIOUS
  <1>1. ScopeInv
    BY ScopeInit DEF DInit
  <1>2. NoDispatch \in DispatchRow /\ NoDelivery \in Delivery
    BY DeliveriesAssumption DEF NoDispatch, DispatchRow, NoDelivery, Delivery
  <1>3. \A k \in Jobs : RowFollows(k)
    BY DEF DInit, Init, NoRow, NoDispatch, RowFollows
  <1>4. QED
    BY <1>1, <1>2, <1>3 DEF DInit, DispatchInv, ConnectionsOK, NoDelivery

\* Every step keeps the invariant.
LEMMA DispatchNext == DispatchInv /\ [DNext]_dvars => DispatchInv'
  <1>1. CASE UNCHANGED dvars
    <2>1. UNCHANGED vars
      BY <1>1 DEF dvars, vars
    <2>2. ScopeInv => ScopeInv'
      BY <2>1, ScopeNext
    <2>3. QED
      BY <1>1, <2>2 DEF dvars, DispatchInv, ConnectionsOK, RowFollows
  <1>2. ASSUME DispatchInv, DNext
        PROVE  DispatchInv'
    <2>1. DTypeOK /\ ScopeInv /\ ConnectionsOK
      BY <1>2 DEF DispatchInv, DTypeOK, ScopeInv
    <2>2. \A k \in Jobs : RowFollows(k)'
      BY <1>2, <2>1, RowNext DEF DispatchInv
    <2>3. ScopeInv'
      BY <1>2, <2>1, DispatchScope
    <2>4. dispatch' \in [Jobs -> DispatchRow] /\ ConnectionsKept
      BY <1>2, <2>1, DispatchTypes, DeliveryTypes
    <2>5. QED
      BY <2>2, <2>3, <2>4 DEF DispatchInv, ConnectionsKept
  <1>3. QED
    BY <1>1, <1>2

\* So it holds always.
LEMMA DispatchAlways == DSpec => []DispatchInv
  BY DispatchInit, DispatchNext, PTL DEF DSpec

\* Every table, executor and connection stays in a state of its schema; in
\* particular no job is delivered more often than the claim counts.
THEOREM DispatchTypeCorrect == DSpec => []DTypeOK
  <1>1. DispatchInv => DTypeOK
    BY DEF DispatchInv, DTypeOK, ScopeInv
  <1>2. QED
    BY <1>1, DispatchAlways, PTL

\* The scope of the claim survives enqueueing, resuming, listing and
\* settling: at most one active job in a conversation, in iteration mode.
THEOREM DispatchScopeCorrect == DSpec => []ClaimScope
  <1>1. DispatchInv => ClaimScope
    BY DEF DispatchInv, ScopeInv, ClaimScope
  <1>2. QED
    BY <1>1, DispatchAlways, PTL

\* No order of requests, claims, deliveries, listings, crashes and
\* cancellations leaves a job queued with a row that the consumer passes over.
THEOREM QueuedJobsAreDeliverable == DSpec => []QueuedIsDeliverable
  <1>1. DispatchInv => QueuedIsDeliverable
    BY DEF DispatchInv, RowFollows, QueuedIsDeliverable
  <1>2. QED
    BY <1>1, DispatchAlways, PTL

-----------------------------------------------------------------------------
(* Steps *)

\* A job that was not delivered since it was queued or resumed is failed only
\* by a listing that sees its scope closed: no late answer reaches it.
THEOREM FreshJobsStopByScope == DSpec => FreshQueuedStops
  <1>1. DispatchInv /\ [DNext]_dvars
          => [\A j \in Jobs :
                (/\ job[j].status = "queued" /\ dispatch[j].deliveries = 0
                 /\ job'[j].status = "failed")
                  => ~ScopeOpen(ConvOf[j], job[j].base)]_dvars
    <2> SUFFICES ASSUME DispatchInv, DNext, NEW k \in Jobs,
                        job[k].status = "queued", dispatch[k].deliveries = 0,
                        job'[k].status = "failed"
                 PROVE  ~ScopeOpen(ConvOf[k], job[k].base)
      OBVIOUS
    <2>1. TypeOK /\ ConnectionsOK /\ dispatch[k].token = NoOwner
      BY DEF DispatchInv, ScopeInv, RowFollows
    <2>2. ~(UNCHANGED vars \/ JobStep \/ \E e \in Executors, j \in Jobs : Claim(e, j))
      BY <2>1, QueuedStays, ClaimQueue DEF vars
    <2>3. ~\E e \in Executors : SettleRejected(e)
      BY <2>1, SettleMoves, ConstantsAssumption
    <2>4. ~\E j \in Jobs : Enqueue(j) \/ Resume(j)
      BY <2>1, EnqueueMoves, ResumeMoves
    <2>5. ListBatch
      BY <2>1, <2>2, <2>3, <2>4, StepKinds DEF TableStep
    <2>6. ~(dispatch[k].deliveries >= MaxDeliveries)
      BY DeliveriesAssumption
    <2>7. QED
      BY <2>1, <2>5, <2>6, ListMoves
  <1>2. QED
    BY <1>1, DispatchAlways, PTL DEF DSpec, FreshQueuedStops

\* Nothing that the consumer does brings a completed or cancelled job back.
THEOREM DispatchTerminalStay == DSpec => TerminalJobsStay
  <1>1. DispatchInv /\ [DNext]_dvars
          => [\A j \in Jobs : job[j].status \in Terminal
                => /\ job'[j].status = job[j].status
                   /\ j \notin versions => j \notin versions']_vars
    <2>1. CASE UNCHANGED dvars
      BY <2>1 DEF dvars, vars
    <2>2. ASSUME DispatchInv, DNext, NEW k \in Jobs, job[k].status \in Terminal
          PROVE  /\ job'[k].status = job[k].status
                 /\ k \notin versions => k \notin versions'
      <3>1. TypeOK /\ ConnectionsOK
        BY <2>2 DEF DispatchInv, ScopeInv
      <3>2. \A e \in Executors : ~Owns(e, k)
        BY <2>2 DEF Owns, Terminal
      <3>3. CASE UNCHANGED vars
        BY <3>3 DEF vars
      <3>4. CASE JobStep
        <4>1. job'[k].status = job[k].status
          BY <2>2, <3>1, <3>2, <3>4, JobStepStatus DEF Ends, Terminal, Active
        <4>2. Work
          BY <3>4 DEF JobStep, Work
        <4>3. k \notin versions => k \notin versions'
          BY <3>1, <3>2, <4>2, VersionsFenced
        <4>4. QED
          BY <4>1, <4>3
      <3>5. CASE \E e \in Executors, j \in Jobs : Claim(e, j)
        BY <2>2, <3>1, <3>5, ClaimStatus DEF Claim, ClaimTables
      <3>6. CASE TableStep
        <4>1. versions' = versions
          BY <3>1, <3>6, TableStepTypes
        <4>2. job'[k] = job[k]
          BY <2>2, <3>1, <3>6, EnqueueMoves, ResumeMoves, ListMoves, SettleMoves
             DEF TableStep, Terminal
        <4>3. QED
          BY <4>1, <4>2
      <3>7. QED
        BY <2>2, <3>1, <3>3, <3>4, <3>5, <3>6, StepKinds
    <2>3. QED
      BY <2>1, <2>2
  <1>2. QED
    BY <1>1, DispatchAlways, PTL DEF DSpec, TerminalJobsStay

-----------------------------------------------------------------------------
(* Results and versions beside the consumer *)

\* A row that a statement keeps, or takes from whoever had it: its result and
\* its base stay.
LeftAsBuilt(old, new) ==
    \/ new = old
    \/ /\ new.final = old.final /\ new.base = old.base
       /\ old.status # "absent" /\ new.status \notin {"absent", "running"}

\* Two statements after one another keep a row that each of them keeps.
LEMMA LeftTwice ==
    ASSUME NEW a, NEW b, NEW c, LeftAsBuilt(a, b), LeftAsBuilt(b, c)
    PROVE  LeftAsBuilt(a, c)
  BY DEF LeftAsBuilt

\* Every statement of the listing keeps every row.
LEMMA ListKeeps ==
    ASSUME TypeOK, ListBatch, NEW k \in Jobs
    PROVE  LeftAsBuilt(job[k], job'[k])
  <1> DEFINE t1 == Reconcile(job)
             t2 == StopMoved(t1)
             t3 == StopExhausted(t2)
  <1>1. ASSUME NEW t \in Table, NEW st \in {"completed", "failed"}, t[k].status # "absent"
        PROVE  LeftAsBuilt(t[k], Released(t[k], st))
    BY <1>1, ReleasedRow DEF LeftAsBuilt, Table, Status, Terminal
  <1>2. job \in Table
    BY DEF TypeOK, Table
  <1>3. t1 \in Table /\ LeftAsBuilt(job[k], t1[k])
    <2>1. t1[k] = job[k] \/ (job[k].status # "absent" /\ t1[k] = Released(job[k], "completed"))
      BY DEF Reconcile, Lapsed
    <2>2. QED
      BY <1>1, <1>2, <2>1, ReconcileMoves DEF LeftAsBuilt
  <1> HIDE DEF t1
  <1>4. t2 \in Table /\ LeftAsBuilt(t1[k], t2[k])
    <2>1. t2[k] = t1[k] \/ (t1[k].status # "absent" /\ t2[k] = Released(t1[k], "failed"))
      BY DEF StopMoved, Waiting, Lapsed
    <2>2. QED
      BY <1>1, <1>3, <2>1, StopMovedMoves DEF LeftAsBuilt
  <1> HIDE DEF t2
  <1>5. LeftAsBuilt(t2[k], t3[k])
    <2>1. t3[k] = t2[k] \/ (t2[k].status # "absent" /\ t3[k] = Released(t2[k], "failed"))
      BY DEF StopExhausted, Waiting, Lapsed
    <2>2. QED
      BY <1>1, <1>4, <2>1 DEF LeftAsBuilt
  <1>6. job' = t3
    BY DEF ListBatch, t1, t2
  <1> HIDE DEF t3
  <1>7. QED
    BY <1>3, <1>4, <1>5, <1>6, LeftTwice

\* The statements of the consumer and of durable requests keep the rows there
\* are; a new one has no result yet, and starts from the version shown.
LEMMA TableKeeps ==
    ASSUME TypeOK, ConnectionsOK, TableStep, NEW k \in Jobs
    PROVE  \/ LeftAsBuilt(job[k], job'[k])
           \/ /\ job[k].status = "absent" /\ job'[k].status = "queued"
              /\ job'[k].final = "none" /\ job'[k].base = conv[ConvOf[k]].version
  <1>0. job[k] \in JobRow /\ job \in Table
    BY DEF TypeOK, Table
  <1>1. ASSUME NEW j \in Jobs, Enqueue(j)
        PROVE  \/ job'[k] = job[k]
               \/ /\ job[k].status = "absent" /\ job'[k].status = "queued"
                  /\ job'[k].final = "none" /\ job'[k].base = conv[ConvOf[k]].version
    <2> DEFINE new == [NoRow EXCEPT !.status = "queued", !.base = conv[ConvOf[j]].version]
    <2>1. new.status = "queued" /\ new.final = "none" /\ new.base = conv[ConvOf[j]].version
      BY DEF NoRow
    <2>2. \/ job' = job
          \/ job[j].status = "absent" /\ job' = [job EXCEPT ![j] = new]
      BY <1>1 DEF Enqueue, InsertStmt
    <2> HIDE DEF new
    <2>3. QED
      BY <1>0, <2>1, <2>2 DEF Table
  <1>2. ASSUME NEW j \in Jobs, Resume(j)
        PROVE  LeftAsBuilt(job[k], job'[k])
    <2>1. job[j].status \in {"failed", "running"} /\ job' = [job EXCEPT ![j] = Released(job[j], "queued")]
      BY <1>2 DEF Resume, Lapsed
    <2>2. CASE k = j
      BY <1>0, <2>1, <2>2, ReleasedRow DEF LeftAsBuilt, Table, Status, Active
    <2>3. CASE k # j
      BY <2>1, <2>3 DEF LeftAsBuilt
    <2>4. QED
      BY <2>2, <2>3
  <1>3. ASSUME NEW e \in Executors, SettleRejected(e)
        PROVE  LeftAsBuilt(job[k], job'[k])
    <2>1. \/ job'[k] = job[k]
          \/ /\ job[k].status \in {"queued", "running"}
             /\ job'[k] = [job[k] EXCEPT !.status = "failed"]
      BY <1>0, <1>3 DEF SettleRejected, ConnectionsOK, Stage, Waiting, Lapsed, Table
    <2>2. QED
      BY <1>0, <2>1 DEF LeftAsBuilt, JobRow
  <1>4. QED
    BY <1>1, <1>2, <1>3, ListKeeps DEF TableStep, LeftAsBuilt

\* A row that is kept gives nobody a lease that he did not have.
LEMMA KeptSame ==
    ASSUME NEW k \in Jobs, LeftAsBuilt(job[k], job'[k])
    PROVE  SameRow(k)
  BY DEF LeftAsBuilt, SameRow, Owns, Fence

\* What executors know of their jobs, and what is named, stays true.
LEMMA TableRuns ==
    ASSUME RunsInv, ConnectionsOK, TableStep
    PROVE  RunsInv'
  <1>0. /\ TypeOK /\ ResultInv /\ ReferencesResolve /\ CompletedHasVersion
        /\ versions \subseteq Jobs
    BY DEF RunsInv, VersionsResolve, TypeOK
  <1>1. /\ TypeOK' /\ UNCHANGED <<conv, project, versions, buildRun, exec>>
    BY <1>0, TableStepTypes
  <1>2. ASSUME NEW k \in Jobs
        PROVE  \/ SameRow(k)
               \/ /\ job[k].status = "absent" /\ job'[k].status = "queued"
                  /\ job'[k].final = "none" /\ job'[k].base = conv[ConvOf[k]].version
    BY <1>0, TableKeeps, KeptSame
  <1>3. \A k : Outcomes(k)' = Outcomes(k)
    BY DEF Outcomes
  <1>4. RowsOK'
    BY <1>0, <1>2, <1>3 DEF ResultInv, RowsOK, SameRow
  <1>5. VersionsOK'
    BY <1>0, <1>1, <1>2 DEF ResultInv, VersionsOK, SameRow
  <1>6. ASSUME NEW d \in Executors
        PROVE  ExecOK(d)'
    <2>1. ExecOK(d) /\ exec'[d] = exec[d] /\ versions \subseteq versions'
      BY <1>0, <1>1 DEF ResultInv
    <2>2. exec[d].pc # "idle" => SameRow(exec[d].job)
      BY <1>0, <1>2, <2>1, BusyExec DEF ExecOK
    <2>3. QED
      BY <1>0, <2>1, <2>2, OtherExec
  <1>7. ReferencesResolve'
    <2>1. ASSUME NEW k \in Jobs
          PROVE  job'[k].base \in (versions \ {k}) \cup {Root}
      <3>1. ConvOf[k] \in Conversations
        BY ConstantsAssumption
      <3>2. job[k].status = "absent" => k \notin versions
        BY <1>0 DEF ResultInv, VersionsOK
      <3>3. QED
        BY <1>0, <1>2, <3>1, <3>2 DEF ReferencesResolve, SameRow
    <2>2. QED
      BY <1>0, <1>1, <2>1 DEF ReferencesResolve
  <1>8. CompletedHasVersion'
    <2>1. ASSUME NEW k \in Jobs \ Builds, job'[k].status = "completed",
                 job[k].status # "completed"
          PROVE  k \in versions
      BY <1>0, <2>1, EnqueueMoves, ResumeMoves, ListMoves, SettleMoves DEF TableStep
    <2>2. QED
      BY <1>0, <1>1, <2>1 DEF CompletedHasVersion
  <1>9. QED
    BY <1>1, <1>4, <1>5, <1>6, <1>7, <1>8 DEF RunsInv, ResultInv, VersionsResolve

\* Inductive, beside the invariant of the dispatch.
LEMMA DispatchRunsNext ==
    ASSUME DispatchInv, RunsInv, [DNext]_dvars
    PROVE  RunsInv'
  <1>1. ConnectionsOK
    BY DEF DispatchInv
  <1>2. CASE UNCHANGED dvars
    <2>1. [Work]_vars
      BY <1>2 DEF dvars, vars
    <2>2. QED
      BY <2>1, RunsNext
  <1>3. CASE UNCHANGED vars \/ JobStep \/ \E e \in Executors, j \in Jobs : Claim(e, j)
    <2>1. [Work]_vars
      BY <1>3 DEF JobStep, Work
    <2>2. QED
      BY <2>1, RunsNext
  <1>4. CASE TableStep
    BY <1>1, <1>4, TableRuns
  <1>5. QED
    BY <1>1, <1>2, <1>3, <1>4, StepKinds

\* So it holds always.
LEMMA DispatchRunsAlways == DSpec => []RunsInv
  <1>1. DInit => RunsInv
    BY RunsInit DEF DInit
  <1>2. QED
    BY <1>1, DispatchAlways, DispatchRunsNext, PTL DEF DSpec

\* Reconciliation, resumption and the sweep leave no name without a version,
\* and complete no iteration that has none.
THEOREM DispatchVersionsExist == DSpec => []VersionsResolve
  <1>1. RunsInv => VersionsResolve
    BY DEF RunsInv
  <1>2. QED
    BY <1>1, DispatchRunsAlways, PTL

\* No step of the consumer publishes, whoever it takes a job from: versions
\* are added by the owner of the lease alone, and not in a deleted project.
THEOREM DispatchVersionsFenced == DSpec => FencedVersions
  <1>1. DispatchInv /\ [DNext]_dvars
          => [\A j \in versions' \ versions :
                /\ \E e \in Executors : exec[e].job = j /\ Owns(e, j)
                /\ ~project.deleted]_vars
    <2>1. CASE UNCHANGED dvars
      BY <2>1 DEF dvars, vars
    <2>2. ASSUME DispatchInv, DNext, NEW k \in versions' \ versions
          PROVE  /\ \E e \in Executors : exec[e].job = k /\ Owns(e, k)
                 /\ ~project.deleted
      <3>1. TypeOK /\ ConnectionsOK
        BY <2>2 DEF DispatchInv, ScopeInv
      <3>2. ~UNCHANGED vars /\ ~TableStep
        BY <2>2, <3>1, TableStepTypes DEF vars
      <3>3. Work
        BY <2>2, <3>1, <3>2, StepKinds DEF JobStep, Work
      <3>4. QED
        BY <2>2, <3>1, <3>3, VersionsFenced
    <2>3. QED
      BY <2>1, <2>2
  <1>2. QED
    BY <1>1, DispatchAlways, PTL DEF DSpec, FencedVersions

\* Nor does one move a conversation: while a job of it runs, it only steps
\* forward to a child that was finished to be adopted, with a version that was
\* there before or that of the run.
THEOREM DispatchMovesForward == DSpec => RunningMovesForward
  <1>1. DispatchInv /\ RunsInv /\ [DNext]_dvars
          => [\A j \in Jobs :
                LET from == conv[ConvOf[j]].version
                    to == conv'[ConvOf[j]].version
                IN  (job[j].status = "running" /\ from # to)
                      => /\ to \in versions' \ {Root} /\ to \in versions \cup {j}
                         /\ ConvOf[to] = ConvOf[j]
                         /\ job[to].base = from
                         /\ job[to].final = "adopt"]_vars
    <2>1. CASE UNCHANGED dvars
      BY <2>1 DEF dvars, vars
    <2>2. CASE conv' = conv
      BY <2>2
    <2>3. ASSUME DispatchInv, RunsInv, DNext, conv' # conv
          PROVE  Work
      <3>1. TypeOK /\ ConnectionsOK
        BY <2>3 DEF DispatchInv, ScopeInv
      <3>2. ~UNCHANGED vars /\ ~TableStep
        BY <2>3, <3>1, TableStepTypes DEF vars
      <3>3. QED
        BY <2>3, <3>1, <3>2, StepKinds DEF JobStep, Work
    <2>4. QED
      BY <2>1, <2>2, <2>3, MoveStep DEF DispatchInv
  <1>2. QED
    BY <1>1, DispatchAlways, DispatchRunsAlways, PTL DEF DSpec, RunningMovesForward

-----------------------------------------------------------------------------
(* With the consumer, the job table still implements the lock *)

\* A statement that only takes jobs out of their conversations, and closes
\* some of those it takes out or that were not running.
LEMMA FreeMany ==
    ASSUME ScopeInv, versions' = versions,
           \A k \in Jobs : /\ job'[k].status = "running" => job'[k] = job[k]
                           /\ job[k].status \in Terminal => job'[k] = job[k]
    PROVE  LockStep
  <1> DEFINE Out == {k \in Jobs : job[k].status = "running" /\ job'[k].status # "running"}
             C == {ConvOf[k] : k \in Out}
             J == {k \in Jobs : job'[k].status \in Terminal}
  <1>0. \A k \in Jobs : job[k].status = "running" => ConvOf[k] \in Conversations /\ RunningIn(ConvOf[k]) = {k}
    BY HolderIs
  <1>1. \A c \in Conversations \ C : RunningIn(c)' = RunningIn(c)
    BY DEF RunningIn
  <1>2. \A c \in C : RunningIn(c)' = {}
    <2>1. SUFFICES ASSUME NEW k \in Out, NEW i \in Jobs, ConvOf[i] = ConvOf[k],
                          job'[i].status = "running"
                   PROVE  FALSE
      BY DEF RunningIn
    <2>2. i \in RunningIn(ConvOf[k])
      BY <2>1 DEF RunningIn
    <2>3. QED
      BY <1>0, <2>1, <2>2
  <1>3. C \in SUBSET Conversations /\ J \in SUBSET Jobs
    BY <1>0
  <1>4. Closed' = Closed \cup J
    BY DEF Closed
  <1>5. \A c \in Conversations \ C : Holder[c] \notin J
    <2>1. SUFFICES ASSUME NEW c \in Conversations \ C, Holder[c] \in J
                   PROVE  FALSE
      OBVIOUS
    <2>2. Holder[c] \in RunningIn(c)'
      BY <1>1, <2>1, ConstantsAssumption DEF Holder
    <2>3. QED
      BY <2>1, <2>2 DEF RunningIn, Terminal
  <1>6. \A c \in Conversations \ C : \A k \in RunningIn(c) : job'[k] = job[k]
    BY <1>1 DEF RunningIn
  <1> HIDE DEF C, J, Out
  <1>7. Holder' = [c \in Conversations |-> IF c \in C THEN NoJob ELSE Holder[c]]
    <2>1. One({}) = NoJob
      BY DEF One
    <2>2. \A c \in Conversations : One(RunningIn(c)') = IF c \in C THEN NoJob ELSE One(RunningIn(c))
      BY <1>1, <1>2, <2>1
    <2>3. QED
      BY <2>2, HolderOf
  <1>8. Live' = Live \ C
    BY <1>1, <1>2, <1>6 DEF Live
  <1>9. QED
    BY <1>3, <1>4, <1>5, <1>7, <1>8, AsFree

\* Enqueueing, resuming, listing and settling start nothing, and complete only
\* what they have taken from its executor.
LEMMA LockTable ==
    ASSUME ScopeInv, ConnectionsOK, TableStep
    PROVE  LockStep
  <1>1. TypeOK /\ versions' = versions
    BY TableStepTypes DEF ScopeInv
  <1>2. ASSUME NEW k \in Jobs
        PROVE  /\ job'[k].status = "running" => job'[k] = job[k]
               /\ job[k].status \in Terminal => job'[k] = job[k]
    BY <1>1, EnqueueMoves, ResumeMoves, ListMoves, SettleMoves DEF TableStep, Terminal
  <1>3. QED
    BY <1>1, <1>2, FreeMany

\* The whole of durable work, requests, deliveries, recovery and users, does to
\* the jobs what an expiring lock per conversation allows.
THEOREM DispatchImplementsTheLock == DSpec => ImplementsLock
  <1>1. DInit => Lock!LockInit
    BY LockInitial DEF DInit
  <1>2. DispatchInv /\ RunsInv /\ [DNext]_dvars => [Lock!LockNext]_(Lock!lockVars)
    <2> SUFFICES ASSUME DispatchInv, RunsInv, [DNext]_dvars
                 PROVE  LockStep
      BY DEF LockStep
    <2>1. ScopeInv /\ RowsOK /\ TypeOK /\ ConnectionsOK
      BY DEF DispatchInv, RunsInv, ResultInv, ScopeInv
    <2>2. CASE [Work]_vars
      BY <2>1, <2>2, LockNextStep
    <2>3. CASE TableStep
      BY <2>1, <2>3, LockTable
    <2>4. QED
      BY <2>1, <2>2, <2>3, StepKinds DEF JobStep, Work, dvars, vars
  <1>3. QED
    BY <1>1, <1>2, DispatchAlways, DispatchRunsAlways, PTL DEF DSpec, ImplementsLock, Lock!LockSpec

=============================================================================
