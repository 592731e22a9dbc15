---------------------------- MODULE RoleDispatch ----------------------------
(***************************************************************************)
(* Durable delivery of role jobs: the dispatch table (lib/jobs/dispatch),  *)
(* the internal route that replays a sealed request, and the independent   *)
(* consumer that asks for it (scripts/job-worker), composed with the job   *)
(* table and the executors of RoleJobs.                                    *)
(*                                                                         *)
(* The consumer asks for a job that a listing named; the claim evaluates   *)
(* the same predicate again, so which listing named it is not remembered.  *)
(* The sealed request itself is the subject of BuildFollowups.             *)
(***************************************************************************)
EXTENDS RoleJobs

CONSTANT MaxDeliveries  \* 3 in the code

ASSUME DeliveriesAssumption == MaxDeliveries \in Nat \ {0}

VARIABLES
    dispatch,       \* role_job_dispatch, by job
    delivery        \* the consumer's connection that executor e serves

dvars == <<job, conv, project, versions, buildRun, exec, dispatch, delivery>>

\* "window" is claimed_until; "token" names the delivery that wrote the row,
\* NoOwner standing for the one a resume writes.
DispatchRow == [state      : {"absent", "ready", "active", "failed", "done"},
                deliveries : 0 .. MaxDeliveries,
                window     : {"none", "open", "lapsed"},
                token      : Executors \cup {NoOwner}]
NoDispatch == [state |-> "absent", deliveries |-> 0, window |-> "none",
               token |-> NoOwner]
ReadyRow == [NoDispatch EXCEPT !.state = "ready"]

\* A connection waits for the handler's answer, reads the stream of a run that
\* was accepted, and is settled when the answer is an error or the stream ends.
Delivery == [job   : Jobs \cup {NoJob},
             stage : {"none", "handling", "streaming", "rejected", "finished"}]
NoDelivery == [job |-> NoJob, stage |-> "none"]

Stage(e, st) == delivery[e].stage = st
Advance(e, from, to) == IF Stage(e, from)
                        THEN [delivery EXCEPT ![e].stage = to] ELSE delivery

DInit == /\ Init
         /\ dispatch = [j \in Jobs |-> NoDispatch]
         /\ delivery = [e \in Executors |-> NoDelivery]

-----------------------------------------------------------------------------
(* Users *)

\* A request with Prefer: respond-async, or any build: one batch inserts the
\* job and, if it is queued now, its dispatch row.
Enqueue(j) ==
    LET inserted == InsertStmt(job, j) IN
    /\ job' = inserted
    /\ dispatch' = IF inserted[j].status = "queued"
                      /\ dispatch[j].state = "absent"
                   THEN [dispatch EXCEPT ![j] = ReadyRow] ELSE dispatch
    /\ UNCHANGED <<conv, project, versions, buildRun, exec, delivery>>

\* Mutant: the dispatch row of the earlier attempt is kept.
ResumeKeepingRow(j) ==
    /\ "resume" \in Incidents
    /\ job[j].status = "failed" \/ Lapsed(job[j])
    /\ conv[ConvOf[j]].mode = "iteration"
    /\ conv[ConvOf[j]].version = job[j].base
    /\ NoOtherActive(job, j)
    /\ job' = [job EXCEPT ![j] = Released(@, "queued")]
    /\ dispatch' = IF dispatch[j].state = "absent"
                   THEN [dispatch EXCEPT ![j] = ReadyRow] ELSE dispatch
    /\ UNCHANGED <<conv, project, versions, buildRun, exec, delivery>>

\* Mutant: a cancelled job can be continued.
ResumeCancelled(j) ==
    /\ "resume" \in Incidents
    /\ job[j].status \in {"failed", "cancelled"} \/ Lapsed(job[j])
    /\ conv[ConvOf[j]].mode = "iteration"
    /\ conv[ConvOf[j]].version = job[j].base
    /\ NoOtherActive(job, j)
    /\ job' = [job EXCEPT ![j] = Released(@, "queued")]
    /\ dispatch' = [dispatch EXCEPT ![j] = ReadyRow]
    /\ UNCHANGED <<conv, project, versions, buildRun, exec, delivery>>

\* Mutant: a job is continued beside another one of its conversation.
ResumeBeside(j) ==
    /\ "resume" \in Incidents
    /\ job[j].status = "failed" \/ Lapsed(job[j])
    /\ conv[ConvOf[j]].mode = "iteration"
    /\ conv[ConvOf[j]].version = job[j].base
    /\ job' = [job EXCEPT ![j] = Released(@, "queued")]
    /\ dispatch' = [dispatch EXCEPT ![j] = ReadyRow]
    /\ UNCHANGED <<conv, project, versions, buildRun, exec, delivery>>

\* "Continue from where it was saved".  The deletion mark was read when the
\* request was authorised; the batch itself does not look at it.
Resume(j) ==
    /\ "resume" \in Incidents
    /\ job[j].status = "failed" \/ Lapsed(job[j])
    /\ conv[ConvOf[j]].mode = "iteration"
    /\ conv[ConvOf[j]].version = job[j].base
    /\ NoOtherActive(job, j)
    /\ job' = [job EXCEPT ![j] = Released(@, "queued")]
    /\ dispatch' = [dispatch EXCEPT ![j] = ReadyRow]
    /\ UNCHANGED <<conv, project, versions, buildRun, exec, delivery>>

-----------------------------------------------------------------------------
(* The consumer's listing: statements of one batch, then a selection *)

\* Mutant: only orphans are reconciled, not the jobs that were failed.
ReconcileOrphans(t) ==
    [j \in Jobs |-> IF j \in versions \ Builds /\ Lapsed(t[j])
                    THEN Released(t[j], "completed") ELSE t[j]]

\* An iteration whose version was written is completed, not run again.
Reconcile(t) ==
    [j \in Jobs |-> IF /\ j \in versions \ Builds
                       /\ t[j].status = "failed" \/ Lapsed(t[j])
                    THEN Released(t[j], "completed") ELSE t[j]]

Waiting(t, j) == /\ dispatch[j].state # "absent"
                 /\ t[j].status = "queued" \/ Lapsed(t[j])

StopMoved(t) ==
    [j \in Jobs |-> IF Waiting(t, j) /\ ~ScopeOpen(ConvOf[j], t[j].base)
                    THEN Released(t[j], "failed") ELSE t[j]]

\* Mutant: one delivery more than the claim allows is waited for.
StopTooLate(t) ==
    [j \in Jobs |-> IF /\ Waiting(t, j)
                       /\ dispatch[j].deliveries > MaxDeliveries
                       /\ dispatch[j].window = "lapsed"
                    THEN Released(t[j], "failed") ELSE t[j]]

StopExhausted(t) ==
    [j \in Jobs |-> IF /\ Waiting(t, j)
                       /\ dispatch[j].deliveries >= MaxDeliveries
                       /\ dispatch[j].window = "lapsed"
                    THEN Released(t[j], "failed") ELSE t[j]]

\* The dispatch rows follow the outcome of their jobs.
Followed(t) ==
    [j \in Jobs |->
       IF dispatch[j].state = "absent" THEN dispatch[j]
       ELSE IF t[j].status = "failed" THEN [dispatch[j] EXCEPT !.state = "failed"]
       ELSE IF t[j].status \in Terminal THEN [dispatch[j] EXCEPT !.state = "done"]
       ELSE dispatch[j]]

ListBatch ==
    LET listed == StopExhausted(StopMoved(Reconcile(job))) IN
    /\ job' = listed
    /\ dispatch' = Followed(listed)
    /\ UNCHANGED <<conv, project, versions, buildRun, exec, delivery>>

\* Mutant: deliveries are not counted.
EligibleAlways(j) ==
    /\ dispatch[j].state = "ready"
         \/ (dispatch[j].state = "active" /\ dispatch[j].window = "lapsed")
    /\ Waiting(job, j)
    /\ ScopeOpen(ConvOf[j], job[j].base)

Eligible(j) ==
    /\ dispatch[j].state = "ready"
         \/ (dispatch[j].state = "active" /\ dispatch[j].window = "lapsed")
    /\ dispatch[j].deliveries < MaxDeliveries
    /\ Waiting(job, j)
    /\ ScopeOpen(ConvOf[j], job[j].base)

-----------------------------------------------------------------------------
(* A delivery *)

ClaimDispatch(e, j) ==
    /\ At(e, "idle") /\ Stage(e, "none") /\ Fresh(e)
    /\ Eligible(j)
    /\ dispatch' = [dispatch EXCEPT ![j].state = "active",
                                    ![j].deliveries = @ + 1,
                                    ![j].token = e, ![j].window = "open"]
    /\ delivery' = [delivery EXCEPT ![e] = [job |-> j, stage |-> "handling"]]
    /\ UNCHANGED vars

\* The handler refuses the replayed request before it claims: it was moved to
\* another base or mode meanwhile, or a provider is not configured any more.
Reject(e) ==
    /\ Stage(e, "handling") /\ At(e, "idle")
    /\ delivery' = Advance(e, "handling", "rejected")
    /\ UNCHANGED <<vars, dispatch>>

\* The handler claims the job; a refused claim is an error answer.
DeliverClaim(e) ==
    LET j == delivery[e].job IN
    /\ Stage(e, "handling")
    /\ Claim(e, j)
    /\ delivery' = IF Claimed(e, j) THEN delivery
                   ELSE Advance(e, "handling", "rejected")
    /\ UNCHANGED dispatch

\* The executor's own steps, and what the connection sees of them.
Run(e) ==
    /\ UNCHANGED dispatch
    /\ \/ /\ \/ StartRun(e) \/ Finish(e) \/ SaveResult(e) \/ AssertLease(e)
             \/ LookUpVersion(e) \/ CommitVersion(e) \/ RecordRun(e)
             \/ FailRun(e)
          /\ UNCHANGED delivery
       \/ OpenStream(e) /\ delivery' = Advance(e, "handling", "streaming")
       \/ /\ Complete(e) \/ FailJob(e)
          /\ delivery' = IF Stage(e, "streaming")
                         THEN Advance(e, "streaming", "finished")
                         ELSE Advance(e, "handling", "rejected")

\* Mutant: a superseded delivery still fails the job.
SettleAnyway(e) ==
    LET j == delivery[e].job IN
    /\ Stage(e, "rejected")
    /\ job' = IF Waiting(job, j)
              THEN [job EXCEPT ![j].status = "failed"] ELSE job
    /\ dispatch' = [dispatch EXCEPT ![j].window = "open"]
    /\ delivery' = [delivery EXCEPT ![e] = NoDelivery]
    /\ UNCHANGED <<conv, project, versions, buildRun, exec>>

\* settleDispatch with an error: the job is failed unless its delivery was
\* superseded or it runs elsewhere.  The lease columns are left as they are.
SettleRejected(e) ==
    LET j == delivery[e].job IN
    /\ Stage(e, "rejected")
    /\ IF dispatch[j].token = e
       THEN /\ job' = IF Waiting(job, j)
                      THEN [job EXCEPT ![j].status = "failed"] ELSE job
            /\ dispatch' = [dispatch EXCEPT ![j].window = "open"]
       ELSE UNCHANGED <<job, dispatch>>
    /\ delivery' = [delivery EXCEPT ![e] = NoDelivery]
    /\ UNCHANGED <<conv, project, versions, buildRun, exec>>

\* settleDispatch after the end of the stream.
SettleFinished(e) ==
    LET j == delivery[e].job IN
    /\ Stage(e, "finished")
    /\ dispatch' = IF dispatch[j].token = e
                   THEN [dispatch EXCEPT ![j].window = "open"] ELSE dispatch
    /\ delivery' = [delivery EXCEPT ![e] = NoDelivery]
    /\ UNCHANGED vars

\* The consumer restarts or its connection breaks: the stream is detached and
\* the execution goes on.
Disconnect(e) ==
    /\ delivery[e].stage \in {"streaming", "finished"}
    /\ delivery' = [delivery EXCEPT ![e] = NoDelivery]
    /\ UNCHANGED <<vars, dispatch>>

\* Faults of an executor; a dead process takes its connection with it.
RunFault(e) ==
    /\ UNCHANGED dispatch
    /\ \/ HandlerError(e) /\ UNCHANGED delivery
       \/ PrepareError(e) /\ delivery' = Advance(e, "handling", "rejected")
       \/ /\ \/ Crash(e)
             \/ /\ "crash" \in Incidents
                /\ At(e, "idle") /\ ~Stage(e, "none") /\ UNCHANGED vars
          /\ delivery' = [delivery EXCEPT ![e] = NoDelivery]

\* 120 seconds of a delivery, or the 20 seconds after it, pass.
LapseWindow(j) ==
    /\ dispatch[j].window = "open"
    /\ dispatch' = [dispatch EXCEPT ![j].window = "lapsed"]
    /\ UNCHANGED <<vars, delivery>>

-----------------------------------------------------------------------------
DeliveryStep(e) == \/ Reject(e) \/ DeliverClaim(e) \/ Run(e)
                   \/ SettleRejected(e) \/ SettleFinished(e)

\* A client that streams its own run does it outside the consumer.
Streamed(e, j) == /\ Stage(e, "none") /\ j \notin Builds
                  /\ Request(e, j)
                  /\ UNCHANGED <<dispatch, delivery>>

DNext ==
    \/ \E e \in Executors :
         \/ DeliveryStep(e) \/ RunFault(e) \/ Disconnect(e)
         \/ \E j \in Jobs : ClaimDispatch(e, j) \/ Streamed(e, j)
    \/ \E j \in Jobs : Enqueue(j) \/ Resume(j) \/ LapseWindow(j)
    \/ ListBatch
    \/ Environment /\ UNCHANGED <<dispatch, delivery>>

DSpec == DInit /\ [][DNext]_dvars

-----------------------------------------------------------------------------
(* Fairness: the consumer polls, a replayed request is answered, every call  *)
(* of a run returns or is aborted by its deadline, and time passes.  Nothing *)
(* is assumed of users, of faults or of the heartbeat of a live executor.    *)

\* The lease of a dead executor, which no heartbeat renews.
OrphanLapse(j) == /\ \A e \in Executors : Owns(e, j) => exec[e].job # j
                  /\ LapseLease(j) /\ UNCHANGED <<dispatch, delivery>>

Fairness ==
    /\ WF_dvars(ListBatch)
    /\ \A e \in Executors : WF_dvars(DeliveryStep(e))
    /\ \A j \in Jobs : /\ SF_dvars(\E e \in Executors : ClaimDispatch(e, j))
                       /\ WF_dvars(LapseWindow(j))
                       /\ WF_dvars(OrphanLapse(j))

FairSpec == DSpec /\ Fairness

-----------------------------------------------------------------------------
(* Properties *)

\* Every table, executor and connection is in a state of its schema.
DTypeOK == /\ TypeOK
           /\ dispatch \in [Jobs -> DispatchRow]
           /\ delivery \in [Executors -> Delivery]

\* A queued job is in the consumer's hands: no order of enqueueing, failing,
\* listing and resuming leaves it queued with a dispatch row that is closed.
QueuedIsDeliverable ==
    \A j \in Jobs : job[j].status = "queued"
                      => dispatch[j].state \in {"ready", "active"}

\* A job that was queued or resumed and not delivered since is stopped only
\* because its project, its mode or its base changed: the late settlement of
\* an earlier delivery does not undo the user's decision to continue.
FreshQueuedStops ==
    [][\A j \in Jobs :
         (/\ job[j].status = "queued" /\ dispatch[j].deliveries = 0
          /\ job'[j].status = "failed")
           => ~ScopeOpen(ConvOf[j], job[j].base)]_dvars

\* A queued job does not stay queued: it is run, stopped or cancelled.
QueuedLeaves ==
    \A j \in Jobs : (job[j].status = "queued") ~> (job[j].status # "queued")

\* A run that the consumer started or may still recover comes to an end,
\* whatever crashes, within the three deliveries.
DurableRunEnds ==
    \A j \in Jobs :
        (job[j].status = "running" /\ dispatch[j].state \in {"ready", "active"})
          ~> (job[j].status # "running")

\* Jobs come to rest, whichever of the two states they are in.
JobsSettle == QueuedLeaves /\ DurableRunEnds

\* An iteration whose version was written is not left failed: the listing
\* finds the version, or the user continues or cancels it.
CommittedIsReconciled ==
    \A j \in Jobs \ Builds :
        (job[j].status = "failed" /\ j \in versions) ~> (job[j].status # "failed")
=============================================================================
