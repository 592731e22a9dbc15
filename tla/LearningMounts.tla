--------------------------- MODULE LearningMounts ---------------------------
(***************************************************************************)
(* Automatic mounts of one conversation (lib/learning-path/automatic*.ts). *)
(* A committed version leaves a row in an outbox; the job worker lists     *)
(* rows and executors of the mount route lease one, compile a private      *)
(* package and delegate it to the central service.  A receipt with gaps    *)
(* that research may close starts, once, a repair: a job of its own.       *)
(* Jobs, versions and the conversation are the environment; RoleJobs       *)
(* models them.  A version and its mount are named by the job they are of. *)
(***************************************************************************)
EXTENDS Integers, FiniteSets
CONSTANTS
    Jobs,           \* jobs that may write a version
    Users,          \* the ones that users start
    RepairOf,       \* automaticRepairJobId: from a mount to its repair job
    Executors,      \* tokens of executions of the mount route
    MountAttempts,  \* 8 in the code
    RepairAttempts, \* 3 in the code
    MaxFaults,      \* bound: crashes, and requests of users to mount again
    NoOwner, NoJob, Root,
    MountIncidents

Origins == DOMAIN RepairOf

AllMountIncidents == {"crash", "delete", "mode", "adopt", "retry"}

ASSUME MountConstants ==
    /\ IsFiniteSet(Jobs) /\ Users \subseteq Jobs /\ Origins \subseteq Jobs
    /\ \A m \in Origins : RepairOf[m] \in Jobs \ Users
    /\ \A m, n \in Origins : RepairOf[m] = RepairOf[n] => m = n
    /\ Root \notin Jobs /\ NoJob \notin Jobs /\ NoOwner \notin Executors
    /\ MountAttempts \in Nat \ {0} /\ RepairAttempts \in Nat \ {0}
    /\ MaxFaults \in Nat /\ MountIncidents \subseteq AllMountIncidents

VARIABLES
    job,            \* role_jobs: status and base version
    conv,           \* the conversation: mode and version; the project's mark
    versions,       \* versions that exist
    mount,          \* role_learning_mounts, by version
    repair,         \* role_learning_repairs, by the mount they repair
    exec,           \* executions of the mount route
    faults          \* crashes and requests so far, for the bound

env == <<job, conv, versions, faults>>
mvars == <<job, conv, versions, mount, repair, exec, faults>>

-----------------------------------------------------------------------------
(* Rows *)

\* What the central service answers: everything is mounted, or not, with a gap
\* that research may close (repairableMount) or with none.
Receipts == {"completed", "researchable", "unresearchable"}

MountRow == [status   : {"absent", "queued", "running", "retry", "failed",
                         "superseded"} \cup Receipts,
             attempt  : 0 .. MountAttempts,
             owner    : Executors \cup {NoOwner},
             lease    : {"none", "live", "lapsed"},
             linked   : BOOLEAN,   \* conversation_id is set
             rowid    : 0 .. Cardinality(Jobs)]

NoMount == [status |-> "absent", attempt |-> 0, owner |-> NoOwner,
            lease |-> "none", linked |-> FALSE, rowid |-> 0]

RepairRow == [status  : {"absent", "pending", "preparing", "queued",
                         "completed", "stopped"},
              attempt : 0 .. RepairAttempts,
              owner   : Executors \cup {NoOwner},
              lease   : {"none", "live", "lapsed"}]

NoRepair == [status |-> "absent", attempt |-> 0, owner |-> NoOwner,
             lease |-> "none"]

MountPc == {"idle", "packing", "checking", "requeueing", "requesting",
            "storing", "failing", "inserting", "looking", "settling",
            "claiming", "preparing", "enqueueing", "marking", "releasing"}

\* next: the status that the execution is about to write.
MountExec == [pc   : MountPc, mount : Jobs \cup {NoJob},
              next : {"none", "transient", "permanent"} \cup Receipts
                     \cup {"queued", "stopped"}]

IdleMountExec == [pc |-> "idle", mount |-> NoJob, next |-> "none"]

MountInit ==
    /\ job = [j \in Jobs |-> [status |-> "absent", base |-> Root]]
    /\ conv = [mode |-> "iteration", version |-> Root, deleted |-> FALSE]
    /\ versions = {}
    /\ mount = [m \in Jobs |-> NoMount]
    /\ repair = [m \in Origins |-> NoRepair]
    /\ exec = [e \in Executors |-> IdleMountExec]
    /\ faults = 0

-----------------------------------------------------------------------------
(* Conditions of the statements *)

Idle == \A j \in Jobs : job[j].status \notin {"queued", "running"}

\* Mutant: nothing bounds the attempts.
EligibleSpent(m) ==
    /\ ~conv.deleted /\ Idle
    /\ mount[m].linked => conv.version = m
    /\ \/ mount[m].status \in {"queued", "retry"}
       \/ mount[m].status = "running" /\ mount[m].lease = "lapsed"

\* Mutant: a mount whose execution died is not taken again.
EligibleWaiting(m) ==
    /\ ~conv.deleted /\ Idle
    /\ mount[m].attempt < MountAttempts
    /\ mount[m].linked => conv.version = m
    /\ mount[m].status \in {"queued", "retry"}

\* eligibleAutomaticMount; the backoff (available_at) is left to the scheduler.
EligibleMount(m) ==
    /\ ~conv.deleted /\ Idle
    /\ mount[m].attempt < MountAttempts
    /\ mount[m].linked => conv.version = m
    /\ \/ mount[m].status \in {"queued", "retry"}
       \/ mount[m].status = "running" /\ mount[m].lease = "lapsed"

\* A version that a repair produced is mounted, and never repaired again.
OfRepair(m) == \E o \in Origins : RepairOf[o] = m /\ repair[o].status # "absent"

\* The mount is still the conversation's and the conversation may be worked on.
InScope(m) == /\ ~conv.deleted /\ mount[m].linked
              /\ conv.version = m /\ conv.mode = "iteration"

\* Mutant: the version of a repair is repaired as well.
EligibleAgain(m) == mount[m].status = "researchable" /\ InScope(m) /\ Idle

\* eligibleAutomaticRepair
EligibleRepair(m) == /\ mount[m].status = "researchable" /\ InScope(m)
                     /\ ~OfRepair(m) /\ Idle

\* The outbox statement: INSERT OR IGNORE, one row for a version.
Enqueued(t, m, linked) ==
    IF t[m].status # "absent" THEN t
    ELSE [t EXCEPT ![m] = [NoMount EXCEPT !.status = "queued", !.linked = linked,
            !.rowid = 1 + Cardinality({n \in Jobs : t[n].status # "absent"})]]

OwnsMount(e, m) == mount[m].owner = e
OwnsRepair(e, m) == repair[m].owner = e

ToPc(e, pc) == exec' = [exec EXCEPT ![e].pc = pc]
ToWrite(e, pc, next) == exec' = [exec EXCEPT ![e].pc = pc, ![e].next = next]
Done(e) == exec' = [exec EXCEPT ![e] = IdleMountExec]

-----------------------------------------------------------------------------
(* The environment: jobs of the conversation, its user, deletion *)

StartJob(j) ==
    /\ j \in Users /\ job[j].status = "absent"
    /\ ~conv.deleted /\ conv.mode = "iteration" /\ Idle
    /\ job' = [job EXCEPT ![j] = [status |-> "queued", base |-> conv.version]]
    /\ UNCHANGED <<conv, versions, mount, repair, exec, faults>>

RunJob(j) ==
    /\ job[j].status = "queued" /\ job[j].base = conv.version
    /\ job' = [job EXCEPT ![j].status = "running"]
    /\ UNCHANGED <<conv, versions, mount, repair, exec, faults>>

\* The version and its mount are written in one batch; a version kept for
\* review leaves no mount.
WriteVersion(j, adopt) ==
    /\ job[j].status = "running" /\ j \notin versions
    /\ versions' = versions \cup {j}
    /\ IF adopt THEN /\ conv' = [conv EXCEPT !.version = j]
                     /\ mount' = Enqueued(mount, j, TRUE)
                ELSE UNCHANGED <<conv, mount>>
    /\ UNCHANGED <<job, repair, exec, faults>>

\* A job without version has failed; one whose base was moved is stopped; a
\* failed one that wrote its version may be reconciled.
EndJob(j) ==
    /\ \/ job[j].status = "running"
       \/ job[j].status = "queued" /\ job[j].base # conv.version
       \/ job[j].status = "failed" /\ j \in versions
    /\ \E end \in {"failed"} \cup (IF j \in versions THEN {"completed"} ELSE {}) :
         job' = [job EXCEPT ![j].status = end]
    /\ UNCHANGED <<conv, versions, mount, repair, exec, faults>>

Adopt(v) ==
    /\ "adopt" \in MountIncidents /\ ~conv.deleted
    /\ v \in versions \cup {Root} /\ v # conv.version
    /\ \A j \in Jobs : job[j].status # "running"
    /\ conv' = [conv EXCEPT !.version = v]
    /\ UNCHANGED <<job, versions, mount, repair, exec, faults>>

SwitchMode ==
    /\ "mode" \in MountIncidents /\ Idle
    /\ conv' = [conv EXCEPT !.mode = IF @ = "iteration" THEN "explanation"
                                     ELSE "iteration"]
    /\ UNCHANGED <<job, versions, mount, repair, exec, faults>>

\* Deletion cancels the active jobs; mounts and repairs stay as they are.
Delete ==
    /\ "delete" \in MountIncidents /\ ~conv.deleted
    /\ conv' = [conv EXCEPT !.deleted = TRUE]
    /\ job' = [j \in Jobs |-> IF job[j].status \in {"queued", "running"}
                              THEN [job[j] EXCEPT !.status = "cancelled"]
                              ELSE job[j]]
    /\ UNCHANGED <<versions, mount, repair, exec, faults>>

Restore ==
    /\ conv.deleted
    /\ conv' = [conv EXCEPT !.deleted = FALSE]
    /\ UNCHANGED <<job, versions, mount, repair, exec, faults>>

\* retryAutomaticMount; a version without row gets one without conversation.
Retry(v) ==
    /\ "retry" \in MountIncidents /\ faults < MaxFaults
    /\ v \in versions /\ ~conv.deleted
    /\ mount' = [Enqueued(mount, v, FALSE) EXCEPT
                   ![v] = IF @.status \in {"failed", "retry"}
                          THEN [@ EXCEPT !.status = "queued", !.attempt = 0]
                          ELSE @]
    /\ faults' = faults + 1
    /\ UNCHANGED <<job, conv, versions, repair, exec>>

-----------------------------------------------------------------------------
(* A listing: four statements, each a transaction of its own.  Listings of    *)
(* one consumer and its successor overlap, so that any of them may come next. *)

\* The newest version that the conversation points to mounts for older ones.
Supersede ==
    /\ mount' = [m \in Jobs |->
         IF /\ mount[m].status \in {"queued", "retry"} /\ mount[m].linked
            /\ \E n \in Jobs : /\ conv.version = n /\ mount[n].linked
                               /\ mount[n].rowid > mount[m].rowid
         THEN [mount[m] EXCEPT !.status = "superseded"] ELSE mount[m]]
    /\ UNCHANGED <<env, repair, exec>>

\* Repairs end as their jobs did.
SettleRepairs ==
    /\ repair' = [m \in Origins |->
         IF /\ repair[m].status \in {"queued", "preparing"}
            /\ job[RepairOf[m]].status \in {"completed", "failed", "cancelled"}
         THEN [repair[m] EXCEPT !.status =
                 IF job[RepairOf[m]].status = "completed"
                 THEN "completed" ELSE "stopped"]
         ELSE repair[m]]
    /\ UNCHANGED <<env, mount, exec>>

\* Repairs not yet started end when their conversation has moved on.
StopMovedRepairs ==
    /\ repair' = [m \in Origins |->
         IF repair[m].status \in {"pending", "preparing"} /\ ~InScope(m)
         THEN [repair[m] EXCEPT !.status = "stopped"] ELSE repair[m]]
    /\ UNCHANGED <<env, mount, exec>>

StopExhaustedRepairs ==
    /\ repair' = [m \in Origins |->
         IF /\ repair[m].attempt >= RepairAttempts
            /\ \/ repair[m].status = "pending"
               \/ repair[m].status = "preparing" /\ repair[m].lease = "lapsed"
         THEN [repair[m] EXCEPT !.status = "stopped", !.owner = NoOwner,
                                !.lease = "none"]
         ELSE repair[m]]
    /\ UNCHANGED <<env, mount, exec>>

-----------------------------------------------------------------------------
(* An execution that mounts *)

\* The claim: eligible, and no other live mount of the same owner.
ClaimMount(e, m) ==
    /\ exec[e].pc = "idle" /\ EligibleMount(m)
    /\ \A n \in Jobs \ {m} : ~(mount[n].status = "running"
                               /\ mount[n].lease = "live")
    /\ mount' = [mount EXCEPT ![m] = [@ EXCEPT !.status = "running",
                   !.attempt = mount[m].attempt + 1, !.owner = e, !.lease = "live"]]
    /\ exec' = [exec EXCEPT ![e] = [pc |-> "packing", mount |-> m,
                                    next |-> "none"]]
    /\ UNCHANGED <<env, repair>>

\* The private package is ready, or the version does not pass as one.
Pack(e) ==
    /\ exec[e].pc = "packing"
    /\ ToPc(e, "checking") \/ ToWrite(e, "failing", "permanent")
    /\ UNCHANGED <<env, mount, repair>>

\* The check right before the delegation.
Check(e) ==
    LET m == exec[e].mount IN
    /\ exec[e].pc = "checking"
    /\ IF conv.deleted THEN ToWrite(e, "failing", "permanent")
       ELSE IF ~Idle \/ (mount[m].linked /\ conv.version # m)
            THEN ToPc(e, "requeueing") ELSE ToPc(e, "requesting")
    /\ UNCHANGED <<env, mount, repair>>

\* What the owner of the lease writes when it gives a mount up; nothing if the
\* lease went to another execution.
Released(e, m, status, attempt) ==
    mount' = IF OwnsMount(e, m)
             THEN [mount EXCEPT ![m] = [@ EXCEPT !.status = status,
                     !.attempt = attempt, !.owner = NoOwner, !.lease = "none"]]
             ELSE mount

\* The conversation went on meanwhile: the attempt is given back.
Requeue(e) ==
    LET m == exec[e].mount IN
    /\ exec[e].pc = "requeueing" /\ Done(e)
    /\ Released(e, m, "queued",
                IF mount[m].attempt > 0 THEN mount[m].attempt - 1 ELSE 0)
    /\ UNCHANGED <<env, repair>>

\* The central service answers with a receipt, refuses, or cannot be reached.
RequestMount(e) ==
    /\ exec[e].pc = "requesting"
    /\ \/ \E receipt \in Receipts : ToWrite(e, "storing", receipt)
       \/ \E fault \in {"transient", "permanent"} : ToWrite(e, "failing", fault)
    /\ UNCHANGED <<env, mount, repair>>

StoreReceipt(e) ==
    LET m == exec[e].mount IN
    /\ exec[e].pc = "storing" /\ Done(e)
    /\ Released(e, m, exec[e].next, mount[m].attempt)
    /\ UNCHANGED <<env, repair>>

\* An exception anywhere in the execution counts as transient.
MountError(e) ==
    /\ exec[e].pc \in {"packing", "checking", "requeueing", "storing"}
    /\ ToWrite(e, "failing", "transient")
    /\ UNCHANGED <<env, mount, repair>>

\* Mutant: the failure is written whoever holds the lease by now.
FailMountUnfenced(e) ==
    LET m == exec[e].mount IN
    /\ exec[e].pc = "failing" /\ Done(e)
    /\ mount' = [mount EXCEPT ![m] = [@ EXCEPT
         !.status = IF exec[e].next = "transient"
                       /\ mount[m].attempt < MountAttempts
                    THEN "retry" ELSE "failed",
         !.owner = NoOwner, !.lease = "none"]]
    /\ UNCHANGED <<env, repair>>

FailMount(e) ==
    LET m == exec[e].mount IN
    /\ exec[e].pc = "failing" /\ Done(e)
    /\ Released(e, m, IF exec[e].next = "transient"
                         /\ mount[m].attempt < MountAttempts
                      THEN "retry" ELSE "failed", mount[m].attempt)
    /\ UNCHANGED <<env, repair>>

-----------------------------------------------------------------------------
(* An execution that starts a repair *)

\* The mount is read; its receipt can no longer change.
ReadReceipt(e, m) ==
    /\ exec[e].pc = "idle" /\ EligibleRepair(m)
    /\ exec' = [exec EXCEPT ![e] = [pc |-> "inserting", mount |-> m,
                                    next |-> "none"]]
    /\ UNCHANGED <<env, mount, repair>>

\* Mutant: the row is replaced (INSERT OR REPLACE) where it exists already.
InsertOrReplace(e) ==
    LET m == exec[e].mount IN
    /\ exec[e].pc = "inserting" /\ ToPc(e, "looking")
    /\ repair' = IF EligibleRepair(m)
                 THEN [repair EXCEPT ![m] = [NoRepair EXCEPT !.status = "pending"]]
                 ELSE repair
    /\ UNCHANGED <<env, mount>>

InsertRepair(e) ==
    LET m == exec[e].mount IN
    /\ exec[e].pc = "inserting" /\ ToPc(e, "looking")
    /\ repair' = IF repair[m].status = "absent" /\ EligibleRepair(m)
                 THEN [repair EXCEPT ![m].status = "pending"] ELSE repair
    /\ UNCHANGED <<env, mount>>

\* The one job of this repair may exist already.
LookUpJob(e) ==
    LET child == job[RepairOf[exec[e].mount]] IN
    /\ exec[e].pc = "looking"
    /\ IF child.status = "absent" THEN ToPc(e, "claiming")
       ELSE ToWrite(e, "settling",
              IF child.status = "completed" THEN "completed"
              ELSE IF child.status \in {"failed", "cancelled"} THEN "stopped"
              ELSE "queued")
    /\ UNCHANGED <<env, mount, repair>>

\* What was seen is written without regard to leases.
SettleSeen(e) ==
    LET m == exec[e].mount IN
    /\ exec[e].pc = "settling" /\ Done(e)
    /\ repair' = IF repair[m].status = "absent" THEN repair
                 ELSE [repair EXCEPT ![m] = [@ EXCEPT !.status = exec[e].next,
                         !.owner = NoOwner, !.lease = "none"]]
    /\ UNCHANGED <<env, mount>>

ClaimRepair(e) ==
    LET m == exec[e].mount IN
    /\ exec[e].pc = "claiming"
    /\ IF /\ repair[m].attempt < RepairAttempts /\ EligibleRepair(m)
          /\ \/ repair[m].status = "pending"
             \/ repair[m].status = "preparing" /\ repair[m].lease = "lapsed"
       THEN /\ repair' = [repair EXCEPT ![m] = [status |-> "preparing",
                            attempt |-> @.attempt + 1, owner |-> e,
                            lease |-> "live"]]
            /\ ToPc(e, "preparing")
       ELSE Done(e) /\ UNCHANGED repair
    /\ UNCHANGED <<env, mount>>

\* The authorisation of the source job is found and confirmed by the central
\* service, and there is something to research; or not.
Prepare(e) ==
    /\ exec[e].pc = "preparing"
    /\ \/ ToPc(e, "enqueueing")
       \/ \E fault \in {"transient", "permanent"} :
            ToWrite(e, "releasing", fault)
    /\ UNCHANGED <<env, mount, repair>>

\* The insertion fence of enqueueRoleJob.
RepairFence(e, m) == /\ OwnsRepair(e, m) /\ repair[m].status = "preparing"
                     /\ EligibleRepair(m)

\* The job is inserted under the fence.  It exists then, or a conflict is
\* answered; the answer may also be lost.
EnqueueRepair(e) ==
    LET m == exec[e].mount
        child == RepairOf[m]
    IN
    /\ exec[e].pc = "enqueueing"
    /\ job' = IF job[child].status = "absent" /\ RepairFence(e, m)
              THEN [job EXCEPT ![child] = [status |-> "queued",
                                           base |-> conv.version]]
              ELSE job
    /\ \/ ToWrite(e, "releasing", "transient")
       \/ IF job'[child].status = "absent"
          THEN ToWrite(e, "releasing", "permanent") ELSE ToPc(e, "marking")
    /\ UNCHANGED <<conv, versions, faults, mount, repair>>

MarkQueued(e) ==
    LET m == exec[e].mount IN
    /\ exec[e].pc = "marking" /\ Done(e)
    /\ repair' = IF OwnsRepair(e, m)
                 THEN [repair EXCEPT ![m] = [@ EXCEPT !.status = "queued",
                         !.owner = NoOwner, !.lease = "none"]] ELSE repair
    /\ UNCHANGED <<env, mount>>

\* A failed preparation is tried again unless it was refused or spent.
ReleaseRepair(e) ==
    LET m == exec[e].mount
        again == exec[e].next = "transient" /\ repair[m].attempt < RepairAttempts
    IN
    /\ exec[e].pc = "releasing" /\ Done(e)
    /\ repair' = IF OwnsRepair(e, m)
                 THEN [repair EXCEPT ![m] = [@ EXCEPT
                         !.status = IF again THEN "pending" ELSE "stopped",
                         !.owner = NoOwner, !.lease = "none"]] ELSE repair
    /\ UNCHANGED <<env, mount>>

-----------------------------------------------------------------------------
(* Faults and time *)

CrashMount(e) ==
    /\ "crash" \in MountIncidents /\ faults < MaxFaults /\ exec[e].pc # "idle"
    /\ Done(e)
    /\ faults' = faults + 1
    /\ UNCHANGED <<job, conv, versions, mount, repair>>

\* 120 seconds of a mount, or 90 of a repair, pass without a renewal.
LapseMount(m) ==
    /\ mount[m].lease = "live"
    /\ mount' = [mount EXCEPT ![m].lease = "lapsed"]
    /\ UNCHANGED <<env, repair, exec>>

LapseRepair(m) ==
    /\ repair[m].lease = "live"
    /\ repair' = [repair EXCEPT ![m].lease = "lapsed"]
    /\ UNCHANGED <<env, mount, exec>>

-----------------------------------------------------------------------------
Execute(e) == \/ Pack(e) \/ Check(e) \/ Requeue(e) \/ RequestMount(e)
              \/ StoreReceipt(e) \/ FailMount(e)
              \/ InsertRepair(e) \/ LookUpJob(e) \/ SettleSeen(e)
              \/ ClaimRepair(e) \/ Prepare(e) \/ EnqueueRepair(e)
              \/ MarkQueued(e) \/ ReleaseRepair(e)

MountNext ==
    \/ \E j \in Jobs : \/ StartJob(j) \/ RunJob(j) \/ EndJob(j)
                       \/ \E adopt \in BOOLEAN : WriteVersion(j, adopt)
    \/ \E v \in Jobs \cup {Root} : Adopt(v)
    \/ SwitchMode \/ Delete \/ Restore
    \/ \E v \in Jobs : Retry(v) \/ LapseMount(v)
    \/ \E m \in Origins : LapseRepair(m)
    \/ Supersede \/ SettleRepairs \/ StopMovedRepairs \/ StopExhaustedRepairs
    \/ \E e \in Executors :
         \/ Execute(e) \/ MountError(e) \/ CrashMount(e)
         \/ \E m \in Jobs : ClaimMount(e, m)
         \/ \E m \in Origins : ReadReceipt(e, m)

MountSpec == MountInit /\ [][MountNext]_mvars

\* The consumer polls and takes what is listed again and again; a call returns
\* or is given up; time passes.  Nothing is assumed of users, jobs or faults.
MountFairness ==
    /\ WF_mvars(Supersede) /\ WF_mvars(SettleRepairs)
    /\ WF_mvars(StopMovedRepairs) /\ WF_mvars(StopExhaustedRepairs)
    /\ \A e \in Executors : WF_mvars(Execute(e))
    /\ \A m \in Jobs : /\ SF_mvars(\E e \in Executors : ClaimMount(e, m))
                       /\ WF_mvars(LapseMount(m))
    /\ \A m \in Origins : /\ SF_mvars(\E e \in Executors : ReadReceipt(e, m))
                          /\ WF_mvars(LapseRepair(m))

FairMountSpec == MountSpec /\ MountFairness

-----------------------------------------------------------------------------
(* Properties *)

\* Every row and execution is in a state of its schema; attempts stay in bounds.
MountTypeOK ==
    /\ job \in [Jobs -> [status : {"absent", "queued", "running", "completed",
                                   "failed", "cancelled"},
                         base : Jobs \cup {Root}]]
    /\ conv \in [mode : {"iteration", "explanation"},
                 version : Jobs \cup {Root}, deleted : BOOLEAN]
    /\ versions \subseteq Jobs
    /\ mount \in [Jobs -> MountRow] /\ repair \in [Origins -> RepairRow]
    /\ exec \in [Executors -> MountExec]
    /\ faults \in 0 .. MaxFaults

\* Repairs do not breed: the version that a repair wrote is mounted as any other,
\* but its own gaps start no further repair, whatever was listed, retried or
\* adopted in between.  What a user's run makes of it later may be repaired.
RepairsDoNotBreed ==
    \A m \in Origins : repair[m].status # "absent" => ~OfRepair(m)

\* The repair table follows the job table: a repair counts as queued only when
\* its job was inserted, and as completed only when the job was.
RepairFollowsJob ==
    \A m \in Origins :
        /\ repair[m].status = "queued" => job[RepairOf[m]].status # "absent"
        /\ repair[m].status = "completed"
             => job[RepairOf[m]].status = "completed"

\* What the repair table says of the jobs it stands for.
RepairsAreSound == RepairsDoNotBreed /\ RepairFollowsJob

\* A receipt stands: no late execution, failure, listing or request of the user
\* takes a mount back that was answered.
ReceiptStays ==
    [][\A m \in Jobs : mount[m].status \in Receipts
                         => mount'[m].status = mount[m].status]_mvars

\* A repair that ended without a job: nobody holds its lease.
GivenUp(m) == /\ repair[m].status = "stopped" /\ repair[m].owner = NoOwner
              /\ job[RepairOf[m]].status = "absent"

\* A repair that was given up is not taken up again: not by an execution that
\* read the receipt before and inserts its row now, nor by a late answer, a late
\* failure or a late marking of one that prepared it.
GivenUpStays == [][\A m \in Origins : GivenUp(m) => GivenUp(m)']_mvars

\* The mount of the version that a conversation settles on is answered or given
\* up; one that was superseded before the user adopted its version again stays
\* so.  Not covered: nothing takes a mount whose last attempt died.
Lost(m) == mount[m].status = "running" /\ mount[m].attempt = MountAttempts

Overtaken(m) == /\ mount[m].status = "superseded"
                /\ \E n \in Jobs : mount[n].rowid > mount[m].rowid

FinalVersionMounts ==
    \A m \in Jobs :
        <>[](~conv.deleted /\ Idle /\ mount[m].linked /\ conv.version = m)
        => []<>(\/ mount[m].status \in Receipts \cup {"failed"}
                \/ Lost(m) \/ Overtaken(m))

\* When users and jobs come to rest, no repair is left half prepared.
RepairsEnd ==
    \A m \in Origins :
        (/\ <>[][FALSE]_env
         /\ []<>Idle)
        => []<>(repair[m].status \notin {"pending", "preparing"})

\* Mounts and repairs come to rest.
MountsSettle == FinalVersionMounts /\ RepairsEnd
=============================================================================
