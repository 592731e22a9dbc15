----------------------- MODULE LearningMountsProofs -----------------------
(***************************************************************************)
(* Proofs about LearningMounts for every set of jobs, repairs, executions  *)
(* and incidents.                                                          *)
(***************************************************************************)
EXTENDS LearningMounts, FiniteSetTheorems, TLAPS

-----------------------------------------------------------------------------
(* The invariant *)

MountPcs == {"packing", "checking", "requeueing", "requesting", "storing", "failing"}

\* What an execution knows: the mount it works on, and what it has seen of the
\* repair's job, which does not become untrue.
ExecutionOK(e) ==
    LET m == exec[e].mount IN
    /\ exec[e].pc \in MountPcs => m \in Jobs
    /\ exec[e].pc \notin MountPcs \cup {"idle"} => m \in Origins
    /\ exec[e].pc = "storing" => exec[e].next \in Receipts
    /\ exec[e].pc = "settling" =>
          /\ exec[e].next \in {"queued", "completed", "stopped"}
          /\ exec[e].next = "queued" => job[RepairOf[m]].status # "absent"
          /\ exec[e].next = "completed" => job[RepairOf[m]].status = "completed"
    /\ exec[e].pc = "marking" => job[RepairOf[m]].status # "absent"

\* A mount has an owner only while it runs, a repair only once it exists.
OwnersOK ==
    /\ \A m \in Jobs : mount[m].owner # NoOwner => mount[m].status = "running"
    /\ \A m \in Origins : repair[m].owner # NoOwner => repair[m].status # "absent"

\* Where things come from: a version from a job, a mount and a repair from a
\* version, and the job of a repair from that repair.
OriginsOK ==
    /\ \A v \in versions : job[v].status # "absent"
    /\ \A m \in Jobs : mount[m].status # "absent" => m \in versions
    /\ \A m \in Origins : repair[m].status # "absent" => m \in versions
    /\ \A m \in Origins : job[RepairOf[m]].status # "absent"
                            => repair[m].status # "absent"

MountInv == /\ MountTypeOK /\ OwnersOK /\ OriginsOK /\ RepairsAreSound
            /\ \A e \in Executors : ExecutionOK(e)

-----------------------------------------------------------------------------
(* Which actions write which table *)

\* The actions that write each table.
LEMMA JobWriters ==
    ASSUME MountNext
    PROVE  \/ job' = job
           \/ \E j \in Jobs : StartJob(j) \/ RunJob(j) \/ EndJob(j)
           \/ Delete
           \/ \E e \in Executors : EnqueueRepair(e)
  BY DEF MountNext, WriteVersion, Adopt, SwitchMode, Restore, Retry, LapseMount,
         LapseRepair, Supersede, SettleRepairs, StopMovedRepairs, StopExhaustedRepairs,
         Execute, MountError, CrashMount, ClaimMount, ReadReceipt, Pack, Check, Requeue,
         RequestMount, StoreReceipt, FailMount, InsertRepair, LookUpJob, SettleSeen,
         ClaimRepair, Prepare, MarkQueued, ReleaseRepair, env

LEMMA VersionWriters ==
    ASSUME MountNext
    PROVE  \/ versions' = versions
           \/ \E j \in Jobs : \E adopt \in BOOLEAN : WriteVersion(j, adopt)
  BY DEF MountNext, StartJob, RunJob, EndJob, Delete, EnqueueRepair,
         Adopt, SwitchMode, Restore, Retry, LapseMount,
         LapseRepair, Supersede, SettleRepairs, StopMovedRepairs, StopExhaustedRepairs,
         Execute, MountError, CrashMount, ClaimMount, ReadReceipt, Pack, Check, Requeue,
         RequestMount, StoreReceipt, FailMount, InsertRepair, LookUpJob, SettleSeen,
         ClaimRepair, Prepare, MarkQueued, ReleaseRepair, env

LEMMA MountWriters ==
    ASSUME MountNext
    PROVE  \/ mount' = mount
           \/ \E j \in Jobs : \/ \E adopt \in BOOLEAN : WriteVersion(j, adopt)
                              \/ Retry(j) \/ LapseMount(j)
           \/ Supersede
           \/ \E e \in Executors : \/ Requeue(e) \/ StoreReceipt(e) \/ FailMount(e)
                                   \/ \E m \in Jobs : ClaimMount(e, m)
  BY DEF MountNext, StartJob, RunJob, EndJob, Delete, EnqueueRepair,
         Adopt, SwitchMode, Restore,
         LapseRepair, SettleRepairs, StopMovedRepairs, StopExhaustedRepairs,
         Execute, MountError, CrashMount, ReadReceipt, Pack, Check,
         RequestMount, InsertRepair, LookUpJob, SettleSeen,
         ClaimRepair, Prepare, MarkQueued, ReleaseRepair, env

LEMMA RepairWriters ==
    ASSUME MountNext
    PROVE  \/ repair' = repair
           \/ SettleRepairs \/ StopMovedRepairs \/ StopExhaustedRepairs
           \/ \E m \in Origins : LapseRepair(m)
           \/ \E e \in Executors : \/ InsertRepair(e) \/ SettleSeen(e) \/ ClaimRepair(e)
                                   \/ MarkQueued(e) \/ ReleaseRepair(e)
  BY DEF MountNext, StartJob, RunJob, EndJob, Delete, EnqueueRepair, WriteVersion, Retry,
         Adopt, SwitchMode, Restore, Supersede, LapseMount,
         Execute, MountError, CrashMount, ReadReceipt, Pack, Check, ClaimMount,
         RequestMount, LookUpJob, Requeue, StoreReceipt, FailMount, Prepare, env

-----------------------------------------------------------------------------
(* Jobs and versions *)

JobTable == [Jobs -> [status : {"absent", "queued", "running", "completed",
                                "failed", "cancelled"},
                      base : Jobs \cup {Root}]]

\* A job once inserted exists, a completed one stays completed, and the job of
\* a repair is inserted only while that repair is prepared.
JobMoves(k) ==
    /\ job[k].status # "absent" => job'[k].status # "absent"
    /\ job[k].status = "completed" => job'[k].status = "completed"
    /\ \A m \in Origins :
         RepairOf[m] = k /\ job[k].status = "absent" /\ job'[k].status # "absent"
           => repair[m].status = "preparing"

\* A row of each table moves as its writers allow.
LEMMA JobNext ==
    ASSUME MountTypeOK, \A e \in Executors : ExecutionOK(e), MountNext
    PROVE  job' \in JobTable /\ \A k \in Jobs : JobMoves(k)
  <1>0. /\ job \in JobTable /\ conv.version \in Jobs \cup {Root}
        /\ \A m \in Origins : RepairOf[m] \in Jobs \ Users
    BY MountConstants DEF MountTypeOK, JobTable
  <1>1. CASE job' = job
    BY <1>0, <1>1 DEF JobMoves
  <1>2. ASSUME NEW j \in Jobs, StartJob(j)
        PROVE  job' \in JobTable /\ \A k \in Jobs : JobMoves(k)
    BY <1>0, <1>2 DEF StartJob, JobTable, JobMoves
  <1>3. ASSUME NEW j \in Jobs, NEW st \in {"running", "failed", "completed"},
               job' = [job EXCEPT ![j].status = st],
               job[j].status \notin {"absent", "completed"}
        PROVE  job' \in JobTable /\ \A k \in Jobs : JobMoves(k)
    BY <1>0, <1>3 DEF JobTable, JobMoves
  <1>4. ASSUME NEW j \in Jobs, RunJob(j) \/ EndJob(j)
        PROVE  job' \in JobTable /\ \A k \in Jobs : JobMoves(k)
    BY <1>3, <1>4 DEF RunJob, EndJob
  <1>5. CASE Delete
    BY <1>0, <1>5 DEF Delete, JobTable, JobMoves
  <1>6. ASSUME NEW e \in Executors, EnqueueRepair(e)
        PROVE  job' \in JobTable /\ \A k \in Jobs : JobMoves(k)
    <2>1. PICK m \in Origins : m = exec[e].mount
      BY <1>6 DEF EnqueueRepair, ExecutionOK, MountPcs
    <2>2. \/ job' = job
          \/ /\ job[RepairOf[m]].status = "absent" /\ repair[m].status = "preparing"
             /\ job' = [job EXCEPT ![RepairOf[m]] = [status |-> "queued",
                                                     base |-> conv.version]]
      BY <1>6, <2>1 DEF EnqueueRepair, RepairFence
    <2>3. \A n \in Origins : RepairOf[n] = RepairOf[m] => n = m
      BY MountConstants
    <2>4. QED
      BY <1>0, <1>1, <2>2, <2>3 DEF JobTable, JobMoves
  <1>7. QED
    BY <1>1, <1>2, <1>4, <1>5, <1>6, JobWriters

\* A version comes from a job that runs.
LEMMA VersionNext ==
    ASSUME MountTypeOK, MountNext
    PROVE  /\ versions \subseteq versions' /\ versions' \subseteq Jobs
           /\ \A v \in versions' \ versions : job[v].status # "absent"
  BY VersionWriters DEF MountTypeOK, WriteVersion

-----------------------------------------------------------------------------
(* Mounts *)

MountTable == [Jobs -> MountRow]

\* A row is written for a version, an answered one stays answered, and an owner
\* is named only by a row that runs.
MountMoves(m) ==
    /\ mount[m].status # "absent" => mount'[m].status # "absent"
    /\ mount[m].status = "absent" /\ mount'[m].status # "absent" => m \in versions'
    /\ mount[m].status \in Receipts => mount'[m].status = mount[m].status
    /\ mount'[m].owner # NoOwner => mount'[m].status = "running"

\* The next row number is in range: the row to insert is not there yet.
LEMMA NextRowid ==
    ASSUME NEW t \in MountTable, NEW m \in Jobs, t[m].status = "absent"
    PROVE  1 + Cardinality({n \in Jobs : t[n].status # "absent"}) \in 0 .. Cardinality(Jobs)
  <1> DEFINE S == {n \in Jobs : t[n].status # "absent"}
  <1>1. IsFiniteSet(Jobs) /\ S \in SUBSET Jobs /\ S # Jobs
    BY MountConstants
  <1> HIDE DEF S
  <1>2. /\ IsFiniteSet(S) /\ Cardinality(S) <= Cardinality(Jobs)
        /\ Cardinality(Jobs) # Cardinality(S)
    BY <1>1, FS_Subset
  <1>3. Cardinality(S) \in Nat /\ Cardinality(Jobs) \in Nat
    BY <1>1, <1>2, FS_CardinalityType
  <1>4. 1 + Cardinality(S) \in 0 .. Cardinality(Jobs)
    BY <1>2, <1>3
  <1>5. QED
    BY <1>4 DEF S

\* The outbox statement inserts at most the row of m.
LEMMA EnqueuedTable ==
    ASSUME NEW t \in MountTable, NEW m \in Jobs, NEW linked \in BOOLEAN
    PROVE  /\ Enqueued(t, m, linked) \in MountTable
           /\ \A n \in Jobs : \/ Enqueued(t, m, linked)[n] = t[n]
                              \/ /\ n = m /\ t[n].status = "absent"
                                 /\ Enqueued(t, m, linked)[n].status = "queued"
                                 /\ Enqueued(t, m, linked)[n].owner = NoOwner
  <1>1. CASE t[m].status # "absent"
    BY <1>1 DEF Enqueued
  <1>2. CASE t[m].status = "absent"
    <2> DEFINE r == 1 + Cardinality({n \in Jobs : t[n].status # "absent"})
               row == [NoMount EXCEPT !.status = "queued", !.linked = linked, !.rowid = r]
    <2>1. r \in 0 .. Cardinality(Jobs)
      BY <1>2, NextRowid
    <2>2. Enqueued(t, m, linked) = [t EXCEPT ![m] = row]
      BY <1>2 DEF Enqueued
    <2> HIDE DEF r
    <2>3. 0 \in 0 .. MountAttempts /\ 0 \in 0 .. Cardinality(Jobs)
      BY MountConstants, FS_CardinalityType
    <2>4. NoMount \in MountRow /\ NoMount.owner = NoOwner
      BY <2>3 DEF NoMount, MountRow
    <2>5. row \in MountRow /\ row.status = "queued" /\ row.owner = NoOwner
      BY <2>1, <2>4 DEF MountRow
    <2> HIDE DEF row
    <2>6. QED
      BY <1>2, <2>2, <2>5 DEF MountTable
  <1>3. QED
    BY <1>1, <1>2

\* The row of m is replaced under the guard of its statement.
LEMMA OneMount ==
    ASSUME mount \in MountTable, OwnersOK, NEW m \in Jobs, NEW row \in MountRow,
           mount' = [mount EXCEPT ![m] = row],
           mount[m].status \notin Receipts \cup {"absent"} \/ row.status = mount[m].status,
           row.status # "absent" \/ mount[m].status = "absent",
           row.owner # NoOwner => row.status = "running"
    PROVE  mount' \in MountTable /\ \A n \in Jobs : MountMoves(n)
  BY DEF MountTable, MountMoves, OwnersOK

\* The lease of m is given up by its owner; anybody else writes nothing.
LEMMA ReleasedMount ==
    ASSUME mount \in MountTable, OwnersOK, NEW e \in Executors, NEW m \in Jobs,
           NEW st \in {"queued", "retry", "failed"} \cup Receipts,
           NEW a \in 0 .. MountAttempts, Released(e, m, st, a)
    PROVE  mount' \in MountTable /\ \A n \in Jobs : MountMoves(n)
  <1>1. CASE mount[m].owner # e
    BY <1>1 DEF Released, OwnsMount, MountMoves, OwnersOK
  <1>2. CASE mount[m].owner = e
    <2> DEFINE row == [mount[m] EXCEPT !.status = st, !.attempt = a,
                                       !.owner = NoOwner, !.lease = "none"]
    <2>1. mount[m].status = "running"
      BY <1>2, MountConstants DEF OwnersOK
    <2>2. mount' = [mount EXCEPT ![m] = row]
      BY <1>2 DEF Released, OwnsMount
    <2>3. mount[m] \in MountRow
      BY DEF MountTable
    <2>4. row \in MountRow /\ row.status = st /\ row.owner = NoOwner
      BY <2>3 DEF MountRow
    <2> HIDE DEF row
    <2>5. st # "absent" /\ mount[m].status \notin Receipts \cup {"absent"}
      BY <2>1 DEF Receipts
    <2>6. QED
      BY <2>2, <2>4, <2>5, OneMount
  <1>3. QED
    BY <1>1, <1>2

LEMMA MountTableNext ==
    ASSUME MountInv, MountNext
    PROVE  mount' \in MountTable /\ \A n \in Jobs : MountMoves(n)
  <1>0. mount \in MountTable /\ OwnersOK /\ versions \subseteq versions'
    BY VersionNext DEF MountInv, MountTypeOK, MountTable
  <1>1. CASE mount' = mount
    BY <1>0, <1>1 DEF MountMoves, OwnersOK
  <1>2. ASSUME NEW j \in Jobs, NEW adopt \in BOOLEAN, WriteVersion(j, adopt)
        PROVE  mount' \in MountTable /\ \A n \in Jobs : MountMoves(n)
    <2>1. CASE ~adopt
      BY <1>1, <1>2, <2>1 DEF WriteVersion
    <2>2. CASE adopt
      <3> DEFINE t == Enqueued(mount, j, TRUE)
      <3>1. /\ t \in MountTable
            /\ \A n \in Jobs : \/ t[n] = mount[n]
                               \/ /\ n = j /\ mount[n].status = "absent"
                                  /\ t[n].status = "queued" /\ t[n].owner = NoOwner
        BY <1>0, EnqueuedTable
      <3>2. mount' = t /\ j \in versions'
        BY <1>2, <2>2 DEF WriteVersion
      <3> HIDE DEF t
      <3>3. QED
        BY <1>0, <3>1, <3>2 DEF MountMoves, OwnersOK, Receipts
    <2>3. QED
      BY <2>1, <2>2
  <1>3. ASSUME NEW v \in Jobs, Retry(v)
        PROVE  mount' \in MountTable /\ \A n \in Jobs : MountMoves(n)
    <2> DEFINE t == Enqueued(mount, v, FALSE)
    <2>1. /\ t \in MountTable
          /\ \A n \in Jobs : \/ t[n] = mount[n]
                             \/ /\ n = v /\ mount[n].status = "absent"
                                /\ t[n].status = "queued" /\ t[n].owner = NoOwner
      BY <1>0, EnqueuedTable
    <2> HIDE DEF t
    <2>2. mount' = [t EXCEPT ![v] = IF @.status \in {"failed", "retry"}
                                    THEN [@ EXCEPT !.status = "queued", !.attempt = 0]
                                    ELSE @]
      BY <1>3 DEF Retry, t
    <2>3. v \in versions'
      BY <1>0, <1>3 DEF Retry
    <2>4. t[v] \in MountRow /\ 0 \in 0 .. MountAttempts
      BY <2>1, MountConstants DEF MountTable
    <2>5. CASE t[v].status \notin {"failed", "retry"}
      <3>1. mount' = t
        BY <2>1, <2>2, <2>5 DEF MountTable
      <3>2. QED
        BY <1>0, <2>1, <2>3, <3>1 DEF MountMoves, OwnersOK, Receipts
    <2>6. CASE t[v].status \in {"failed", "retry"}
      <3> DEFINE row == [t[v] EXCEPT !.status = "queued", !.attempt = 0]
      <3>1. row \in MountRow /\ row.status = "queued" /\ row.owner = t[v].owner
        BY <2>4 DEF MountRow
      <3>2. t = [t EXCEPT ![v] = t[v]] /\ t[v] = mount[v]
        BY <2>1, <2>6 DEF MountTable
      <3>3. mount' = [t EXCEPT ![v] = row]
        BY <2>2, <2>6
      <3>4. row.owner = NoOwner
        BY <1>0, <2>6, <3>1, <3>2 DEF OwnersOK
      <3> HIDE DEF row
      <3>5. mount' \in MountTable /\ mount'[v] = row /\ \A n \in Jobs \ {v} : mount'[n] = t[n]
        BY <2>1, <3>1, <3>3 DEF MountTable
      <3>6. QED
        BY <1>0, <2>1, <2>3, <2>6, <3>1, <3>2, <3>4, <3>5 DEF MountMoves, OwnersOK, Receipts
    <2>7. QED
      BY <2>5, <2>6
  <1>4. ASSUME NEW m \in Jobs, LapseMount(m)
        PROVE  mount' \in MountTable /\ \A n \in Jobs : MountMoves(n)
    <2> DEFINE row == [mount[m] EXCEPT !.lease = "lapsed"]
    <2>1. mount' = [mount EXCEPT ![m] = row]
      BY <1>4 DEF LapseMount
    <2>2. row \in MountRow /\ row.status = mount[m].status /\ row.owner = mount[m].owner
      BY <1>0 DEF MountTable, MountRow
    <2> HIDE DEF row
    <2>3. QED
      BY <1>0, <2>1, <2>2, OneMount DEF OwnersOK
  <1>5. CASE Supersede
    <2>1. \A m \in Jobs : /\ [mount[m] EXCEPT !.status = "superseded"] \in MountRow
                          /\ [mount[m] EXCEPT !.status = "superseded"].status = "superseded"
                          /\ [mount[m] EXCEPT !.status = "superseded"].owner = mount[m].owner
      BY <1>0 DEF MountTable, MountRow
    <2>2. QED
      BY <1>0, <1>5, <2>1 DEF Supersede, MountMoves, MountTable, OwnersOK, Receipts
  <1>6. ASSUME NEW e \in Executors, Requeue(e) \/ StoreReceipt(e) \/ FailMount(e)
        PROVE  mount' \in MountTable /\ \A n \in Jobs : MountMoves(n)
    <2>1. /\ exec[e].mount \in Jobs
          /\ exec[e].pc = "storing" => exec[e].next \in Receipts
      BY <1>6 DEF MountInv, ExecutionOK, MountPcs, Requeue, StoreReceipt, FailMount
    <2>2. mount[exec[e].mount].attempt \in 0 .. MountAttempts /\ MountAttempts \in Nat
      BY <1>0, <2>1, MountConstants DEF MountTable, MountRow
    <2>3. (IF mount[exec[e].mount].attempt > 0 THEN mount[exec[e].mount].attempt - 1 ELSE 0)
            \in 0 .. MountAttempts
      BY <2>2
    <2>4. CASE Requeue(e)
      BY <1>0, <2>1, <2>3, <2>4, ReleasedMount DEF Requeue
    <2>5. CASE StoreReceipt(e)
      BY <1>0, <2>1, <2>2, <2>5, ReleasedMount DEF StoreReceipt
    <2>6. CASE FailMount(e)
      BY <1>0, <2>1, <2>2, <2>6, ReleasedMount DEF FailMount
    <2>7. QED
      BY <1>6, <2>4, <2>5, <2>6
  <1>7. ASSUME NEW e \in Executors, NEW m \in Jobs, ClaimMount(e, m)
        PROVE  mount' \in MountTable /\ \A n \in Jobs : MountMoves(n)
    <2>1. /\ mount[m] \in MountRow /\ mount[m].attempt < MountAttempts
          /\ mount[m].status \in {"queued", "retry", "running"}
      BY <1>0, <1>7 DEF ClaimMount, EligibleMount, MountTable
    <2>2. mount[m].attempt + 1 \in 0 .. MountAttempts
      BY <2>1, MountConstants DEF MountRow
    <2> DEFINE row == [mount[m] EXCEPT !.status = "running", !.attempt = mount[m].attempt + 1,
                                       !.owner = e, !.lease = "live"]
    <2>3. row \in MountRow /\ row.status = "running"
      BY <2>1, <2>2 DEF MountRow
    <2>4. mount' = [mount EXCEPT ![m] = row]
      BY <1>7 DEF ClaimMount
    <2> HIDE DEF row
    <2>5. QED
      BY <1>0, <2>1, <2>3, <2>4, OneMount DEF Receipts
  <1>8. QED
    BY <1>1, <1>2, <1>3, <1>4, <1>5, <1>6, <1>7, MountWriters

-----------------------------------------------------------------------------
(* Repairs *)

RepairTable == [Origins -> RepairRow]

\* A repair is inserted for a version that no repair wrote, says of its job what
\* is true of it, and stays given up without a job.
RepairMoves(m) ==
    /\ repair[m].status # "absent" => repair'[m].status # "absent"
    /\ repair[m].status = "absent" /\ repair'[m].status # "absent"
         => m \in versions /\ ~OfRepair(m)
    /\ repair'[m].owner # NoOwner => repair'[m].status # "absent"
    /\ repair'[m].status = "queued" => job[RepairOf[m]].status # "absent"
    /\ repair'[m].status = "completed" => job[RepairOf[m]].status = "completed"
    /\ GivenUp(m) => repair'[m].status = "stopped" /\ repair'[m].owner = NoOwner

\* An existing row is replaced.
LEMMA OneRepairRow ==
    ASSUME MountInv, NEW m \in Origins, NEW row \in RepairRow,
           repair' = [repair EXCEPT ![m] = row],
           repair[m].status # "absent", row.status # "absent",
           row.status = "queued" => job[RepairOf[m]].status # "absent",
           row.status = "completed" => job[RepairOf[m]].status = "completed",
           GivenUp(m) => row.status = "stopped" /\ row.owner = NoOwner
    PROVE  repair' \in RepairTable /\ \A n \in Origins : RepairMoves(n)
  BY DEF MountInv, MountTypeOK, OwnersOK, RepairsAreSound, RepairFollowsJob,
         RepairTable, RepairMoves, GivenUp

\* The listing gives existing rows a status, as their jobs have it or stopped.
LEMMA ListedRepairs ==
    ASSUME MountInv, repair' \in RepairTable,
           \A n \in Origins :
              \/ repair'[n] = repair[n]
              \/ /\ repair[n].status # "absent" /\ repair'[n].status = "stopped"
                 /\ repair'[n].owner \in {repair[n].owner, NoOwner}
              \/ /\ repair[n].status # "absent" /\ repair'[n].status = "completed"
                 /\ job[RepairOf[n]].status = "completed"
    PROVE  \A n \in Origins : RepairMoves(n)
  BY DEF MountInv, OwnersOK, RepairsAreSound, RepairFollowsJob, RepairMoves, GivenUp

LEMMA RepairTableNext ==
    ASSUME MountInv, MountNext
    PROVE  repair' \in RepairTable /\ \A n \in Origins : RepairMoves(n)
  <1>0. /\ repair \in RepairTable /\ OwnersOK /\ RepairFollowsJob
        /\ \A e \in Executors : ExecutionOK(e)
        /\ RepairAttempts \in Nat
    BY MountConstants DEF MountInv, MountTypeOK, RepairTable, RepairsAreSound
  <1>1. CASE repair' = repair
    BY <1>0, <1>1 DEF RepairMoves, OwnersOK, RepairFollowsJob, GivenUp
  <1>2. CASE SettleRepairs
    <2>1. \A n \in Origins, st \in {"completed", "stopped"} :
            /\ [repair[n] EXCEPT !.status = st] \in RepairRow
            /\ [repair[n] EXCEPT !.status = st].status = st
            /\ [repair[n] EXCEPT !.status = st].owner = repair[n].owner
      BY <1>0 DEF RepairTable, RepairRow
    <2>2. repair' \in RepairTable
      BY <1>0, <1>2, <2>1 DEF SettleRepairs, RepairTable
    <2>3. \A n \in Origins :
              \/ repair'[n] = repair[n]
              \/ /\ repair[n].status # "absent" /\ repair'[n].status = "stopped"
                 /\ repair'[n].owner \in {repair[n].owner, NoOwner}
              \/ /\ repair[n].status # "absent" /\ repair'[n].status = "completed"
                 /\ job[RepairOf[n]].status = "completed"
      BY <1>0, <1>2, <2>1 DEF SettleRepairs
    <2>4. QED
      BY <2>2, <2>3, ListedRepairs
  <1>3. CASE StopMovedRepairs
    <2>1. \A n \in Origins :
            /\ [repair[n] EXCEPT !.status = "stopped"] \in RepairRow
            /\ [repair[n] EXCEPT !.status = "stopped"].status = "stopped"
            /\ [repair[n] EXCEPT !.status = "stopped"].owner = repair[n].owner
      BY <1>0 DEF RepairTable, RepairRow
    <2>2. QED
      BY <1>0, <1>3, <2>1, ListedRepairs DEF StopMovedRepairs, RepairTable
  <1>4. CASE StopExhaustedRepairs
    <2>1. \A n \in Origins :
            /\ [repair[n] EXCEPT !.status = "stopped", !.owner = NoOwner,
                                 !.lease = "none"] \in RepairRow
            /\ [repair[n] EXCEPT !.status = "stopped", !.owner = NoOwner,
                                 !.lease = "none"].status = "stopped"
            /\ [repair[n] EXCEPT !.status = "stopped", !.owner = NoOwner,
                                 !.lease = "none"].owner = NoOwner
      BY <1>0 DEF RepairTable, RepairRow
    <2>2. QED
      BY <1>0, <1>4, <2>1, ListedRepairs DEF StopExhaustedRepairs, RepairTable
  <1>5. ASSUME NEW m \in Origins, LapseRepair(m)
        PROVE  repair' \in RepairTable /\ \A n \in Origins : RepairMoves(n)
    <2> DEFINE row == [repair[m] EXCEPT !.lease = "lapsed"]
    <2>1. row \in RepairRow /\ row.status = repair[m].status /\ row.owner = repair[m].owner
      BY <1>0 DEF RepairTable, RepairRow
    <2>2. repair' = [repair EXCEPT ![m] = row]
      BY <1>5 DEF LapseRepair
    <2> HIDE DEF row
    <2>3. QED
      BY <1>0, <2>1, <2>2 DEF RepairTable, RepairMoves, OwnersOK, RepairFollowsJob, GivenUp
  <1>6. ASSUME NEW e \in Executors,
               \/ InsertRepair(e) \/ SettleSeen(e) \/ ClaimRepair(e)
               \/ MarkQueued(e) \/ ReleaseRepair(e)
        PROVE  repair' \in RepairTable /\ \A n \in Origins : RepairMoves(n)
    <2>1. PICK m \in Origins : m = exec[e].mount
      BY <1>0, <1>6 DEF InsertRepair, SettleSeen, ClaimRepair, MarkQueued, ReleaseRepair,
                        ExecutionOK, MountPcs
    <2>2. repair[m] \in RepairRow
      BY <1>0 DEF RepairTable
    <2>3. CASE InsertRepair(e)
      <3>1. CASE repair' = repair
        BY <1>1, <3>1
      <3>2. CASE repair' # repair
        <4> DEFINE row == [repair[m] EXCEPT !.status = "pending"]
        <4>1. /\ repair[m].status = "absent" /\ EligibleRepair(m)
              /\ repair' = [repair EXCEPT ![m] = row]
          BY <2>1, <2>3, <3>2 DEF InsertRepair
        <4>2. row \in RepairRow /\ row.status = "pending"
          BY <2>2 DEF RepairRow
        <4> HIDE DEF row
        <4>3. m \in versions /\ ~OfRepair(m)
          BY <4>1, MountConstants DEF EligibleRepair, MountInv, OriginsOK
        <4>4. QED
          BY <1>0, <4>1, <4>2, <4>3
             DEF RepairTable, RepairMoves, OwnersOK, RepairFollowsJob, GivenUp
      <3>3. QED
        BY <3>1, <3>2
    <2>4. ASSUME NEW st \in {"queued", "completed", "stopped", "pending"},
                 repair[m].status # "absent",
                 repair' = [repair EXCEPT ![m] = [repair[m] EXCEPT !.status = st,
                              !.owner = NoOwner, !.lease = "none"]],
                 st = "queued" => job[RepairOf[m]].status # "absent",
                 st = "completed" => job[RepairOf[m]].status = "completed",
                 GivenUp(m) => st = "stopped"
          PROVE  repair' \in RepairTable /\ \A n \in Origins : RepairMoves(n)
      <3> DEFINE row == [repair[m] EXCEPT !.status = st, !.owner = NoOwner, !.lease = "none"]
      <3>1. row \in RepairRow /\ row.status = st /\ row.owner = NoOwner
        BY <2>2 DEF RepairRow
      <3>2. repair' = [repair EXCEPT ![m] = row]
        BY <2>4
      <3> HIDE DEF row
      <3>3. QED
        BY <2>4, <3>1, <3>2, OneRepairRow
    <2>5. CASE SettleSeen(e)
      BY <1>0, <1>1, <2>1, <2>4, <2>5 DEF SettleSeen, ExecutionOK, GivenUp
    <2>6. repair[m].owner = e => repair[m].status # "absent" /\ ~GivenUp(m)
      BY <1>0, MountConstants DEF OwnersOK, GivenUp
    <2>7. CASE MarkQueued(e)
      BY <1>0, <1>1, <2>1, <2>4, <2>6, <2>7 DEF MarkQueued, OwnsRepair, ExecutionOK
    <2>8. CASE ReleaseRepair(e)
      BY <1>0, <1>1, <2>1, <2>4, <2>6, <2>8 DEF ReleaseRepair, OwnsRepair
    <2>9. CASE ClaimRepair(e)
      <3>1. CASE repair' = repair
        BY <1>1, <3>1
      <3>2. CASE repair' # repair
        <4> DEFINE row == [status |-> "preparing", attempt |-> repair[m].attempt + 1,
                           owner |-> e, lease |-> "live"]
        <4>1. /\ repair[m].attempt < RepairAttempts
              /\ repair[m].status \in {"pending", "preparing"}
              /\ repair' = [repair EXCEPT ![m] = row]
          BY <2>1, <2>9, <3>2 DEF ClaimRepair
        <4>2. repair[m].attempt + 1 \in 0 .. RepairAttempts
          BY <1>0, <2>2, <4>1 DEF RepairRow
        <4>3. row \in RepairRow /\ row.status = "preparing"
          BY <4>2 DEF RepairRow
        <4> HIDE DEF row
        <4>4. QED
          BY <4>1, <4>3, OneRepairRow DEF GivenUp
      <3>3. QED
        BY <3>1, <3>2
    <2>10. QED
      BY <1>6, <2>3, <2>5, <2>7, <2>8, <2>9
  <1>7. QED
    BY <1>1, <1>2, <1>3, <1>4, <1>5, <1>6, RepairWriters

-----------------------------------------------------------------------------
(* Executions *)

ExecutionsOK == /\ exec \in [Executors -> MountExec]
                /\ \A e \in Executors : ExecutionOK(e)

NextStatus == {"none", "transient", "permanent"} \cup Receipts \cup {"queued", "stopped"}

\* One execution moves; what the others have seen of jobs stays true.
LEMMA OneExecution ==
    ASSUME MountInv, \A k \in Jobs : JobMoves(k), NEW e \in Executors,
           NEW x \in MountExec, exec' = [exec EXCEPT ![e] = x],
           x.pc \in MountPcs => x.mount \in Jobs,
           x.pc \notin MountPcs \cup {"idle"} => x.mount \in Origins,
           x.pc = "storing" => x.next \in Receipts,
           x.pc = "settling" =>
              /\ x.next \in {"queued", "completed", "stopped"}
              /\ x.next = "queued" => job'[RepairOf[x.mount]].status # "absent"
              /\ x.next = "completed" => job'[RepairOf[x.mount]].status = "completed",
           x.pc = "marking" => job'[RepairOf[x.mount]].status # "absent"
    PROVE  ExecutionsOK'
  <1>0. exec \in [Executors -> MountExec]
    BY DEF MountInv, MountTypeOK
  <1>1. exec'[e] = x /\ exec' \in [Executors -> MountExec]
    BY <1>0
  <1>2. ExecutionOK(e)'
    BY <1>1 DEF ExecutionOK
  <1>3. ASSUME NEW d \in Executors \ {e}
        PROVE  ExecutionOK(d)'
    <2>1. exec'[d] = exec[d] /\ ExecutionOK(d)
      BY <1>0, <1>3 DEF MountInv
    <2>2. exec[d].mount \in Origins =>
            LET k == RepairOf[exec[d].mount]
            IN  /\ job[k].status # "absent" => job'[k].status # "absent"
                /\ job[k].status = "completed" => job'[k].status = "completed"
      BY MountConstants DEF JobMoves
    <2>3. QED
      BY <2>1, <2>2 DEF ExecutionOK, MountPcs
  <1>4. QED
    BY <1>1, <1>2, <1>3 DEF ExecutionsOK

\* It goes on with the mount that it works on.
LEMMA ExecutionGoesOn ==
    ASSUME MountInv, \A k \in Jobs : JobMoves(k), NEW e \in Executors,
           NEW pc \in MountPc, NEW nx \in NextStatus,
           exec' = [exec EXCEPT ![e] = [exec[e] EXCEPT !.pc = pc, !.next = nx]],
           pc \in MountPcs => exec[e].pc \in MountPcs,
           pc \notin MountPcs \cup {"idle"} => exec[e].pc \notin MountPcs \cup {"idle"},
           pc = "storing" => nx \in Receipts,
           pc = "settling" =>
              /\ nx \in {"queued", "completed", "stopped"}
              /\ nx = "queued" => job'[RepairOf[exec[e].mount]].status # "absent"
              /\ nx = "completed" => job'[RepairOf[exec[e].mount]].status = "completed",
           pc = "marking" => job'[RepairOf[exec[e].mount]].status # "absent"
    PROVE  ExecutionsOK'
  <1> DEFINE x == [exec[e] EXCEPT !.pc = pc, !.next = nx]
  <1>0. exec[e] \in MountExec /\ ExecutionOK(e)
    BY DEF MountInv, MountTypeOK
  <1>1. x \in MountExec /\ x.pc = pc /\ x.next = nx /\ x.mount = exec[e].mount
    BY <1>0 DEF MountExec, NextStatus
  <1>2. exec' = [exec EXCEPT ![e] = x]
    OBVIOUS
  <1> HIDE DEF x
  <1>3. /\ x.pc \in MountPcs => x.mount \in Jobs
        /\ x.pc \notin MountPcs \cup {"idle"} => x.mount \in Origins
    BY <1>0, <1>1 DEF ExecutionOK
  <1>4. /\ x.pc = "storing" => x.next \in Receipts
        /\ x.pc = "settling" =>
              /\ x.next \in {"queued", "completed", "stopped"}
              /\ x.next = "queued" => job'[RepairOf[x.mount]].status # "absent"
              /\ x.next = "completed" => job'[RepairOf[x.mount]].status = "completed"
        /\ x.pc = "marking" => job'[RepairOf[x.mount]].status # "absent"
    BY <1>1
  <1>5. QED
    BY <1>1, <1>2, <1>3, <1>4, OneExecution

\* What an execution has in hand stays true until it is done, and for the others.
LEMMA ExecutionEnds ==
    ASSUME MountInv, \A k \in Jobs : JobMoves(k), NEW e \in Executors, Done(e)
    PROVE  ExecutionsOK'
  <1>1. IdleMountExec \in MountExec /\ IdleMountExec.pc = "idle"
    BY DEF IdleMountExec, MountExec, MountPc
  <1>2. exec' = [exec EXCEPT ![e] = IdleMountExec] /\ "idle" \notin MountPcs
    BY DEF Done, MountPcs
  <1> HIDE DEF IdleMountExec
  <1>3. QED
    BY <1>1, <1>2, OneExecution

LEMMA ExecutionNext ==
    ASSUME MountInv, MountNext, \A k \in Jobs : JobMoves(k)
    PROVE  ExecutionsOK'
  <1>0. exec \in [Executors -> MountExec] /\ \A e \in Executors : ExecutionOK(e)
    BY DEF MountInv, MountTypeOK
  <1>1. CASE exec' = exec
    <2>1. ASSUME NEW d \in Executors
          PROVE  ExecutionOK(d)'
      <3>1. exec[d].mount \in Origins =>
              LET k == RepairOf[exec[d].mount]
              IN  /\ job[k].status # "absent" => job'[k].status # "absent"
                  /\ job[k].status = "completed" => job'[k].status = "completed"
        BY MountConstants DEF JobMoves
      <3>2. QED
        BY <1>0, <1>1, <3>1 DEF ExecutionOK, MountPcs
    <2>2. QED
      BY <1>0, <1>1, <2>1 DEF ExecutionsOK
  <1>2. ASSUME NEW e \in Executors, NEW pc \in MountPc, NEW nx \in NextStatus, ToWrite(e, pc, nx)
        PROVE  exec' = [exec EXCEPT ![e] = [exec[e] EXCEPT !.pc = pc, !.next = nx]]
    BY <1>0, <1>2 DEF ToWrite, MountExec
  <1>3. ASSUME NEW e \in Executors, NEW pc \in MountPc, ToPc(e, pc)
        PROVE  /\ exec' = [exec EXCEPT ![e] = [exec[e] EXCEPT !.pc = pc, !.next = exec[e].next]]
               /\ exec[e].next \in NextStatus
    <2>1. exec[e] \in MountExec
      BY <1>0
    <2>2. [exec[e] EXCEPT !.pc = pc, !.next = exec[e].next] = [exec[e] EXCEPT !.pc = pc]
      BY <2>1 DEF MountExec
    <2>3. QED
      BY <1>3, <2>1, <2>2 DEF ToPc, MountExec, NextStatus
  <1>4. ASSUME NEW e \in Executors,
               \/ Requeue(e) \/ StoreReceipt(e) \/ FailMount(e) \/ SettleSeen(e)
               \/ MarkQueued(e) \/ ReleaseRepair(e) \/ CrashMount(e)
        PROVE  ExecutionsOK'
    BY <1>4, ExecutionEnds DEF Requeue, StoreReceipt, FailMount, SettleSeen, MarkQueued,
                               ReleaseRepair, CrashMount
  <1>5. ASSUME NEW e \in Executors, Pack(e) \/ Check(e) \/ RequestMount(e) \/ MountError(e)
        PROVE  ExecutionsOK'
    <2>1. exec[e].pc \in MountPcs
      BY <1>5 DEF Pack, Check, RequestMount, MountError, MountPcs
    <2>2. \/ \E pc \in {"checking", "requeueing", "requesting"} : ToPc(e, pc)
          \/ \E nx \in {"transient", "permanent"} : ToWrite(e, "failing", nx)
          \/ \E nx \in Receipts : ToWrite(e, "storing", nx)
      BY <1>5 DEF Pack, Check, RequestMount, MountError
    <2>3. /\ {"checking", "requeueing", "requesting", "storing", "failing"} \subseteq MountPc
          /\ {"transient", "permanent"} \cup Receipts \subseteq NextStatus
      BY DEF MountPc, NextStatus
    <2>4. ASSUME NEW pc \in {"checking", "requeueing", "requesting"}, ToPc(e, pc)
          PROVE  ExecutionsOK'
      <3>1. /\ exec' = [exec EXCEPT ![e] = [exec[e] EXCEPT !.pc = pc, !.next = exec[e].next]]
            /\ exec[e].next \in NextStatus /\ pc \in MountPc
        BY <1>3, <2>3, <2>4
      <3>2. pc \in MountPcs /\ pc \notin {"storing", "settling", "marking"}
        BY <2>4 DEF MountPcs
      <3>3. QED
        BY <2>1, <3>1, <3>2, <2>4, ExecutionGoesOn
    <2>5. ASSUME NEW nx \in {"transient", "permanent"}, ToWrite(e, "failing", nx)
          PROVE  ExecutionsOK'
      <3>1. nx \in NextStatus /\ "failing" \in MountPc
        BY <2>3, <2>5
      <3>2. exec' = [exec EXCEPT ![e] = [exec[e] EXCEPT !.pc = "failing", !.next = nx]]
        BY <1>2, <3>1, <2>5
      <3>3. "failing" \in MountPcs
        BY DEF MountPcs
      <3>4. QED
        BY <2>1, <3>1, <3>2, <3>3, <2>5, ExecutionGoesOn
    <2>6. ASSUME NEW nx \in Receipts, ToWrite(e, "storing", nx)
          PROVE  ExecutionsOK'
      <3>1. nx \in NextStatus /\ "storing" \in MountPc
        BY <2>3, <2>6
      <3>2. exec' = [exec EXCEPT ![e] = [exec[e] EXCEPT !.pc = "storing", !.next = nx]]
        BY <1>2, <3>1, <2>6
      <3>3. "storing" \in MountPcs
        BY DEF MountPcs
      <3>4. QED
        BY <2>1, <3>1, <3>2, <3>3, <2>6, ExecutionGoesOn
    <2>7. QED
      BY <2>2, <2>4, <2>5, <2>6
  <1>6. ASSUME NEW e \in Executors,
               InsertRepair(e) \/ ClaimRepair(e) \/ Prepare(e) \/ EnqueueRepair(e)
        PROVE  ExecutionsOK'
    <2>1. exec[e].pc \notin MountPcs \cup {"idle"}
      BY <1>6 DEF InsertRepair, ClaimRepair, Prepare, EnqueueRepair, MountPcs
    <2>2. \/ Done(e)
          \/ \E pc \in {"looking", "preparing", "enqueueing"} : ToPc(e, pc)
          \/ \E nx \in {"transient", "permanent"} : ToWrite(e, "releasing", nx)
          \/ ToPc(e, "marking") /\ job'[RepairOf[exec[e].mount]].status # "absent"
      BY <1>6 DEF InsertRepair, ClaimRepair, Prepare, EnqueueRepair
    <2>3. /\ {"looking", "preparing", "enqueueing", "releasing", "marking"} \subseteq MountPc
          /\ {"transient", "permanent"} \subseteq NextStatus
      BY DEF MountPc, NextStatus
    <2>4. ASSUME NEW pc \in {"looking", "preparing", "enqueueing"}, ToPc(e, pc)
          PROVE  ExecutionsOK'
      <3>1. /\ exec' = [exec EXCEPT ![e] = [exec[e] EXCEPT !.pc = pc, !.next = exec[e].next]]
            /\ exec[e].next \in NextStatus /\ pc \in MountPc
        BY <1>3, <2>3, <2>4
      <3>2. pc \notin MountPcs /\ pc \notin {"storing", "settling", "marking"}
        BY <2>4 DEF MountPcs
      <3>3. QED
        BY <2>1, <3>1, <3>2, <2>4, ExecutionGoesOn
    <2>5. ASSUME NEW nx \in {"transient", "permanent"}, ToWrite(e, "releasing", nx)
          PROVE  ExecutionsOK'
      <3>1. nx \in NextStatus /\ "releasing" \in MountPc
        BY <2>3, <2>5
      <3>2. exec' = [exec EXCEPT ![e] = [exec[e] EXCEPT !.pc = "releasing", !.next = nx]]
        BY <1>2, <3>1, <2>5
      <3>3. "releasing" \notin MountPcs
        BY DEF MountPcs
      <3>4. QED
        BY <2>1, <3>1, <3>2, <3>3, <2>5, ExecutionGoesOn
    <2>6. ASSUME ToPc(e, "marking"), job'[RepairOf[exec[e].mount]].status # "absent"
          PROVE  ExecutionsOK'
      <3>1. /\ exec' = [exec EXCEPT ![e] = [exec[e] EXCEPT !.pc = "marking", !.next = exec[e].next]]
            /\ exec[e].next \in NextStatus /\ "marking" \in MountPc
        BY <1>3, <2>3, <2>6
      <3>2. "marking" \notin MountPcs
        BY DEF MountPcs
      <3>3. QED
        BY <2>1, <3>1, <3>2, <2>6, ExecutionGoesOn
    <2>7. QED
      BY <2>2, <2>4, <2>5, <2>6, ExecutionEnds
  <1>7. ASSUME NEW e \in Executors, LookUpJob(e)
        PROVE  ExecutionsOK'
    <2>1. exec[e].pc = "looking" /\ exec[e].pc \notin MountPcs \cup {"idle"} /\ job' = job
      BY <1>7 DEF LookUpJob, MountPcs, env
    <2>2. \/ ToPc(e, "claiming")
          \/ \E nx \in {"queued", "completed", "stopped"} :
               /\ ToWrite(e, "settling", nx)
               /\ job[RepairOf[exec[e].mount]].status # "absent"
               /\ nx = "completed" => job[RepairOf[exec[e].mount]].status = "completed"
      BY <1>7 DEF LookUpJob
    <2>3. /\ {"claiming", "settling"} \subseteq MountPc
          /\ {"queued", "completed", "stopped"} \subseteq NextStatus
      BY DEF MountPc, NextStatus, Receipts
    <2>4. CASE ToPc(e, "claiming")
      <3>1. /\ exec' = [exec EXCEPT ![e] = [exec[e] EXCEPT !.pc = "claiming", !.next = exec[e].next]]
            /\ exec[e].next \in NextStatus /\ "claiming" \in MountPc
        BY <1>3, <2>3, <2>4
      <3>2. "claiming" \notin MountPcs
        BY DEF MountPcs
      <3>3. QED
        BY <2>1, <3>1, <3>2, ExecutionGoesOn
    <2>5. ASSUME NEW nx \in {"queued", "completed", "stopped"}, ToWrite(e, "settling", nx),
                 job[RepairOf[exec[e].mount]].status # "absent",
                 nx = "completed" => job[RepairOf[exec[e].mount]].status = "completed"
          PROVE  ExecutionsOK'
      <3>1. nx \in NextStatus /\ "settling" \in MountPc
        BY <2>3, <2>5
      <3>2. exec' = [exec EXCEPT ![e] = [exec[e] EXCEPT !.pc = "settling", !.next = nx]]
        BY <1>2, <3>1, <2>5
      <3>3. "settling" \notin MountPcs
        BY DEF MountPcs
      <3>4. QED
        BY <2>1, <3>1, <3>2, <3>3, <2>5, <2>1, ExecutionGoesOn
    <2>6. QED
      BY <2>2, <2>4, <2>5
  <1>8. ASSUME NEW e \in Executors,
               (\E m \in Jobs : ClaimMount(e, m)) \/ (\E m \in Origins : ReadReceipt(e, m))
        PROVE  ExecutionsOK'
    <2>1. ASSUME NEW m \in Jobs, NEW pc \in {"packing", "inserting"}, pc = "inserting" => m \in Origins,
                 exec' = [exec EXCEPT ![e] = [pc |-> pc, mount |-> m, next |-> "none"]]
          PROVE  ExecutionsOK'
      <3> DEFINE x == [pc |-> pc, mount |-> m, next |-> "none"]
      <3>1. x \in MountExec /\ x.pc = pc /\ x.mount = m
        BY <2>1 DEF MountExec, MountPc
      <3>2. exec' = [exec EXCEPT ![e] = x]
        BY <2>1
      <3> HIDE DEF x
      <3>3. QED
        BY <2>1, <3>1, <3>2, OneExecution DEF MountPcs
    <2>2. ASSUME NEW m \in Jobs, ClaimMount(e, m)
          PROVE  ExecutionsOK'
      BY <2>1, <2>2 DEF ClaimMount
    <2>3. ASSUME NEW m \in Origins, ReadReceipt(e, m)
          PROVE  ExecutionsOK'
      BY <2>1, <2>3, MountConstants DEF ReadReceipt
    <2>4. QED
      BY <1>8, <2>2, <2>3
  <1>9. QED
    BY <1>1, <1>4, <1>5, <1>6, <1>7, <1>8
       DEF MountNext, StartJob, RunJob, EndJob, Delete, WriteVersion, Retry,
         Adopt, SwitchMode, Restore, Supersede, LapseMount, LapseRepair,
         SettleRepairs, StopMovedRepairs, StopExhaustedRepairs, Execute

-----------------------------------------------------------------------------
(* Every step keeps the invariant *)

\* The conversation and the count of faults.
LEMMA ConvNext ==
    ASSUME MountTypeOK, MountNext
    PROVE  /\ conv' \in [mode : {"iteration", "explanation"},
                         version : Jobs \cup {Root}, deleted : BOOLEAN]
           /\ faults' \in 0 .. MaxFaults
  <1>0. /\ conv \in [mode : {"iteration", "explanation"},
                     version : Jobs \cup {Root}, deleted : BOOLEAN]
        /\ faults \in 0 .. MaxFaults /\ versions \subseteq Jobs /\ MaxFaults \in Nat
    BY MountConstants DEF MountTypeOK
  <1>1. CASE UNCHANGED <<conv, faults>>
    BY <1>0, <1>1
  <1>2. ASSUME NEW j \in Jobs, NEW adopt \in BOOLEAN, WriteVersion(j, adopt)
        PROVE  conv' \in [mode : {"iteration", "explanation"},
                          version : Jobs \cup {Root}, deleted : BOOLEAN]
               /\ faults' \in 0 .. MaxFaults
    BY <1>0, <1>2 DEF WriteVersion
  <1>3. ASSUME NEW v \in Jobs \cup {Root}, Adopt(v)
        PROVE  conv' \in [mode : {"iteration", "explanation"},
                          version : Jobs \cup {Root}, deleted : BOOLEAN]
               /\ faults' \in 0 .. MaxFaults
    BY <1>0, <1>3 DEF Adopt
  <1>4. CASE SwitchMode \/ Delete \/ Restore
    BY <1>0, <1>4 DEF SwitchMode, Delete, Restore
  <1>5. CASE (\E v \in Jobs : Retry(v)) \/ (\E e \in Executors : CrashMount(e))
    <2>1. faults < MaxFaults /\ faults' = faults + 1 /\ conv' = conv
      BY <1>5 DEF Retry, CrashMount
    <2>2. QED
      BY <1>0, <2>1
  <1>6. QED
    BY <1>1, <1>2, <1>3, <1>4, <1>5
       DEF MountNext, StartJob, RunJob, EndJob, LapseMount,
         LapseRepair, Supersede, SettleRepairs, StopMovedRepairs, StopExhaustedRepairs,
         Execute, MountError, ClaimMount, ReadReceipt, Pack, Check, Requeue,
         RequestMount, StoreReceipt, FailMount, InsertRepair, LookUpJob, SettleSeen,
         ClaimRepair, Prepare, EnqueueRepair, MarkQueued, ReleaseRepair, env

\* A repair breeds no other one: when a repair of a version is inserted no
\* repair wrote that version, and when the repair that would write it is, the
\* version is not there yet, for its job is inserted later than that repair.
LEMMA NoBreeding ==
    ASSUME MountInv, \A n \in Origins : RepairMoves(n)
    PROVE  RepairsDoNotBreed'
  <1>1. SUFFICES ASSUME NEW m \in Origins, NEW o \in Origins, RepairOf[o] = m,
                        repair'[m].status # "absent", repair'[o].status # "absent"
                 PROVE  FALSE
    BY DEF RepairsDoNotBreed, OfRepair
  <1>2. repair[o].status = "absent"
    <2>1. SUFFICES ASSUME repair[o].status # "absent"
                   PROVE  FALSE
      OBVIOUS
    <2>2. OfRepair(m)
      BY <1>1, <2>1 DEF OfRepair
    <2>3. repair[m].status = "absent"
      BY <2>2 DEF MountInv, RepairsAreSound, RepairsDoNotBreed
    <2>4. QED
      BY <1>1, <2>2, <2>3 DEF RepairMoves
  <1>3. job[m].status = "absent"
    BY <1>1, <1>2 DEF MountInv, OriginsOK
  <1>4. m \notin versions
    BY <1>3 DEF MountInv, OriginsOK
  <1>5. repair[m].status = "absent"
    BY <1>4 DEF MountInv, OriginsOK
  <1>6. QED
    BY <1>1, <1>4, <1>5 DEF RepairMoves

\* The invariant is inductive.
LEMMA MountInitInv == MountInit => MountInv
  <1> SUFFICES ASSUME MountInit
               PROVE  MountInv
    OBVIOUS
  <1>1. 0 \in 0 .. Cardinality(Jobs) /\ 0 \in 0 .. MountAttempts
        /\ 0 \in 0 .. RepairAttempts /\ 0 \in 0 .. MaxFaults
    BY MountConstants, FS_CardinalityType
  <1>2. NoMount \in MountRow /\ NoRepair \in RepairRow /\ IdleMountExec \in MountExec
    BY <1>1 DEF NoMount, MountRow, NoRepair, RepairRow, IdleMountExec, MountExec, MountPc
  <1>3. MountTypeOK
    BY <1>1, <1>2 DEF MountInit, MountTypeOK
  <1>4. OwnersOK /\ OriginsOK /\ RepairsAreSound
    BY MountConstants
       DEF MountInit, OwnersOK, OriginsOK, RepairsAreSound, RepairsDoNotBreed,
           RepairFollowsJob, NoMount, NoRepair
  <1>5. \A e \in Executors : ExecutionOK(e)
    BY DEF MountInit, IdleMountExec, ExecutionOK, MountPcs
  <1>6. QED
    BY <1>3, <1>4, <1>5 DEF MountInv

LEMMA MountNextInv == MountInv /\ [MountNext]_mvars => MountInv'
  <1>1. CASE UNCHANGED mvars
    BY <1>1 DEF mvars, MountInv, MountTypeOK, OwnersOK, OriginsOK, RepairsAreSound,
                RepairsDoNotBreed, RepairFollowsJob, OfRepair, ExecutionOK
  <1>2. ASSUME MountInv, MountNext
        PROVE  MountInv'
    <2>0. /\ MountTypeOK /\ OriginsOK /\ RepairFollowsJob
          /\ \A e \in Executors : ExecutionOK(e)
          /\ \A m \in Origins : m \in Jobs /\ RepairOf[m] \in Jobs
      BY <1>2, MountConstants DEF MountInv, RepairsAreSound
    <2>1. job' \in JobTable /\ \A k \in Jobs : JobMoves(k)
      BY <1>2, <2>0, JobNext
    <2>2. /\ versions \subseteq versions' /\ versions' \subseteq Jobs
          /\ \A v \in versions' \ versions : job[v].status # "absent"
      BY <1>2, <2>0, VersionNext
    <2>3. mount' \in MountTable /\ \A m \in Jobs : MountMoves(m)
      BY <1>2, MountTableNext
    <2>4. repair' \in RepairTable /\ \A m \in Origins : RepairMoves(m)
      BY <1>2, RepairTableNext
    <2>5. ExecutionsOK'
      BY <1>2, <2>1, ExecutionNext
    <2>6. MountTypeOK'
      BY <1>2, <2>0, <2>1, <2>2, <2>3, <2>4, <2>5, ConvNext
         DEF MountTypeOK, JobTable, MountTable, RepairTable, ExecutionsOK
    <2>7. OwnersOK'
      BY <2>3, <2>4 DEF MountMoves, RepairMoves, OwnersOK
    <2>8. OriginsOK'
      <3>1. \A v \in versions' : job'[v].status # "absent"
        BY <2>0, <2>1, <2>2 DEF OriginsOK, JobMoves
      <3>2. \A m \in Jobs : mount'[m].status # "absent" => m \in versions'
        BY <2>0, <2>2, <2>3 DEF OriginsOK, MountMoves
      <3>3. \A m \in Origins : repair'[m].status # "absent" => m \in versions'
        BY <2>0, <2>2, <2>4 DEF OriginsOK, RepairMoves
      <3>4. \A m \in Origins : job'[RepairOf[m]].status # "absent"
                                 => repair'[m].status # "absent"
        BY <2>0, <2>1, <2>4 DEF OriginsOK, JobMoves, RepairMoves
      <3>5. QED
        BY <3>1, <3>2, <3>3, <3>4 DEF OriginsOK
    <2>9. RepairsAreSound'
      <3>1. RepairFollowsJob'
        BY <2>0, <2>1, <2>4 DEF RepairFollowsJob, JobMoves, RepairMoves
      <3>2. QED
        BY <1>2, <2>4, <3>1, NoBreeding DEF RepairsAreSound
    <2>10. QED
      BY <2>5, <2>6, <2>7, <2>8, <2>9 DEF MountInv, ExecutionsOK
  <1>3. QED
    BY <1>1, <1>2

LEMMA MountAlways == MountSpec => []MountInv
  BY MountInitInv, MountNextInv, PTL DEF MountSpec

-----------------------------------------------------------------------------
(* Theorems *)

\* Rows, executions and attempts stay in their domains: no mount is tried more
\* than eight times, no repair more than three.
THEOREM MountTypeCorrect == MountSpec => []MountTypeOK
  <1>1. MountInv => MountTypeOK
    BY DEF MountInv
  <1>2. QED
    BY <1>1, MountAlways, PTL

\* Repairs do not breed, and a repair says of its job what is true of it.
THEOREM RepairsStaySound == MountSpec => []RepairsAreSound
  <1>1. MountInv => RepairsAreSound
    BY DEF MountInv
  <1>2. QED
    BY <1>1, MountAlways, PTL

\* The answer of the central service is final.
THEOREM ReceiptsStay == MountSpec => ReceiptStays
  <1>1. MountInv /\ [MountNext]_mvars
          => [\A m \in Jobs : mount[m].status \in Receipts
                                => mount'[m].status = mount[m].status]_mvars
    BY MountTableNext DEF MountMoves
  <1>2. QED
    BY <1>1, MountAlways, PTL DEF MountSpec, ReceiptStays

\* A repair that was stopped while nobody held its lease stays stopped, and its
\* job is never inserted.
THEOREM GivenUpRepairsStay == MountSpec => GivenUpStays
  <1>1. MountInv /\ [MountNext]_mvars
          => [\A m \in Origins : GivenUp(m) => GivenUp(m)']_mvars
    <2> SUFFICES ASSUME MountInv, MountNext, NEW m \in Origins, GivenUp(m)
                 PROVE  GivenUp(m)'
      OBVIOUS
    <2>1. JobMoves(RepairOf[m]) /\ RepairMoves(m)
      BY JobNext, RepairTableNext, MountConstants DEF MountInv
    <2>2. QED
      BY <2>1 DEF JobMoves, RepairMoves, GivenUp
  <1>2. QED
    BY <1>1, MountAlways, PTL DEF MountSpec, GivenUpStays
=============================================================================
