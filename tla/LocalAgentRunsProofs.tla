------------------------ MODULE LocalAgentRunsProofs ------------------------
(***************************************************************************)
(* Proofs about LocalAgentRuns for every number of runs, files, requests,  *)
(* edits, changes of policy, restarts and failures of the database.        *)
(***************************************************************************)
EXTENDS LocalAgentRuns, TLAPS, WellFoundedInduction

-----------------------------------------------------------------------------
(* The inductive invariant *)

Writing(q) == apply[q].pc \in {"locked", "files"}

\* Nothing runs for a run that was not delegated.
FreshInv == \A r \in Runs : run[r].st = "none" => task[r] = "none"

\* The writer's lock has one owner.
OneBatch == \A p, q \in Requests : Writing(p) /\ Writing(q) => p = q

\* A run that has not copied the workspace yet has changed nothing: no file,
\* request or copy shows its content.
Early(r) == task[r] \in {"queued", "begun"} \/ run[r].st = "none"

EarlyInv ==
    \A r \in Runs : Early(r) =>
        /\ run[r].st # "completed"
        /\ Changed(r) = {}
        /\ \A q \in Requests : apply[q].run # r
        /\ \A f \in Files : /\ disk[f] # Result(r)
                            /\ \A s \in Runs : run[s].base[f] # Result(r)

\* Nothing an agent starts from is its own result.
BaseInv == \A r \in Runs, f \in Files : run[r].base[f] # Result(r)

\* What a request holds from its check of the policy and of the hashes on is
\* true until it lets go of the lock.
BatchInv ==
    \A q \in Requests :
        LET r == apply[q].run IN
        /\ apply[q].pc # "idle" => r \in Runs
        /\ Writing(q) => Grant(r)
        /\ apply[q].pc = "files" =>
              /\ apply[q].todo \subseteq Changed(r)
              /\ \A f \in Changed(r) : apply[q].backup[f] = run[r].base[f]

\* Recorded or about to be: what a run wrote, and what a rollback would put back.
RecordInv ==
    restarts = 0 =>
        \A r \in Runs, f \in Files :
            /\ disk[f] = Result(r) =>
                  \/ f \in run[r].applied
                  \/ InBatch(r) /\ f \in Changed(r)
            /\ \A q \in Requests :
                  /\ apply[q].pc = "files" /\ f \in Changed(apply[q].run)
                  /\ apply[q].backup[f] = Result(r)
                  => f \in run[r].applied

Safe == OneBatch /\ EarlyInv /\ BaseInv /\ BatchInv /\ RecordInv
LocalInv == AgentTypeOK /\ ProcessHasTask /\ FreshInv /\ Safe

-----------------------------------------------------------------------------
(* The order of the files *)

Below == {pair \in Nat \X Nat : pair[1] < pair[2]}

\* Every set of files has a first one.
LEMMA BelowWellFounded == IsWellFoundedOn(Below, Nat)
  BY NatLessThanWellFounded DEF Below, OpToRel

\* A batch has a next file until it is done.
LEMMA NextFile ==
    ASSUME NEW S \in SUBSET Files, S # {}
    PROVE  Next1(S) \in S
  <1>1. S \subseteq Nat
    BY LocalAgentAssumption DEF Files
  <1>2. PICK f \in S : \A g \in S : ~(<<g, f>> \in Below)
    BY <1>1, BelowWellFounded, WFMin
  <1>3. ASSUME NEW g \in S, ~(f <= g)
        PROVE  <<g, f>> \in Below
    <2>1. g < f /\ g \in Nat /\ f \in Nat
      BY <1>1, <1>3
    <2>2. <<g, f>>[1] = g /\ <<g, f>>[2] = f /\ <<g, f>> \in Nat \X Nat
      BY <2>1
    <2>3. <<g, f>>[1] < <<g, f>>[2]
      BY <2>1, <2>2
    <2>4. QED
      BY <2>2, <2>3, Zenon DEF Below
  <1>4. QED
    BY <1>2, <1>3 DEF Next1

-----------------------------------------------------------------------------
(* Contents and rows *)

\* Two runs' results differ from each other and from whatever else a file
\* holds.
LEMMA Distinct ==
    ASSUME NEW r \in Runs
    PROVE  /\ Result(r) \in Contents
           /\ \A s \in Runs : Result(s) = Result(r) => s = r
           /\ \A n \in 1 .. MaxEdits : Edit(n) \in Contents /\ Edit(n) # Result(r)
           /\ Result(r) # Absent /\ Result(r) # Original
           /\ Absent \in Contents /\ Original \in Contents
  BY LocalAgentAssumption DEF Result, Edit, Runs, Contents, Absent, Original

Policies == [revision : 0 .. MaxRevisions, write : BOOLEAN]
RunRow == [st : Status, finished : BOOLEAN, saved : Policies, base : [Files -> Contents],
           change : [Files -> {"none", "write", "delete"}], applied : SUBSET Files]
RequestRow == [pc : {"idle", "read", "locked", "files"}, run : Runs \cup {NoRun},
               todo : SUBSET Files, backup : [Files -> Contents]]

\* The empty row and request are well formed.
LEMMA NullRows == NullRun \in RunRow /\ NoRequest \in RequestRow
  <1>1. Absent \in Contents /\ 0 \in 0 .. MaxRevisions
    BY LocalAgentAssumption DEF Absent, Contents
  <1>2. QED
    BY <1>1 DEF NullRun, NoRequest, RunRow, RequestRow, Policies, NoPolicy, Status

-----------------------------------------------------------------------------
(* Type correctness *)

\* The first state is well formed.
LEMMA TypeInit == Init => AgentTypeOK
  <1>1. Original \in Contents /\ 0 \in 0 .. MaxRevisions /\ 0 \in 0 .. MaxEdits
        /\ 0 \in 0 .. MaxRestarts /\ 0 \in 0 .. MaxErrors
    BY LocalAgentAssumption DEF Original, Contents
  <1>2. QED
    BY <1>1, NullRows DEF Init, AgentTypeOK, RunRow, RequestRow, Policies

\* So is each row that an action writes over one.
LEMMA Rows ==
    ASSUME NEW row \in RunRow, NEW st \in Status
    PROVE  /\ [row EXCEPT !.st = st] \in RunRow
           /\ [row EXCEPT !.st = st, !.finished = TRUE] \in RunRow
           /\ \A base \in [Files -> Contents] :
                 [row EXCEPT !.st = st, !.base = base] \in RunRow
           /\ \A change \in [Files -> {"none", "write", "delete"}] :
                 [row EXCEPT !.st = st, !.finished = TRUE, !.change = change] \in RunRow
           /\ \A applied \in SUBSET Files :
                 [row EXCEPT !.st = st, !.applied = applied] \in RunRow
  BY DEF RunRow

\* The type invariant, by rows.
LEMMA RowsTyped ==
    ASSUME AgentTypeOK
    PROVE  /\ run \in [Runs -> RunRow]
           /\ apply \in [Requests -> RequestRow]
           /\ disk \in [Files -> Contents]
           /\ policy \in Policies
  BY DEF AgentTypeOK, RunRow, RequestRow, Policies

\* Every action on one run keeps every row well formed.
LEMMA TypeRun ==
    ASSUME AgentTypeOK, NEW r \in Runs,
           \/ Delegate(r) \/ Executor(r) \/ ProcessExits(r) \/ Interrupt(r)
           \/ CancelRead(r) \/ CancelStep(r)
    PROVE  AgentTypeOK'
  <1> USE DEF GoTo, SetRun, Finish
  <1>1. CASE Delegate(r)
    <2>1. [NullRun EXCEPT !.st = "queued", !.saved = policy] \in RunRow
      BY NullRows DEF AgentTypeOK, NullRun, RunRow, Status, Policies
    <2>2. QED
      BY <1>1, <2>1 DEF Delegate, AgentTypeOK, RunRow, Policies
  <1>2. CASE Begin(r)
    BY <1>2 DEF Begin, AgentTypeOK
  <1>3. CASE Unprepared(r)
    BY <1>3 DEF Unprepared, AgentTypeOK
  <1>4. CASE Isolate(r)
    <2>1. [run[r] EXCEPT !.st = "running", !.base = disk] \in RunRow
      BY Rows, RowsTyped DEF Status
    <2>2. QED
      BY <1>4, <2>1 DEF Isolate, AgentTypeOK, RunRow, Policies
  <1>5. CASE Launch(r)
    BY <1>5 DEF Launch, AgentTypeOK
  <1>6. CASE Refresh(r)
    BY <1>6 DEF Refresh, AgentTypeOK
  <1>7. CASE CollectFails(r) \/ Collect(r)
    BY <1>7 DEF CollectFails, Collect, AgentTypeOK
  <1>8. CASE \E change \in [Files -> Operations \cup {"none"}], st \in {"completed", "failed"} :
                Store(r, change, st)
    <2>1. PICK change \in [Files -> Operations \cup {"none"}], st \in {"completed", "failed"} :
                Store(r, change, st)
      BY <1>8
    <2>2. change \in [Files -> {"none", "write", "delete"}] /\ st \in Status
      BY LocalAgentAssumption DEF Status
    <2>3. [run[r] EXCEPT !.st = st, !.finished = TRUE, !.change = change] \in RunRow
      BY <2>2, Rows, RowsTyped
    <2>4. QED
      BY <2>1, <2>3 DEF Store, AgentTypeOK, RunRow, Policies
  <1>9. CASE FailRead(r)
    BY <1>9 DEF FailRead, Killed, AgentTypeOK
  <1>10. CASE FailWrite(r)
    <2>1. [run[r] EXCEPT !.st = "failed", !.finished = TRUE] \in RunRow
      BY Rows, RowsTyped DEF Status
    <2>2. QED
      BY <1>10, <2>1 DEF FailWrite, AgentTypeOK, RunRow, Policies
  <1>11. CASE ProcessExits(r)
    BY <1>11 DEF ProcessExits, AgentTypeOK
  <1>12. CASE Interrupt(r)
    BY <1>12 DEF Interrupt, AgentTypeOK
  <1>13. CASE CancelRead(r)
    BY <1>13 DEF CancelRead, AgentTypeOK
  <1>14. CASE CancelWrite(r)
    <2>1. [run[r] EXCEPT !.st = "canceled", !.finished = TRUE] \in RunRow
      BY Rows, RowsTyped DEF Status
    <2>2. QED
      BY <1>14, <2>1 DEF CancelWrite, AgentTypeOK, RunRow, Policies
  <1>15. CASE CancelProcess(r)
    BY <1>15 DEF CancelProcess, Killed, AgentTypeOK
  <1>16. CASE CancelTask(r)
    BY <1>16 DEF CancelTask, Killed, AgentTypeOK
  <1>17. QED
    BY <1>1, <1>2, <1>3, <1>4, <1>5, <1>6, <1>7, <1>8, <1>9, <1>10, <1>11, <1>12,
       <1>13, <1>14, <1>15, <1>16 DEF Executor, CancelStep

\* A request works on a run until it lets go.
LEMMA TypeApply ==
    ASSUME AgentTypeOK, NEW q \in Requests,
           ApplyStep(q) \/ \E r \in Runs : ApplyRead(q, r)
    PROVE  AgentTypeOK'
  <1> DEFINE req == apply[q]
  <1>1. req \in RequestRow
    BY RowsTyped
  <1>2. CASE \E r \in Runs : ApplyRead(q, r)
    <2>1. PICK r \in Runs : ApplyRead(q, r)
      BY <1>2
    <2>2. [NoRequest EXCEPT !.pc = "read", !.run = r] \in RequestRow
      BY NullRows DEF NoRequest, RequestRow
    <2>3. QED
      BY <2>1, <2>2 DEF ApplyRead, Request, AgentTypeOK, RequestRow
  <1>3. CASE ApplyLock(q)
    <2>1. [req EXCEPT !.pc = "locked"] \in RequestRow
      BY <1>1 DEF RequestRow
    <2>2. QED
      BY <1>3, <2>1, NullRows DEF ApplyLock, Request, AgentTypeOK, RequestRow
  <1>4. CASE ApplyStale(q) \/ ApplyCommit(q)
    <2>1. ASSUME req.run \in Runs
          PROVE  /\ [run[req.run] EXCEPT !.st = "stale"] \in RunRow
                 /\ [run[req.run] EXCEPT !.st = "applied",
                                         !.applied = @ \cup Changed(req.run)] \in RunRow
      <3>1. run[req.run] \in RunRow /\ {"stale", "applied"} \subseteq Status
        BY <2>1, RowsTyped DEF Status
      <3>2. run[req.run].applied \cup Changed(req.run) \in SUBSET Files
        BY <3>1 DEF RunRow, Changed
      <3>3. QED
        BY <3>1, <3>2, Rows
    <2>2. apply' \in [Requests -> RequestRow]
      BY <1>4, RowsTyped, NullRows DEF ApplyStale, ApplyCommit, Request
    <2>3. run' \in [Runs -> RunRow]
      BY <1>4, <2>1, RowsTyped DEF ApplyStale, ApplyCommit, SetRun
    <2>4. QED
      BY <1>4, <2>2, <2>3 DEF ApplyStale, ApplyCommit, AgentTypeOK, RunRow, RequestRow, Policies
  <1>5. CASE ApplyBegin(q)
    <2>1. Changed(req.run) \in SUBSET Files
      BY DEF Changed
    <2>2. [f \in Files |-> IF f \in Changed(req.run) THEN disk[f] ELSE Absent]
             \in [Files -> Contents]
      BY RowsTyped, LocalAgentAssumption DEF Contents, Absent
    <2>3. \A todo \in SUBSET Files, backup \in [Files -> Contents] :
             [req EXCEPT !.pc = "files", !.todo = todo, !.backup = backup] \in RequestRow
      BY <1>1 DEF RequestRow
    <2>4. QED
      BY <1>5, <2>1, <2>2, <2>3 DEF ApplyBegin, Request, AgentTypeOK, RequestRow
  <1>6. CASE ApplyFile(q)
    <2>1. \A f : [req EXCEPT !.todo = @ \ {f}] \in RequestRow
      BY <1>1 DEF RequestRow
    <2>2. apply' \in [Requests -> RequestRow]
      BY <1>6, <2>1, RowsTyped DEF ApplyFile, Request
    <2>3. Result(req.run) \in Contents /\ Absent \in Contents
      BY <1>1, LocalAgentAssumption DEF RequestRow, Result, Runs, NoRun, Contents, Absent
    <2>4. disk' \in [Files -> Contents]
      BY <1>6, <2>3, RowsTyped DEF ApplyFile
    <2>5. QED
      BY <1>6, <2>2, <2>4 DEF ApplyFile, AgentTypeOK, RequestRow
  <1>7. CASE ApplyRollback(q)
    <2>1. Restored(q) \in [Files -> Contents]
      BY <1>1, RowsTyped DEF Restored, RequestRow
    <2>2. apply' \in [Requests -> RequestRow]
      BY <1>7, RowsTyped, NullRows DEF ApplyRollback, Request
    <2>3. errors' \in 0 .. MaxErrors
      BY <1>7, LocalAgentAssumption DEF ApplyRollback, AgentTypeOK
    <2>4. QED
      BY <1>7, <2>1, <2>2, <2>3 DEF ApplyRollback, AgentTypeOK, RequestRow
  <1>8. QED
    BY <1>2, <1>3, <1>4, <1>5, <1>6, <1>7 DEF ApplyStep

\* So do the learner, the policy and a restart.
LEMMA TypeNext ==
    ASSUME AgentTypeOK, [Next]_vars
    PROVE  AgentTypeOK'
  <1>1. CASE UNCHANGED vars
    BY <1>1 DEF vars, AgentTypeOK
  <1>2. CASE \E f \in Files : UserEdit(f)
    <2>1. PICK f \in Files : UserEdit(f)
      BY <1>2
    <2>2. Edit(edits + 1) \in Contents /\ edits + 1 \in 0 .. MaxEdits
      BY <2>1, LocalAgentAssumption DEF UserEdit, AgentTypeOK, Edit, Contents
    <2>3. QED
      BY <2>1, <2>2 DEF UserEdit, AgentTypeOK
  <1>3. CASE \E write \in BOOLEAN : SetPolicy(write)
    <2>1. PICK write \in BOOLEAN : SetPolicy(write)
      BY <1>3
    <2>2. policy.revision + 1 \in 0 .. MaxRevisions
      BY <2>1, RowsTyped, LocalAgentAssumption DEF SetPolicy, Policies
    <2>3. QED
      BY <2>1, <2>2 DEF SetPolicy, AgentTypeOK
  <1>4. CASE Restart
    <2>1. restarts' \in 0 .. MaxRestarts
      BY <1>4, LocalAgentAssumption DEF Restart, AgentTypeOK
    <2>2. run' \in [Runs -> RunRow]
      BY <1>4, Rows, RowsTyped DEF Restart, Marked, Status
    <2>3. apply' \in [Requests -> RequestRow]
      BY <1>4, NullRows DEF Restart
    <2>4. QED
      BY <1>4, <2>1, <2>2, <2>3 DEF Restart, AgentTypeOK, RunRow, RequestRow, Policies
  <1>5. QED
    BY <1>1, <1>2, <1>3, <1>4, TypeRun, TypeApply DEF Next

\* Every row, task and request is one the program can hold.
THEOREM AgentTypeCorrect == Spec => []AgentTypeOK
  BY TypeInit, TypeNext, PTL DEF Spec

-----------------------------------------------------------------------------
(* Processes *)

\* A write of a run's row never takes the run back to before its delegation.
LEMMA Known ==
    ASSUME AgentTypeOK, NEW r \in Runs, NEW st \in Status \ {"none"},
           \/ Finish(r, st)
           \/ SetRun(r, [run[r] EXCEPT !.st = st, !.base = disk])
           \/ \E change : SetRun(r, [run[r] EXCEPT !.st = st, !.finished = TRUE,
                                                   !.change = change])
           \/ SetRun(r, [run[r] EXCEPT !.st = st])
           \/ \E done : SetRun(r, [run[r] EXCEPT !.st = st, !.applied = done])
    PROVE  /\ \A s \in Runs : s # r => run'[s] = run[s]
           /\ run'[r].st = st
           /\ \A s \in Runs : run'[s].st = "none" => run[s].st = "none"
  <1>1. run \in [Runs -> RunRow]
    BY RowsTyped
  <1>2. ASSUME NEW row, SetRun(r, row), row.st = st
        PROVE  /\ \A s \in Runs : s # r => run'[s] = run[s]
               /\ run'[r].st = st
               /\ \A s \in Runs : run'[s].st = "none" => run[s].st = "none"
    BY <1>1, <1>2 DEF SetRun
  <1>3. run[r] \in RunRow
    BY <1>1
  <1>4. /\ [run[r] EXCEPT !.st = st, !.finished = TRUE].st = st
        /\ [run[r] EXCEPT !.st = st, !.base = disk].st = st
        /\ \A change : [run[r] EXCEPT !.st = st, !.finished = TRUE, !.change = change].st = st
        /\ [run[r] EXCEPT !.st = st].st = st
        /\ \A done : [run[r] EXCEPT !.st = st, !.applied = done].st = st
    BY <1>3 DEF RunRow
  <1>5. QED
    BY <1>2, <1>4 DEF Finish

\* No step leaves a live process without the task that watches it.
LEMMA ProcessStep ==
    ASSUME AgentTypeOK, ProcessHasTask, FreshInv, [Next]_vars
    PROVE  ProcessHasTask' /\ FreshInv'
  <1> USE DEF ProcessHasTask, FreshInv
  <1>1. task \in [Runs -> {"none", "queued", "begun", "isolated", "running", "collect", "collected",
                           "failing", "failed"}]
        /\ process \in [Runs -> {"none", "alive", "orphan"}]
        /\ run \in [Runs -> RunRow]
    BY RowsTyped DEF AgentTypeOK
  <1>2. ASSUME NEW r \in Runs, Executor(r)
        PROVE  ProcessHasTask' /\ FreshInv'
    <2> USE <1>1 DEF GoTo, SetRun, Finish
    <2>1. CASE Begin(r) \/ Unprepared(r) \/ CollectFails(r) \/ Collect(r)
      BY <2>1 DEF Begin, Unprepared, CollectFails, Collect
    <2>6. CASE Isolate(r) \/ FailWrite(r)
      <3>1. \A s \in Runs : run'[s].st = "none" => run[s].st = "none"
        <4>1. {"running", "failed"} \subseteq Status \ {"none"}
          BY DEF Status
        <4>2. QED
          BY <2>6, <4>1, Known DEF Isolate, FailWrite
      <3>2. QED
        BY <2>6, <3>1 DEF Isolate, FailWrite
    <2>2. CASE Launch(r) \/ Refresh(r)
      BY <2>2 DEF Launch, Refresh
    <2>3. CASE FailRead(r)
      BY <2>3 DEF FailRead, Killed
    <2>4. ASSUME NEW change, NEW st, Store(r, change, st)
          PROVE  ProcessHasTask' /\ FreshInv'
      BY <2>4 DEF Store
    <2>5. QED
      BY <1>2, <2>1, <2>2, <2>3, <2>4, <2>6 DEF Executor
  <1>3. ASSUME NEW r \in Runs,
               \/ Delegate(r) \/ ProcessExits(r) \/ Interrupt(r)
               \/ CancelRead(r) \/ CancelStep(r)
        PROVE  ProcessHasTask' /\ FreshInv'
    <2> USE <1>1 DEF GoTo, SetRun, Finish
    <2>1. CASE Delegate(r)
      BY <2>1 DEF Delegate
    <2>2. CASE ProcessExits(r) \/ Interrupt(r)
      BY <2>2 DEF ProcessExits, Interrupt
    <2>3. CASE CancelRead(r) \/ CancelProcess(r) \/ CancelTask(r)
      BY <2>3 DEF CancelRead, CancelProcess, CancelTask, Killed
    <2>4. CASE CancelWrite(r)
      <3>1. "canceled" \in Status \ {"none"}
        BY DEF Status
      <3>2. QED
        BY <2>4, <3>1, Known DEF CancelWrite
    <2>5. QED
      BY <1>3, <2>1, <2>2, <2>3, <2>4 DEF CancelStep
  <1>4. CASE Restart
    BY <1>4 DEF Restart
  <1>5. CASE /\ UNCHANGED <<task, process>>
             /\ \A r \in Runs : run'[r].st = "none" => run[r].st = "none"
    BY <1>5
  <1>6. ASSUME NEW q \in Requests, ApplyStep(q) \/ \E r \in Runs : ApplyRead(q, r)
        PROVE  /\ UNCHANGED <<task, process>>
               /\ \A r \in Runs : run'[r].st = "none" => run[r].st = "none"
    <2>1. CASE UNCHANGED <<task, process, run>>
      BY <2>1
    <2>2. CASE ApplyStale(q) \/ ApplyCommit(q)
      <3>1. {"stale", "applied"} \subseteq Status \ {"none"}
        BY DEF Status
      <3>2. CASE apply[q].run \in Runs
        BY <2>2, <3>1, <3>2, Known DEF ApplyStale, ApplyCommit
      <3>3. CASE apply[q].run \notin Runs
        BY <1>1, <2>2, <3>3 DEF ApplyStale, ApplyCommit, SetRun
      <3>4. QED
        BY <3>2, <3>3
    <2>3. QED
      BY <1>6, <2>1, <2>2 DEF ApplyStep, ApplyRead, ApplyLock, ApplyBegin, ApplyFile,
                              ApplyRollback
  <1>7. QED
    BY <1>2, <1>3, <1>4, <1>5, <1>6 DEF Next, vars, UserEdit, SetPolicy

\* An agent works only while its executor watches it: no error, timeout,
\* change of policy or cancellation leaves a process behind.
THEOREM ProcessesAreWatched == Spec => []ProcessHasTask
  <1>1. Init => ProcessHasTask /\ FreshInv
    BY DEF Init, ProcessHasTask, FreshInv
  <1>2. QED
    BY <1>1, TypeInit, TypeNext, ProcessStep, PTL DEF Spec

-----------------------------------------------------------------------------
(* Files *)

\* A step that touches neither rows, files, policy nor requests, and takes no
\* run back to before its copy, keeps what is known of the files.
LEMMA Quiet ==
    ASSUME Safe, UNCHANGED <<disk, policy, run, apply, restarts>>,
           \A r \in Runs : Early(r)' => Early(r)
    PROVE  Safe'
  <1>1. OneBatch' /\ BaseInv'
    BY DEF Safe, OneBatch, Writing, BaseInv
  <1>2. EarlyInv'
    BY DEF Safe, EarlyInv, Changed
  <1>3. BatchInv'
    BY DEF Safe, BatchInv, Writing, Grant, PolicyHolds, Changed
  <1>4. RecordInv'
    BY DEF Safe, RecordInv, Changed, InBatch
  <1>5. QED
    BY <1>1, <1>2, <1>3, <1>4 DEF Safe

\* Nor does a row that is written while no batch is: a run takes its base
\* before anything shows its result.
LEMMA OwnRow ==
    ASSUME AgentTypeOK, Safe, Unlocked, UNCHANGED <<disk, policy, apply, restarts>>,
           NEW r \in Runs, NEW row \in RunRow, SetRun(r, row),
           \A s \in Runs \ {r} : Early(s)' => Early(s),
           Early(r)' => /\ Early(r)
                        /\ row.st # "completed"
                        /\ \A f \in Files : row.change[f] \in {"none", run[r].change[f]},
           \/ row.base = run[r].base
           \/ Early(r) /\ \A f \in Files : row.base[f] \in {Absent, disk[f]},
           row.applied = run[r].applied \/ Early(r)
    PROVE  Safe'
  <1>1. /\ run'[r] = row
        /\ \A s \in Runs : s # r => run'[s] = run[s]
    BY RowsTyped DEF SetRun
  <1>2. \A q \in Requests : ~Writing(q) /\ ~Writing(q)'
    BY DEF Unlocked, Writing
  <1>3. OneBatch'
    BY <1>2 DEF OneBatch
  <1>4. \A s \in Runs, f \in Files :
           run'[s].base[f] \in {run[s].base[f], Absent, disk[f]}
    BY <1>1
  <1>5. EarlyInv'
    <2>1. SUFFICES ASSUME NEW s \in Runs, Early(s)'
                   PROVE  /\ run'[s].st # "completed"
                          /\ Changed(s)' = {}
                          /\ \A q \in Requests : apply'[q].run # s
                          /\ \A f \in Files : /\ disk'[f] # Result(s)
                                              /\ \A t \in Runs : run'[t].base[f] # Result(s)
      BY DEF EarlyInv
    <2>2. Early(s)
      BY <2>1
    <2>3. /\ run[s].st # "completed"
          /\ Changed(s) = {}
          /\ \A q \in Requests : apply[q].run # s
          /\ \A f \in Files : /\ disk[f] # Result(s)
                              /\ \A t \in Runs : run[t].base[f] # Result(s)
      BY <2>2 DEF Safe, EarlyInv
    <2>4. run'[s].st # "completed" /\ Changed(s)' = {}
      BY <1>1, <2>1, <2>3 DEF Changed
    <2>5. Result(s) # Absent
      BY Distinct
    <2>6. QED
      BY <1>4, <2>3, <2>4, <2>5
  <1>6. BaseInv'
    <2>1. \A s \in Runs : Result(s) # Absent
      BY Distinct
    <2>2. Early(r) => \A f \in Files : disk[f] # Result(r)
      BY DEF Safe, EarlyInv
    <2>3. \A f \in Files : run[r].base[f] # Result(r)
      BY DEF Safe, BaseInv
    <2>4. \A f \in Files : row.base[f] # Result(r)
      BY <2>1, <2>2, <2>3
    <2>5. QED
      BY <1>1, <2>4 DEF Safe, BaseInv
  <1>7. BatchInv'
    BY <1>2 DEF Safe, BatchInv, Writing
  <1>8. RecordInv'
    <2>1. Early(r) => \A f \in Files : disk[f] # Result(r)
      BY DEF Safe, EarlyInv
    <2>2. \A s \in Runs : ~InBatch(s)
      BY <1>2 DEF InBatch, Writing
    <2>3. \A q \in Requests : apply'[q].pc # "files"
      BY <1>2 DEF Writing
    <2>4. QED
      BY <1>1, <2>1, <2>2, <2>3 DEF Safe, RecordInv
  <1>9. QED
    BY <1>3, <1>5, <1>6, <1>7, <1>8 DEF Safe

\* The executor, a cancellation and a new delegation.
LEMMA SafeRun ==
    ASSUME AgentTypeOK, FreshInv, Safe, NEW r \in Runs,
           \/ Delegate(r) \/ Executor(r) \/ ProcessExits(r) \/ Interrupt(r)
           \/ CancelRead(r) \/ CancelStep(r)
    PROVE  Safe'
  <1>1. /\ run \in [Runs -> RunRow]
        /\ task \in [Runs -> {"none", "queued", "begun", "isolated", "running", "collect", "collected",
                              "failing", "failed"}]
        /\ run[r] \in RunRow
    BY RowsTyped DEF AgentTypeOK
  <1> USE DEF Early, GoTo
  <1>2. CASE Delegate(r)
    <2>1. [NullRun EXCEPT !.st = "queued", !.saved = policy] \in RunRow
      BY NullRows, RowsTyped DEF NullRun, RunRow, Status
    <2>2. /\ [NullRun EXCEPT !.st = "queued", !.saved = policy].st = "queued"
          /\ [NullRun EXCEPT !.st = "queued", !.saved = policy].change
                = [f \in Files |-> "none"]
          /\ [NullRun EXCEPT !.st = "queued", !.saved = policy].base
                = [f \in Files |-> Absent]
      BY DEF NullRun
    <2>3. Early(r) /\ \A s \in Runs \ {r} : Early(s)' => Early(s)
      BY <1>1, <1>2 DEF Delegate, SetRun
    <2>4. QED
      BY <1>2, <2>1, <2>2, <2>3, OwnRow DEF Delegate
  <1>3. CASE Isolate(r)
    <2>1. [run[r] EXCEPT !.st = "running", !.base = disk] \in RunRow
      BY <1>1, Rows, RowsTyped DEF Status
    <2>2. /\ [run[r] EXCEPT !.st = "running", !.base = disk].st = "running"
          /\ [run[r] EXCEPT !.st = "running", !.base = disk].base = disk
          /\ [run[r] EXCEPT !.st = "running", !.base = disk].applied = run[r].applied
      BY <1>1 DEF RunRow
    <2>3. /\ Early(r) /\ ~Early(r)'
          /\ \A s \in Runs \ {r} : Early(s)' => Early(s)
      BY <1>1, <1>3, <2>2 DEF Isolate, SetRun
    <2>4. QED
      BY <1>3, <2>1, <2>2, <2>3, OwnRow DEF Isolate
  <1>4. ASSUME NEW change \in [Files -> Operations \cup {"none"}],
               NEW st \in {"completed", "failed"}, Store(r, change, st)
        PROVE  Safe'
    <2> DEFINE row == [run[r] EXCEPT !.st = st, !.finished = TRUE, !.change = change]
    <2>1. row \in RunRow
      <3>1. change \in [Files -> {"none", "write", "delete"}] /\ st \in Status
        BY LocalAgentAssumption DEF Status
      <3>2. QED
        BY <1>1, <3>1, Rows
    <2>2. row.st = st /\ row.base = run[r].base /\ row.applied = run[r].applied
      BY <1>1 DEF RunRow
    <2>3. ~Early(r)' /\ \A s \in Runs \ {r} : Early(s)' => Early(s)
      BY <1>1, <1>4, <2>2 DEF Store, SetRun
    <2> HIDE DEF row
    <2>4. SetRun(r, row)
      BY <1>4 DEF Store, row
    <2>5. QED
      BY <1>4, <2>1, <2>2, <2>3, <2>4, OwnRow DEF Store
  <1>5. ASSUME NEW st \in {"failed", "canceled"}, Finish(r, st), Unlocked,
               UNCHANGED <<disk, policy, apply, restarts>>,
               \A s \in Runs : task'[s] \in {"none", task[s]}
        PROVE  Safe'
    <2> DEFINE row == [run[r] EXCEPT !.st = st, !.finished = TRUE]
    <2>1. row \in RunRow
      BY <1>1, Rows DEF Status
    <2>2. row.st = st /\ row.base = run[r].base /\ row.applied = run[r].applied
          /\ row.change = run[r].change
      BY <1>1 DEF RunRow
    <2>3. /\ Early(r)' => Early(r)
          /\ \A s \in Runs \ {r} : Early(s)' => Early(s)
      BY <1>1, <1>5, <2>2 DEF Finish, SetRun
    <2> HIDE DEF row
    <2>4. SetRun(r, row)
      BY <1>5 DEF Finish, row
    <2>5. QED
      BY <1>5, <2>1, <2>2, <2>3, <2>4, OwnRow
  <1>6. QED
    <2>1. CASE CancelWrite(r) \/ FailWrite(r)
      BY <1>1, <1>5, <2>1 DEF CancelWrite, FailWrite
    <2>2. CASE ProcessExits(r) \/ Interrupt(r) \/ CancelRead(r) \/ CancelProcess(r)
                  \/ CancelTask(r)
      BY <1>1, <2>2, Quiet DEF ProcessExits, Interrupt, CancelRead, CancelProcess, CancelTask
    <2>3. CASE Begin(r) \/ Unprepared(r) \/ Launch(r) \/ Refresh(r) \/ CollectFails(r)
                  \/ Collect(r) \/ FailRead(r)
      BY <1>1, <2>3, Quiet DEF Begin, Unprepared, Launch, Refresh, CollectFails, Collect,
                               FailRead
    <2>4. QED
      BY <1>2, <1>3, <1>4, <2>1, <2>2, <2>3 DEF Executor, CancelStep

\* An apply copies, writes and records what it was granted, on the base that
\* the run started from.
LEMMA SafeApply ==
    ASSUME AgentTypeOK, Safe, NEW q \in Requests,
           ApplyStep(q) \/ \E r \in Runs : ApplyRead(q, r)
    PROVE  Safe'
  <1> DEFINE r == apply[q].run
  <1>1. /\ run \in [Runs -> RunRow]
        /\ apply \in [Requests -> RequestRow]
        /\ disk \in [Files -> Contents]
        /\ apply[q] \in RequestRow
    BY RowsTyped
  <1>2. \A p \in Requests : Writing(q) /\ Writing(p) => p = q
    BY DEF Safe, OneBatch
  <1>3. apply[q].pc # "idle" => r \in Runs /\ ~Early(r)
    BY DEF Safe, BatchInv, EarlyInv
  <1>4. NoRun \notin Runs
    BY DEF NoRun, Runs
  \* A request that lets go, or takes up a run.
  <1>5. ASSUME NEW req \in RequestRow, Request(q, req), UNCHANGED <<disk, policy, run, task, restarts>>,
               req.pc # "files", apply[q].pc # "files",
               req.pc = "locked" => Unlocked /\ Grant(req.run),
               \/ req.pc = "idle" /\ req.run = NoRun
               \/ req.run \in Runs /\ ~Early(req.run)
        PROVE  Safe'
    <2>1. apply'[q] = req /\ \A p \in Requests : p # q => apply'[p] = apply[p]
      BY <1>1, <1>5 DEF Request
    <2>2. OneBatch'
      BY <1>2, <1>5, <2>1 DEF Safe, OneBatch, Writing, Unlocked
    <2>3. EarlyInv'
      BY <1>4, <1>5, <2>1 DEF Safe, EarlyInv, Early, Changed
    <2>4. BaseInv'
      BY <1>5 DEF Safe, BaseInv
    <2>5. BatchInv'
      BY <1>5, <2>1 DEF Safe, BatchInv, Writing, Grant, PolicyHolds, Changed
    <2>6. \A s \in Runs : InBatch(s)' <=> InBatch(s)
      BY <1>5, <2>1 DEF InBatch
    <2>7. RecordInv'
      BY <1>5, <2>1, <2>6 DEF Safe, RecordInv, Changed
    <2>8. QED
      BY <2>2, <2>3, <2>4, <2>5, <2>7 DEF Safe
  <1>6. CASE \E s \in Runs : ApplyRead(q, s)
    <2>1. PICK s \in Runs : ApplyRead(q, s)
      BY <1>6
    <2>2. ~Early(s)
      BY <2>1 DEF Safe, EarlyInv, ApplyRead
    <2>3. /\ [NoRequest EXCEPT !.pc = "read", !.run = s] \in RequestRow
          /\ [NoRequest EXCEPT !.pc = "read", !.run = s].pc = "read"
          /\ [NoRequest EXCEPT !.pc = "read", !.run = s].run = s
      BY NullRows DEF NoRequest, RequestRow
    <2>4. QED
      BY <1>5, <2>1, <2>2, <2>3 DEF ApplyRead
  <1>7. CASE ApplyLock(q)
    <2>1. /\ [apply[q] EXCEPT !.pc = "locked"] \in RequestRow
          /\ [apply[q] EXCEPT !.pc = "locked"].pc = "locked"
          /\ [apply[q] EXCEPT !.pc = "locked"].run = r
          /\ NoRequest \in RequestRow /\ NoRequest.pc = "idle" /\ NoRequest.run = NoRun
      BY <1>1, NullRows DEF RequestRow, NoRequest
    <2>2. QED
      BY <1>3, <1>5, <1>7, <2>1 DEF ApplyLock
  <1>8. CASE ApplyStale(q)
    <2>1. r \in Runs /\ ~Early(r) /\ Writing(q) /\ ~InBatch(r)
      BY <1>2, <1>3, <1>8 DEF ApplyStale, Writing, InBatch
    <2>2. /\ apply'[q] = NoRequest /\ \A p \in Requests : p # q => apply'[p] = apply[p]
          /\ NoRequest.pc = "idle" /\ NoRequest.run = NoRun
      BY <1>1, <1>8 DEF ApplyStale, Request, NoRequest
    <2>3. \A p \in Requests : ~Writing(p)'
      BY <1>2, <2>1, <2>2 DEF Writing
    <2>4. \A s \in Runs : /\ run'[s].base = run[s].base
                          /\ run'[s].change = run[s].change
                          /\ run'[s].applied = run[s].applied
                          /\ run'[s].st \in {run[s].st, "stale"}
      BY <1>1, <1>8, <2>1 DEF ApplyStale, SetRun, RunRow
    <2>5. \A s \in Runs : Early(s)' => Early(s)
      BY <1>8, <2>4 DEF Early, ApplyStale
    <2>6. EarlyInv'
      BY <1>4, <1>8, <2>2, <2>4, <2>5 DEF Safe, EarlyInv, Changed, ApplyStale
    <2>7. BatchInv'
      BY <1>4, <2>2, <2>3 DEF Safe, BatchInv, Writing
    <2>8. RecordInv'
      <3>1. \A s \in Runs : ~InBatch(s)
        BY <1>2, <1>8, <2>1 DEF InBatch, Writing, ApplyStale
      <3>2. QED
        BY <1>8, <2>3, <2>4, <3>1 DEF Safe, RecordInv, Writing, ApplyStale
    <2>9. OneBatch' /\ BaseInv'
      BY <2>3, <2>4 DEF OneBatch, Safe, BaseInv
    <2>10. QED
      BY <2>6, <2>7, <2>8, <2>9 DEF Safe
  <1>9. CASE ApplyCommit(q)
    <2>1. r \in Runs /\ ~Early(r) /\ Writing(q)
      BY <1>3, <1>9 DEF ApplyCommit, Writing
    <2>2. /\ apply'[q] = NoRequest /\ \A p \in Requests : p # q => apply'[p] = apply[p]
          /\ NoRequest.pc = "idle" /\ NoRequest.run = NoRun
      BY <1>1, <1>9 DEF ApplyCommit, Request, NoRequest
    <2>3. \A p \in Requests : ~Writing(p)'
      BY <1>2, <2>1, <2>2 DEF Writing
    <2>4. /\ \A s \in Runs : /\ run'[s].base = run[s].base
                             /\ run'[s].change = run[s].change
                             /\ run[s].applied \subseteq run'[s].applied
                             /\ run'[s].st \in {run[s].st, "applied"}
          /\ Changed(r) \subseteq run'[r].applied
      BY <1>1, <1>9, <2>1 DEF ApplyCommit, SetRun, RunRow
    <2>5. \A s \in Runs : Early(s)' => Early(s)
      BY <1>9, <2>4 DEF Early, ApplyCommit
    <2>6. EarlyInv'
      BY <1>4, <1>9, <2>2, <2>4, <2>5 DEF Safe, EarlyInv, Changed, ApplyCommit
    <2>7. BatchInv'
      BY <1>4, <2>2, <2>3 DEF Safe, BatchInv, Writing
    <2>8. RecordInv'
      <3>1. \A s \in Runs : InBatch(s) => s = r
        BY <1>2, <2>1 DEF InBatch, Writing
      <3>2. QED
        BY <1>9, <2>3, <2>4, <3>1 DEF Safe, RecordInv, Writing, ApplyCommit
    <2>9. OneBatch' /\ BaseInv'
      BY <2>3, <2>4 DEF OneBatch, Safe, BaseInv
    <2>10. QED
      BY <2>6, <2>7, <2>8, <2>9 DEF Safe
  \* The lock's owner goes on: nobody else writes, and its run stays.
  <1>10. ASSUME Writing(q), UNCHANGED <<policy, run, task, restarts>>,
                Writing(q)', apply'[q].run = r,
                \A p \in Requests : p # q => apply'[p] = apply[p],
                \A s \in Runs : Early(s) => \A f \in Files : disk'[f] # Result(s)
         PROVE  OneBatch' /\ EarlyInv' /\ BaseInv'
    <2>1. OneBatch'
      BY <1>2, <1>10 DEF OneBatch, Writing
    <2>2. EarlyInv'
      BY <1>10 DEF Safe, EarlyInv, Early, Changed
    <2>3. BaseInv'
      BY <1>10 DEF Safe, BaseInv
    <2>4. QED
      BY <2>1, <2>2, <2>3
  <1>11. CASE ApplyBegin(q)
    <2> DEFINE back == [f \in Files |-> IF f \in Changed(r) THEN disk[f] ELSE Absent]
    <2>1. /\ apply'[q].pc = "files" /\ apply'[q].run = r
          /\ apply'[q].todo = Changed(r) /\ apply'[q].backup = back
          /\ \A p \in Requests : p # q => apply'[p] = apply[p]
      BY <1>1, <1>11 DEF ApplyBegin, Request, RequestRow
    <2> HIDE DEF back
    <2>2. \A f \in Changed(r) : f \in Files /\ back[f] = disk[f] /\ disk[f] = run[r].base[f]
      BY <1>11 DEF back, ApplyBegin, Changed
    <2>3. Writing(q) /\ Writing(q)'
      BY <1>11, <2>1 DEF ApplyBegin, Writing
    <2>4. OneBatch' /\ EarlyInv' /\ BaseInv'
      BY <1>10, <1>11, <2>1, <2>3 DEF ApplyBegin, Safe, EarlyInv
    <2>5. BatchInv'
      BY <1>11, <2>1, <2>2, <2>3 DEF Safe, BatchInv, Writing, Grant, PolicyHolds, Changed, ApplyBegin
    <2>6. \A s \in Runs : ~InBatch(s)
      BY <1>2, <1>11, <2>3 DEF InBatch, Writing, ApplyBegin
    <2>7. \A p \in Requests : apply'[p].pc = "files" => p = q
      BY <2>3, <2>4 DEF OneBatch, Writing
    <2>8. RecordInv'
      BY <1>11, <2>1, <2>2, <2>6, <2>7 DEF Safe, RecordInv, Changed, ApplyBegin
    <2>9. QED
      BY <2>4, <2>5, <2>8 DEF Safe
  <1>12. CASE ApplyFile(q)
    <2> DEFINE f == Next1(apply[q].todo)
    <2>1. r \in Runs /\ ~Early(r) /\ Writing(q) /\ Grant(r)
      BY <1>3, <1>12 DEF ApplyFile, Writing, Safe, BatchInv
    <2>2. f \in apply[q].todo /\ f \in Changed(r) /\ f \in Files
      BY <1>1, <1>12, NextFile DEF ApplyFile, Safe, BatchInv, RequestRow, Changed
    <2>3. /\ apply'[q].pc = "files" /\ apply'[q].run = r
          /\ apply'[q].todo = apply[q].todo \ {f} /\ apply'[q].backup = apply[q].backup
          /\ \A p \in Requests : p # q => apply'[p] = apply[p]
      BY <1>1, <1>12 DEF ApplyFile, Request, RequestRow
    <2>4. /\ disk'[f] \in {Result(r), Absent}
          /\ \A g \in Files : g # f => disk'[g] = disk[g]
      BY <1>1, <1>12, <2>2 DEF ApplyFile
    <2> HIDE DEF f
    <2>5. \A s \in Runs : Early(s) => \A g \in Files : disk'[g] # Result(s)
      BY <2>1, <2>4, Distinct DEF Safe, EarlyInv
    <2>6. Writing(q)'
      BY <2>3 DEF Writing
    <2>7. OneBatch' /\ EarlyInv' /\ BaseInv'
      BY <1>10, <1>12, <2>1, <2>3, <2>5, <2>6 DEF ApplyFile
    <2>8. BatchInv'
      BY <1>12, <2>1, <2>3, <2>6 DEF Safe, BatchInv, Writing, Grant, PolicyHolds, Changed, ApplyFile
    <2>9. InBatch(r) /\ \A s \in Runs : InBatch(s)' <=> InBatch(s)
      BY <1>12, <2>3 DEF InBatch, ApplyFile
    <2>10. RecordInv'
      <3>1. \A s \in Runs : disk'[f] = Result(s) => s = r
        BY <2>1, <2>4, Distinct
      <3>2. ASSUME restarts = 0, NEW s \in Runs, NEW g \in Files, disk'[g] = Result(s)
            PROVE  g \in run[s].applied \/ (InBatch(s) /\ g \in Changed(s))
        <4>1. CASE g = f
          BY <2>2, <2>9, <3>1, <3>2, <4>1
        <4>2. CASE g # f
          BY <2>4, <3>2, <4>2 DEF Safe, RecordInv
        <4>3. QED
          BY <4>1, <4>2
      <3>3. ASSUME restarts = 0, NEW s \in Runs, NEW g \in Files, NEW p \in Requests,
                   apply'[p].pc = "files", g \in Changed(apply'[p].run),
                   apply'[p].backup[g] = Result(s)
            PROVE  g \in run[s].applied
        BY <1>12, <2>3, <3>3 DEF Safe, RecordInv, ApplyFile
      <3>4. QED
        BY <1>12, <2>9, <3>2, <3>3 DEF RecordInv, Changed, ApplyFile
    <2>11. QED
      BY <2>7, <2>8, <2>10 DEF Safe
  <1>13. CASE ApplyRollback(q)
    <2>1. r \in Runs /\ ~Early(r) /\ Writing(q)
      BY <1>3, <1>13 DEF ApplyRollback, Writing
    <2>2. /\ apply'[q] = NoRequest /\ \A p \in Requests : p # q => apply'[p] = apply[p]
          /\ NoRequest.pc = "idle" /\ NoRequest.run = NoRun
      BY <1>1, <1>13 DEF ApplyRollback, Request, NoRequest
    <2>3. \A p \in Requests : ~Writing(p)'
      BY <1>2, <2>1, <2>2 DEF Writing
    <2>4. \A g \in Files : disk'[g] = IF g \in Changed(r) THEN apply[q].backup[g] ELSE disk[g]
      BY <1>13 DEF ApplyRollback, Restored
    <2>5. \A g \in Changed(r) : g \in Files /\ apply[q].backup[g] = run[r].base[g]
      BY <1>13 DEF Safe, BatchInv, Changed, ApplyRollback
    <2>6. \A s \in Runs : Early(s) => \A g \in Files : disk'[g] # Result(s)
      BY <2>1, <2>4, <2>5 DEF Safe, EarlyInv
    <2>7. EarlyInv'
      BY <1>4, <1>13, <2>2, <2>6 DEF Safe, EarlyInv, Early, Changed, ApplyRollback
    <2>8. BatchInv'
      BY <1>4, <2>2, <2>3 DEF Safe, BatchInv, Writing
    <2>9. \A s \in Runs : InBatch(s) => s = r
      BY <1>2, <2>1 DEF InBatch, Writing
    <2>10. RecordInv'
      <3>1. ASSUME restarts = 0, NEW s \in Runs, NEW g \in Files, disk'[g] = Result(s)
            PROVE  g \in run[s].applied
        BY <1>13, <2>4, <2>9, <3>1 DEF Safe, RecordInv, ApplyRollback
      <3>2. QED
        BY <1>13, <2>3, <3>1 DEF RecordInv, Writing, ApplyRollback
    <2>11. OneBatch' /\ BaseInv'
      BY <1>13, <2>3 DEF OneBatch, Safe, BaseInv, ApplyRollback
    <2>12. QED
      BY <2>7, <2>8, <2>10, <2>11 DEF Safe
  <1>14. QED
    BY <1>6, <1>7, <1>8, <1>9, <1>11, <1>12, <1>13 DEF ApplyStep

\* What is known of the files survives every step.
LEMMA SafeNext ==
    ASSUME AgentTypeOK, FreshInv, Safe, [Next]_vars
    PROVE  Safe'
  <1>1. CASE UNCHANGED vars
    BY <1>1, Quiet DEF vars, Early
  <1>2. ASSUME NEW f \in Files, UserEdit(f)
        PROVE  Safe'
    <2>1. \A g \in Files : disk'[g] = disk[g] \/ \A s \in Runs : disk'[g] # Result(s)
      BY <1>2, Distinct, RowsTyped, LocalAgentAssumption
         DEF UserEdit, AgentTypeOK, Edit, Result, Runs
    <2>2. OneBatch' /\ BaseInv' /\ BatchInv'
      BY <1>2 DEF Safe, OneBatch, BaseInv, BatchInv, Writing, Grant, PolicyHolds, Changed, UserEdit
    <2>3. EarlyInv'
      BY <1>2, <2>1 DEF Safe, EarlyInv, Early, Changed, UserEdit
    <2>4. RecordInv'
      BY <1>2, <2>1 DEF Safe, RecordInv, InBatch, Changed, UserEdit
    <2>5. QED
      BY <2>2, <2>3, <2>4 DEF Safe
  <1>3. ASSUME NEW write \in BOOLEAN, SetPolicy(write)
        PROVE  Safe'
    <2>1. \A q \in Requests : ~Writing(q) /\ ~Writing(q)'
      BY <1>3 DEF SetPolicy, Unlocked, Writing
    <2>2. OneBatch' /\ BaseInv' /\ EarlyInv'
      BY <1>3, <2>1 DEF Safe, OneBatch, BaseInv, EarlyInv, Early, Changed, SetPolicy
    <2>3. BatchInv' /\ RecordInv'
      BY <1>3, <2>1 DEF Safe, BatchInv, RecordInv, InBatch, Changed, Writing, SetPolicy
    <2>4. QED
      BY <2>2, <2>3 DEF Safe
  <1>4. CASE Restart
    <2>1. \A q \in Requests : apply'[q].pc = "idle" /\ apply'[q].run = NoRun /\ NoRun \notin Runs
      BY <1>4 DEF Restart, NoRequest, NoRun, Runs
    <2>2. \A s \in Runs : /\ run'[s].base = run[s].base
                          /\ run'[s].change = run[s].change
                          /\ run'[s].st \in {run[s].st, "failed"}
                          /\ task'[s] = "none"
      BY <1>4, RowsTyped DEF Restart, Marked, RunRow
    <2>3. \A s \in Runs : Early(s)' => Early(s)
      BY <2>2 DEF Early
    <2>4. OneBatch' /\ BaseInv' /\ BatchInv'
      BY <2>1, <2>2 DEF Safe, OneBatch, BaseInv, BatchInv, Writing
    <2>5. EarlyInv'
      BY <1>4, <2>1, <2>2, <2>3 DEF Safe, EarlyInv, Changed, Restart
    <2>6. RecordInv'
      BY <1>4 DEF RecordInv, Restart, AgentTypeOK
    <2>7. QED
      BY <2>4, <2>5, <2>6 DEF Safe
  <1>5. QED
    BY <1>1, <1>2, <1>3, <1>4, SafeRun, SafeApply DEF Next

\* It holds when the service starts for the first time.
LEMMA LocalInit == Init => LocalInv
  <1> SUFFICES ASSUME Init
               PROVE  LocalInv
    OBVIOUS
  <1>1. \A q \in Requests : apply[q].pc = "idle" /\ apply[q].run = NoRun /\ NoRun \notin Runs
    BY DEF Init, NoRequest, NoRun, Runs
  <1>2. \A r \in Runs : /\ run[r].st = "none" /\ task[r] = "none" /\ process[r] = "none"
                        /\ Changed(r) = {}
                        /\ \A f \in Files : run[r].base[f] = Absent
    BY DEF Init, NullRun, Changed
  <1>3. \A f \in Files : disk[f] = Original
    BY DEF Init
  <1>4. EarlyInv /\ BaseInv
    BY <1>1, <1>2, <1>3, Distinct DEF EarlyInv, BaseInv
  <1>5. OneBatch /\ BatchInv /\ RecordInv
    BY <1>1, <1>3, Distinct DEF OneBatch, BatchInv, RecordInv, Writing
  <1>6. ProcessHasTask /\ FreshInv
    BY <1>2 DEF ProcessHasTask, FreshInv
  <1>7. QED
    BY <1>4, <1>5, <1>6, TypeInit DEF LocalInv, Safe

\* Everything above holds of every reachable state.
THEOREM LocalInvariant == Spec => []LocalInv
  <1>1. LocalInv /\ [Next]_vars => LocalInv'
    BY TypeNext, ProcessStep, SafeNext DEF LocalInv
  <1>2. QED
    BY <1>1, LocalInit, PTL DEF Spec

\* Batches are atomic as long as the service lives: outside a batch, what a
\* run has written to a file is recorded by an applied operation.
THEOREM OperationsRecordFiles == Spec => []FilesHaveOperations
  <1>1. LocalInv => FilesHaveOperations
    BY DEF LocalInv, Safe, RecordInv, FilesHaveOperations
  <1>2. QED
    BY <1>1, LocalInvariant, PTL

-----------------------------------------------------------------------------
(* What a batch may write *)

\* Only the lock's owner puts a result into a file, one file at a time, after a
\* look at the file; a rollback puts back what the run started from.
LEMMA WriteStep ==
    ASSUME LocalInv, [Next]_vars, NEW r \in Runs, NEW f \in Files, Writes(r, f)
    PROVE  disk[f] = run[r].base[f] /\ policy = run[r].saved /\ policy.write
  <1>1. PICK q \in Requests : apply[q].pc = "files" /\ apply[q].run = r
    BY DEF Writes, InBatch
  <1>2. /\ Grant(r) /\ \A p \in Requests : Writing(p) => p = q
        /\ \A g \in Changed(r) : apply[q].backup[g] = run[r].base[g]
    BY <1>1 DEF LocalInv, Safe, BatchInv, OneBatch, Writing
  <1>3. disk'[f] = Result(r) /\ disk[f] # Result(r) /\ run[r].base[f] # Result(r)
    BY DEF Writes, LocalInv, Safe, BaseInv
  <1>4. AgentTypeOK
    BY DEF LocalInv
  <1>5. ASSUME NEW p \in Requests, ApplyFile(p)
        PROVE  disk[f] = run[r].base[f]
    <2>1. p = q
      BY <1>2, <1>5 DEF ApplyFile, Writing
    <2>2. disk' = [disk EXCEPT ![Next1(apply[q].todo)] =
                      IF run[r].change[Next1(apply[q].todo)] = "write" THEN Result(r) ELSE Absent]
          /\ Replaceable(r, Next1(apply[q].todo))
      BY <1>1, <1>5, <2>1 DEF ApplyFile
    <2>3. f = Next1(apply[q].todo)
      BY <1>3, <1>4, <2>2, RowsTyped
    <2>4. run[r].change[f] = "write"
      BY <1>3, <1>4, <2>2, <2>3, RowsTyped, Distinct
    <2>5. QED
      BY <2>2, <2>3, <2>4 DEF Replaceable, Untouched
  <1>6. ASSUME NEW p \in Requests, ApplyRollback(p)
        PROVE  FALSE
    <2>1. p = q
      BY <1>2, <1>6 DEF ApplyRollback, Writing
    <2>2. disk'[f] = IF f \in Changed(r) THEN apply[q].backup[f] ELSE disk[f]
      BY <1>1, <1>6, <2>1 DEF ApplyRollback, Restored
    <2>3. QED
      BY <1>2, <1>3, <2>2
  <1>7. ASSUME NEW g \in Files, UserEdit(g)
        PROVE  FALSE
    <2>1. edits + 1 \in 1 .. MaxEdits
      BY <1>4, <1>7, LocalAgentAssumption DEF AgentTypeOK, UserEdit
    <2>2. Edit(edits + 1) # Result(r)
      BY <2>1, Distinct
    <2>3. QED
      BY <1>3, <1>4, <1>7, <2>2, RowsTyped DEF UserEdit
  <1>8. disk' # disk
    BY <1>3
  <1>9. \/ \E p \in Requests : ApplyFile(p) \/ ApplyRollback(p)
        \/ \E g \in Files : UserEdit(g)
    <2>1. ASSUME NEW s \in Runs,
                 \/ Delegate(s) \/ Executor(s) \/ ProcessExits(s) \/ Interrupt(s)
                 \/ CancelRead(s) \/ CancelStep(s)
          PROVE  UNCHANGED disk
      <3>1. CASE Executor(s)
        BY <3>1 DEF Executor, Begin, Unprepared, Isolate, Launch, Refresh, CollectFails,
                    Collect, Store, FailRead, FailWrite
      <3>2. QED
        BY <2>1, <3>1 DEF Delegate, ProcessExits, Interrupt, CancelRead, CancelStep,
                          CancelWrite, CancelProcess, CancelTask
    <2>2. QED
      BY <1>8, <2>1 DEF Next, vars, ApplyStep, ApplyRead, ApplyLock, ApplyStale, ApplyBegin,
                        ApplyCommit, SetPolicy, Restart
  <1>10. QED
    BY <1>2, <1>5, <1>6, <1>7, <1>9 DEF Grant, PolicyHolds

\* A batch writes a file only over the version that the agent started from and
\* under the policy, still in force, that the run was confirmed under.
THEOREM WritesAreAllowed == Spec => WritesAllowed
  <1>1. LocalInv /\ [Next]_vars =>
           [\A r \in Runs, f \in Files : Writes(r, f) => disk[f] = run[r].base[f]]_disk
    BY WriteStep
  <1>2. LocalInv /\ [Next]_vars =>
           [\A r \in Runs, f \in Files :
               Writes(r, f) => policy = run[r].saved /\ policy.write]_disk
    BY WriteStep
  <1>3. QED
    BY <1>1, <1>2, LocalInvariant, PTL DEF Spec, WritesAllowed, WritesOverBase, WritesUnderPolicy

=============================================================================
