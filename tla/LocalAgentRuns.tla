--------------------------- MODULE LocalAgentRuns ---------------------------
(***************************************************************************)
(* The local agent broker of the LearnFlow desktop (backend/app/services/  *)
(* local_agent_broker): a confirmed delegation becomes a run; its executor *)
(* copies the workspace, lets a coding agent work on the copy and collects *)
(* what it changed; the learner cancels the run, or confirms once more and *)
(* has the changes applied to the real files, which the learner goes on    *)
(* editing.  The help policy of the stage may change at any time.          *)
(*                                                                         *)
(* One linked workspace and one stage, under help control.  A SELECT sees  *)
(* the last commit, an UPDATE waits for the writer's lock and writes the   *)
(* columns that its session changed, whatever they hold by then.  The      *)
(* check of a file's hash and its replacement are one step, as is the copy *)
(* of the workspace, and as are a batch's rollback, which gives the lock   *)
(* back, and the restoration of its files that comes next.  A move is a    *)
(* deletion and a creation.  The learner confirms every deletion of a      *)
(* result.                                                                 *)
(***************************************************************************)
EXTENDS Naturals, FiniteSets

CONSTANTS
    MaxRuns,        \* bound: delegations
    MaxFiles,       \* the files of the workspace
    Requests,       \* requests to apply a result
    Operations,     \* what agents do to files: "write", "delete"
    MaxEdits,       \* bound: edits of the learner
    MaxRevisions,   \* bound: changes of the help policy
    MaxRestarts,    \* bound: restarts of the desktop service
    MaxErrors       \* bound: batches in which the database fails

ASSUME LocalAgentAssumption ==
    /\ {MaxRuns, MaxFiles, MaxEdits, MaxRevisions, MaxRestarts, MaxErrors}
           \subseteq Nat
    /\ Operations \subseteq {"write", "delete"}

Runs == 1 .. MaxRuns
Files == 1 .. MaxFiles      \* in the order of a result's changes
NoRun == 0

\* What a file holds, up to equality of its hash.
Absent == 0
Original == 1
Edit(n) == 1 + n
Result(r) == 1 + MaxEdits + r
Contents == 0 .. (1 + MaxEdits + MaxRuns)
Edits == {Edit(n) : n \in 1 .. MaxEdits}

VARIABLES
    disk,       \* the real files
    policy,     \* the assistance policy of the stage
    run,        \* LocalAgentRun, and its applied WorkspaceOperations
    task,       \* where the executor of a run is (_tasks)
    process,    \* the agent's process (_processes)
    cancel,     \* where the request that cancels a run is
    apply,      \* where each request to apply is, and what it holds
    edits, restarts, errors

vars == <<disk, policy, run, task, process, cancel, apply, edits, restarts, errors>>

Status == {"none", "queued", "running", "completed", "failed", "canceled",
           "stale", "applied"}
Unfinished == {"queued", "running"}
NoPolicy == [revision |-> 0, write |-> FALSE]
NullRun == [st |-> "none", saved |-> NoPolicy, finished |-> FALSE,
            base |-> [f \in Files |-> Absent], change |-> [f \in Files |-> "none"],
            applied |-> {}]
NoRequest == [pc |-> "idle", run |-> NoRun, todo |-> {},
              backup |-> [f \in Files |-> Absent]]

Init == /\ disk = [f \in Files |-> Original]
        /\ policy \in [revision : {0}, write : BOOLEAN]
        /\ run = [r \in Runs |-> NullRun]
        /\ task = [r \in Runs |-> "none"]
        /\ process = [r \in Runs |-> "none"]
        /\ cancel = [r \in Runs |-> "none"]
        /\ apply = [q \in Requests |-> NoRequest]
        /\ edits = 0
        /\ restarts = 0
        /\ errors = 0

\* The writer's lock of the database: an apply keeps it from its first
\* statement to its end, across the files it writes.
Unlocked == \A q \in Requests : apply[q].pc \notin {"locked", "files"}

SetRun(r, row) == run' = [run EXCEPT ![r] = row]
GoTo(r, pc) == task' = [task EXCEPT ![r] = pc]
Finish(r, st) == SetRun(r, [run[r] EXCEPT !.st = st, !.finished = TRUE])

-----------------------------------------------------------------------------
(* The executor of a run *)

\* create_run_for_action: the run keeps the policy it was confirmed under.
Delegate(r) ==
    /\ run[r].st = "none"
    /\ \A s \in Runs : s < r => run[s].st # "none"
    /\ Unlocked
    /\ SetRun(r, [NullRun EXCEPT !.st = "queued", !.saved = policy])
    /\ GoTo(r, "queued")
    /\ UNCHANGED <<disk, policy, process, cancel, apply, edits, restarts, errors>>

PolicyHolds(r) == run[r].saved = policy

\* execute_run loads the run and checks its policy.
Begin(r) ==
    /\ task[r] = "queued"
    /\ GoTo(r, CASE run[r].st # "queued" -> "none"
                 [] run[r].st = "queued" /\ PolicyHolds(r) -> "begun"
                 [] OTHER -> "failing")
    /\ UNCHANGED <<disk, policy, run, process, cancel, apply, edits, restarts, errors>>

\* The agent is not there, or the workspace cannot be copied.
Unprepared(r) ==
    /\ task[r] = "begun"
    /\ GoTo(r, "failing")
    /\ UNCHANGED <<disk, policy, run, process, cancel, apply, edits, restarts, errors>>

\* After the probe, the copy of the workspace and the run's new status, which
\* is written over whatever the row holds.
Isolate(r) ==
    /\ task[r] = "begun"
    /\ Unlocked
    /\ SetRun(r, [run[r] EXCEPT !.st = "running", !.base = disk])
    /\ GoTo(r, "isolated")
    /\ UNCHANGED <<disk, policy, process, cancel, apply, edits, restarts, errors>>

Launch(r) ==
    /\ task[r] = "isolated"
    /\ GoTo(r, IF PolicyHolds(r) THEN "running" ELSE "failing")
    /\ process' = IF PolicyHolds(r) THEN [process EXCEPT ![r] = "alive"] ELSE process
    /\ UNCHANGED <<disk, policy, run, cancel, apply, edits, restarts, errors>>

ProcessExits(r) ==
    /\ process[r] = "alive"
    /\ process' = [process EXCEPT ![r] = "none"]
    /\ UNCHANGED <<disk, policy, run, task, cancel, apply, edits, restarts, errors>>

\* wait_with_assistance: the policy's watch or the timeout comes first.
Interrupt(r) ==
    /\ task[r] = "running"
    /\ process[r] = "alive"
    /\ GoTo(r, "failing")
    /\ UNCHANGED <<disk, policy, run, process, cancel, apply, edits, restarts, errors>>

\* The process is over; a canceled run is left alone.
Refresh(r) ==
    /\ task[r] = "running"
    /\ process[r] = "none"
    /\ GoTo(r, IF run[r].st = "canceled" THEN "none" ELSE "collect")
    /\ UNCHANGED <<disk, policy, run, process, cancel, apply, edits, restarts, errors>>

\* The policy and the changes of the agent are checked ...
CollectFails(r) ==
    /\ task[r] = "collect"
    /\ ~PolicyHolds(r) \/ ~run[r].saved.write
    /\ GoTo(r, "failing")
    /\ UNCHANGED <<disk, policy, run, process, cancel, apply, edits, restarts, errors>>

Collect(r) ==
    /\ task[r] = "collect"
    /\ PolicyHolds(r)
    /\ GoTo(r, "collected")
    /\ UNCHANGED <<disk, policy, run, process, cancel, apply, edits, restarts, errors>>

\* ... and stored, for review or as those of an agent that failed, whatever the
\* policy and the row have become.
Store(r, change, st) ==
    /\ task[r] = "collected"
    /\ Unlocked
    /\ \A f \in Files :
          /\ change[f] # "none" => run[r].saved.write
          /\ change[f] = "delete" => run[r].base[f] # Absent
    /\ SetRun(r, [run[r] EXCEPT !.st = st, !.finished = TRUE, !.change = change])
    /\ GoTo(r, "none")
    /\ UNCHANGED <<disk, policy, process, cancel, apply, edits, restarts, errors>>

\* Mutant: a failing executor leaves its process behind.
Unkilled(r) == process
Killed(r) == [process EXCEPT ![r] = IF @ = "alive" THEN "none" ELSE @]

\* The error path kills the process, reads the run again ...
FailRead(r) ==
    /\ task[r] = "failing"
    /\ process' = Killed(r)
    /\ GoTo(r, IF run[r].st = "canceled" THEN "none" ELSE "failed")
    /\ UNCHANGED <<disk, policy, run, cancel, apply, edits, restarts, errors>>

\* ... and writes the failure.
FailWrite(r) ==
    /\ task[r] = "failed"
    /\ Unlocked
    /\ Finish(r, "failed")
    /\ GoTo(r, "none")
    /\ UNCHANGED <<disk, policy, process, cancel, apply, edits, restarts, errors>>

-----------------------------------------------------------------------------
(* cancel_run *)

CancelRead(r) ==
    /\ cancel[r] = "none"
    /\ run[r].st \in Unfinished
    /\ cancel' = [cancel EXCEPT ![r] = "read"]
    /\ UNCHANGED <<disk, policy, run, task, process, apply, edits, restarts, errors>>

CancelWrite(r) ==
    /\ cancel[r] = "read"
    /\ Unlocked
    /\ Finish(r, "canceled")
    /\ cancel' = [cancel EXCEPT ![r] = "written"]
    /\ UNCHANGED <<disk, policy, task, process, apply, edits, restarts, errors>>

\* The process that is registered by now is killed ...
CancelProcess(r) ==
    /\ cancel[r] = "written"
    /\ process' = Killed(r)
    /\ cancel' = [cancel EXCEPT ![r] = "killed"]
    /\ UNCHANGED <<disk, policy, run, task, apply, edits, restarts, errors>>

\* ... and the executor is canceled, which kills one started since.
CancelTask(r) ==
    /\ cancel[r] = "killed"
    /\ process' = Killed(r)
    /\ GoTo(r, "none")
    /\ cancel' = [cancel EXCEPT ![r] = "none"]
    /\ UNCHANGED <<disk, policy, run, apply, edits, restarts, errors>>

-----------------------------------------------------------------------------
(* apply_run_result *)

Request(q, req) == apply' = [apply EXCEPT ![q] = req]

\* The run is loaded and its policy checked; nothing else can be applied.
ApplyRead(q, r) ==
    /\ apply[q].pc = "idle"
    /\ run[r].st = "completed"
    /\ PolicyHolds(r)
    /\ policy.write
    /\ Request(q, [NoRequest EXCEPT !.pc = "read", !.run = r])
    /\ UNCHANGED <<disk, policy, run, task, process, cancel, edits, restarts, errors>>

Grant(r) == PolicyHolds(r) /\ policy.write

\* lock_local_assistance_for_apply
ApplyLock(q) ==
    /\ apply[q].pc = "read"
    /\ Unlocked
    /\ Request(q, IF Grant(apply[q].run) THEN [apply[q] EXCEPT !.pc = "locked"]
                  ELSE NoRequest)
    /\ UNCHANGED <<disk, policy, run, task, process, cancel, edits, restarts, errors>>

\* Mutant: a file is replaced without its hash being checked again.
WrittenOver(r, f) == TRUE
Untouched(r, f) == disk[f] = run[r].base[f]
Changed(r) == {f \in Files : run[r].change[f] # "none"}

\* Every target is checked before the first one is written.
ApplyStale(q) ==
    LET r == apply[q].run
    IN /\ apply[q].pc = "locked"
       /\ \E f \in Changed(r) : disk[f] # run[r].base[f]
       /\ SetRun(r, [run[r] EXCEPT !.st = "stale"])
       /\ Request(q, NoRequest)
       /\ UNCHANGED <<disk, policy, task, process, cancel, edits, restarts, errors>>

ApplyBegin(q) ==
    LET r == apply[q].run
    IN /\ apply[q].pc = "locked"
       /\ \A f \in Changed(r) : disk[f] = run[r].base[f]
       /\ Request(q, [apply[q] EXCEPT !.pc = "files", !.todo = Changed(r),
                          !.backup = [f \in Files |-> IF f \in Changed(r) THEN disk[f]
                                                      ELSE Absent]])
       /\ UNCHANGED <<disk, policy, run, task, process, cancel, edits, restarts, errors>>

\* apply_operation checks the hash of a file it writes and, of one it moves
\* to the trash, only that it is there.
Replaceable(r, f) == IF run[r].change[f] = "write" THEN Untouched(r, f)
                     ELSE disk[f] # Absent

Next1(S) == CHOOSE f \in S : \A g \in S : f <= g

ApplyFile(q) ==
    LET r == apply[q].run
        f == Next1(apply[q].todo)
    IN /\ apply[q].pc = "files"
       /\ apply[q].todo # {}
       /\ Replaceable(r, f)
       /\ disk' = [disk EXCEPT ![f] = IF run[r].change[f] = "write" THEN Result(r)
                                      ELSE Absent]
       /\ Request(q, [apply[q] EXCEPT !.todo = @ \ {f}])
       /\ UNCHANGED <<policy, run, task, process, cancel, edits, restarts, errors>>

\* Mutant: the files are left as the failed batch made them.
Unrestored(q) == disk
Restored(q) == [f \in Files |-> IF f \in Changed(apply[q].run) THEN apply[q].backup[f]
                                ELSE disk[f]]

\* One file fails, or the database does at a file or at the commit: the
\* transaction is rolled back and every file restored.
ApplyRollback(q) ==
    /\ apply[q].pc = "files"
    /\ \/ /\ apply[q].todo # {}
          /\ ~Replaceable(apply[q].run, Next1(apply[q].todo))
          /\ errors' = errors
       \/ errors < MaxErrors /\ errors' = errors + 1
    /\ disk' = Restored(q)
    /\ Request(q, NoRequest)
    /\ UNCHANGED <<policy, run, task, process, cancel, edits, restarts>>

ApplyCommit(q) ==
    LET r == apply[q].run
    IN /\ apply[q].pc = "files"
       /\ apply[q].todo = {}
       /\ SetRun(r, [run[r] EXCEPT !.st = "applied", !.applied = @ \cup Changed(r)])
       /\ Request(q, NoRequest)
       /\ UNCHANGED <<disk, policy, task, process, cancel, edits, restarts, errors>>

-----------------------------------------------------------------------------
(* The learner's files, the policy and the service *)

\* Any editor of the learner's: no lock holds it back.
UserEdit(f) ==
    /\ edits < MaxEdits
    /\ edits' = edits + 1
    /\ disk' = [disk EXCEPT ![f] = Edit(edits + 1)]
    /\ UNCHANGED <<policy, run, task, process, cancel, apply, restarts, errors>>

SetPolicy(write) ==
    /\ policy.revision < MaxRevisions
    /\ Unlocked
    /\ policy' = [revision |-> policy.revision + 1, write |-> write]
    /\ UNCHANGED <<disk, run, task, process, cancel, apply, edits, restarts, errors>>

\* Mutant: the runs of the last process are not looked at.
NotMarked == run
\* Mutant: they get a status that nothing else knows.
MarkedUnknown == [r \in Runs |-> IF run[r].st \in Unfinished
                                 THEN [run[r] EXCEPT !.st = "interrupted"] ELSE run[r]]
Marked == [r \in Runs |-> IF run[r].st \in Unfinished
                          THEN [run[r] EXCEPT !.st = "failed", !.finished = TRUE]
                          ELSE run[r]]

\* The service dies and starts again (mark_interrupted_runs_failed).  Files
\* stay as they are; an agent in a session of its own may go on.
Restart ==
    /\ restarts < MaxRestarts
    /\ restarts' = restarts + 1
    /\ run' = Marked
    /\ task' = [r \in Runs |-> "none"]
    /\ process' \in [Runs -> {"none", "orphan"}]
    /\ \A r \in Runs : process'[r] = "orphan" => process[r] # "none"
    /\ cancel' = [r \in Runs |-> "none"]
    /\ apply' = [q \in Requests |-> NoRequest]
    /\ UNCHANGED <<disk, policy, edits, errors>>

Executor(r) ==
    \/ Begin(r) \/ Unprepared(r) \/ Isolate(r) \/ Launch(r) \/ Refresh(r)
    \/ CollectFails(r) \/ Collect(r)
    \/ \E change \in [Files -> Operations \cup {"none"}], st \in {"completed", "failed"} :
          Store(r, change, st)
    \/ FailRead(r) \/ FailWrite(r)

CancelStep(r) == CancelWrite(r) \/ CancelProcess(r) \/ CancelTask(r)

ApplyStep(q) == \/ ApplyLock(q) \/ ApplyStale(q) \/ ApplyBegin(q) \/ ApplyFile(q)
                \/ ApplyRollback(q) \/ ApplyCommit(q)

Next ==
    \/ \E r \in Runs : \/ Delegate(r) \/ Executor(r) \/ ProcessExits(r) \/ Interrupt(r)
                       \/ CancelRead(r) \/ CancelStep(r)
    \/ \E q \in Requests : ApplyStep(q) \/ \E r \in Runs : ApplyRead(q, r)
    \/ \E f \in Files : UserEdit(f)
    \/ \E write \in BOOLEAN : SetPolicy(write)
    \/ Restart

Spec == Init /\ [][Next]_vars

\* The event loop runs every coroutine on, and the timeout ends a wait that
\* the agent does not end itself.
FairSpec == /\ Spec
            /\ \A r \in Runs : /\ WF_vars(Executor(r))
                               /\ WF_vars(Interrupt(r))
                               /\ WF_vars(CancelStep(r))
            /\ \A q \in Requests : WF_vars(ApplyStep(q))

-----------------------------------------------------------------------------
(* Properties *)

\* Every row, task and request is one the program can hold.
AgentTypeOK ==
    /\ disk \in [Files -> Contents]
    /\ policy \in [revision : 0 .. MaxRevisions, write : BOOLEAN]
    /\ run \in [Runs -> [st : Status, finished : BOOLEAN,
                         saved : [revision : 0 .. MaxRevisions, write : BOOLEAN],
                         base : [Files -> Contents],
                         change : [Files -> {"none", "write", "delete"}],
                         applied : SUBSET Files]]
    /\ task \in [Runs -> {"none", "queued", "begun", "isolated", "running", "collect",
                          "collected", "failing", "failed"}]
    /\ process \in [Runs -> {"none", "alive", "orphan"}]
    /\ cancel \in [Runs -> {"none", "read", "written", "killed"}]
    /\ apply \in [Requests -> [pc : {"idle", "read", "locked", "files"},
                               run : Runs \cup {NoRun}, todo : SUBSET Files,
                               backup : [Files -> Contents]]]
    /\ edits \in 0 .. MaxEdits
    /\ restarts \in 0 .. MaxRestarts
    /\ errors \in 0 .. MaxErrors

\* An agent works only while its executor watches it: no error, timeout,
\* change of policy or cancellation leaves a process behind.
ProcessHasTask ==
    \A r \in Runs : process[r] = "alive" => task[r] \in {"running", "failing"}

\* Batches are atomic as long as the service lives: outside a batch, what a
\* run has written to a file is recorded by an applied operation.
InBatch(r) == \E q \in Requests : apply[q].pc = "files" /\ apply[q].run = r
FilesHaveOperations ==
    restarts = 0 =>
        \A r \in Runs, f \in Files :
            disk[f] = Result(r) /\ ~InBatch(r) => f \in run[r].applied

\* A batch puts the run's content into a file.
Writes(r, f) == InBatch(r) /\ disk'[f] = Result(r) /\ disk[f] # Result(r)

\* A result replaces only the version of a file that its agent started from,
\* even when the learner edits files while the batch is written.
WritesOverBase ==
    [][\A r \in Runs, f \in Files : Writes(r, f) => disk[f] = run[r].base[f]]_disk

\* No file is written after the learner has lowered the help policy, or has
\* only changed it and back, since the run was confirmed.
WritesUnderPolicy ==
    [][\A r \in Runs, f \in Files :
          Writes(r, f) => policy = run[r].saved /\ policy.write]_disk

\* What a batch may write, and where.
WritesAllowed == WritesOverBase /\ WritesUnderPolicy

\* Every executor, request and process comes to an end, and every run but one
\* that was canceled reaches its last status without a restart.
RunsSettle ==
    []<>(/\ \A q \in Requests : apply[q].pc = "idle"
         /\ \A r \in Runs : /\ task[r] = "none"
                            /\ process[r] # "alive"
                            /\ run[r].st \in Unfinished => run[r].finished)

\* What the workspace document and the broker's own message promise: content
\* of the learner's that a run has not seen is not overwritten.
UserEditsSurvive ==
    [][\A f \in Files : disk[f] \in Edits /\ disk'[f] # disk[f] =>
          \/ disk'[f] \in Edits
          \/ \E r \in Runs : run[r].base[f] = disk[f]]_disk
=============================================================================
