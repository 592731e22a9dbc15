--------------------------- MODULE BackgroundTasks ---------------------------
(***************************************************************************)
(* Background tasks of LearnFlow (task_manager), with the task that has    *)
(* the most to lose: the generation of the lecture of one checkpoint       *)
(* (task_runners.run_lecture_generation).  A request inserts a task row,   *)
(* commits it and submits its runner to the process; the runner saves one  *)
(* section after the other and publishes.  Users cancel and edit the       *)
(* lecture, and the tutor ties an action to a task.                        *)
(*                                                                         *)
(* One action is one transaction, or what runs between two awaits of the   *)
(* event loop.  Where a handler reads the lecture in one and writes it in  *)
(* another, these are two actions, and the second writes the columns whose *)
(* value differs from the one read.  A section is known by the outline its *)
(* title comes from and by the edit that wrote its text.  The checkpoint's *)
(* contract passes the teaching gate, which would empty the lecture.  A    *)
(* save and the check of its version are one step; a rollback is a save.   *)
(***************************************************************************)
EXTENDS Naturals, FiniteSets, Sequences

CONSTANTS
    Tasks,        \* requests for a generation that get as far as a row
    Tutored,      \* those that come from the tutor, with an action
    Editors,      \* edits that users save
    Edits,        \* the kinds of edits, of "text", "title" and "alone"
    NumSections,  \* sections of an outline
    MaxCancels,   \* bound: cancellations
    MaxRestarts   \* bound: restarts of the service

ASSUME TasksAssumption ==
    /\ Tutored \subseteq Tasks
    /\ Edits \subseteq {"text", "title", "alone"}
    /\ NumSections \in Nat \ {0}
    /\ {MaxCancels, MaxRestarts} \subseteq Nat
    /\ {"none", "blank", "user"} \cap (Tasks \cup Editors) = {}

VARIABLES
    task,      \* the rows, and whether a user has cancelled the task
    request,   \* what each generate request and its tutor are about to do
    runner,    \* the coroutines
    canceller, \* tasks whose cancel_task has found no coroutine
    action,    \* the agent action a task's row names
    lecture,
    versions,  \* the edits whose text a version of the lecture has
    saved,     \* edits that were saved
    cancels, restarts

vars == <<task, request, runner, canceller, action, lecture, versions, saved, cancels,
          restarts>>

rows == <<task, request, canceller>>
content == <<lecture, versions>>
users == <<saved, cancels, restarts>>

NoPlan == "none"
None == [plan |-> "blank", edit |-> "none"]
Generated(p) == [plan |-> p, edit |-> "none"]
Written(secs) == {i \in DOMAIN secs : secs[i] # None}

\* The sections without the gaps: the k-th is the one that k sections reach to.
Dense(secs) ==
    LET Upto(i) == {j \in Written(secs) : j <= i}
    IN [k \in 1 .. Cardinality(Written(secs)) |->
           secs[CHOOSE i \in Written(secs) : Cardinality(Upto(i)) = k]]

EditsIn(secs) == {secs[i].edit : i \in DOMAIN secs} \ {"none"}

Active(t) == task[t].st \in {"queued", "running"}
\* The registry has a coroutine that is not done.
Registered(t) == runner[t].pc \notin {"none", "gone"}

NoRunner == [pc |-> "none", resume |-> FALSE, next |-> 1, plan |-> NoPlan, reads |-> <<>>,
             status |-> "none",  \* of the lecture, when it was loaded to be published
             cancel |-> FALSE,  \* CancelledError is on its way
             alone |-> FALSE]   \* nobody else has written the lecture since it was opened
At(pc) == [NoRunner EXCEPT !.pc = pc]
NoLecture == [st |-> "none", secs |-> <<>>, plan |-> NoPlan]

Init == /\ task = [t \in Tasks |-> [st |-> "none", asked |-> FALSE]]
        /\ request = [t \in Tasks |-> "none"]
        /\ runner = [t \in Tasks |-> NoRunner]
        /\ canceller = {}
        /\ action = [t \in Tasks |-> "none"]
        /\ lecture = NoLecture
        /\ versions = {}
        /\ saved = {}
        /\ cancels = 0
        /\ restarts = 0

-----------------------------------------------------------------------------
(* Requests *)

\* find_running_task finds nothing.  (It returns the one row that is active
\* and raises if there are two: nothing changes.)
LookUp(t) ==
    /\ request[t] = "none"
    /\ \A u \in Tasks : ~Active(u)
    /\ request' = [request EXCEPT ![t] = "insert"]
    /\ UNCHANGED <<task, canceller, runner, action, content, users>>

Insert(t) ==
    /\ request[t] = "insert"
    /\ task' = [task EXCEPT ![t].st = "queued"]
    /\ request' = [request EXCEPT ![t] = "submit"]
    /\ UNCHANGED <<canceller, runner, action, content, users>>

\* The row's payload says whether a run resumes; the tutor's start afresh.
Submit(t, resume) ==
    /\ request[t] = "submit"
    /\ t \in Tutored => ~resume
    /\ runner' = [runner EXCEPT ![t].pc = "new", ![t].resume = resume]
    /\ request' = [request EXCEPT ![t] = IF t \in Tutored THEN "attach" ELSE "done"]
    /\ UNCHANGED <<task, canceller, action, content, users>>

\* execute_action writes its id into the row that the request returned.
Attach(t) ==
    /\ request[t] = "attach"
    /\ action' = [action EXCEPT ![t] = "running"]
    /\ request' = [request EXCEPT ![t] = "done"]
    /\ UNCHANGED <<task, canceller, runner, content, users>>

-----------------------------------------------------------------------------
(* The runner *)

\* Mutant: a failure is not written to the row.
Unmarked(st, new) == IF new = "failed" THEN st ELSE new
\* Mutant: it writes a status that nothing else knows.
MarkedUnknown(st, new) == IF new = "failed" THEN "aborted" ELSE new
\* update_task writes whatever the row says.
Marked(st, new) == new

\* update_task with a terminal status, and the action that it leaves to be
\* finalized: by the run, or by the handler of the manager it was called from.
EndRow(t, new) ==
    LET last == IF runner[t].pc \in {"complete", "failing"} THEN "finalizing" ELSE "closing"
    IN /\ task' = [task EXCEPT ![t].st = Marked(@, new)]
       /\ runner' = [runner EXCEPT ![t] = At(IF action[t] = "running" THEN last ELSE "gone")]

Runs(t, pc) == runner[t].pc = pc /\ ~runner[t].cancel

\* finalize_action_for_task, in a session of its own.
Finalize(t) ==
    /\ Runs(t, "finalizing") \/ Runs(t, "closing")
    /\ action' = [action EXCEPT ![t] = "ended"]
    /\ runner' = [runner EXCEPT ![t] = At("gone")]
    /\ UNCHANGED <<rows, content, users>>

Start(t) ==
    /\ Runs(t, "new")
    /\ task' = [task EXCEPT ![t].st = Marked(@, "running")]
    /\ runner' = [runner EXCEPT ![t].pc = "plan"]
    /\ UNCHANGED <<request, canceller, action, content, users>>

\* A resumed run takes the outline that the lecture has, if it has one.
Plan(t) ==
    /\ Runs(t, "plan")
    /\ runner' = [runner EXCEPT
          ![t].pc = "open",
          ![t].plan = IF runner[t].resume /\ lecture.plan # NoPlan THEN lecture.plan ELSE t]
    /\ UNCHANGED <<rows, action, content, users>>

\* Others have written the lecture since these runners opened it.
Disturbed(t) == [u \in Tasks |-> IF u = t THEN runner[u] ELSE [runner[u] EXCEPT !.alone = FALSE]]

Snapshot(l) == IF l.st = "published" THEN EditsIn(l.secs) ELSE {}

Open(t) ==
    /\ Runs(t, "open")
    /\ LET made == IF lecture = NoLecture THEN [NoLecture EXCEPT !.st = "draft"]
                   ELSE lecture
           kept == IF runner[t].resume THEN made
                   ELSE [st |-> "draft", secs |-> <<>>, plan |-> runner[t].plan]
       IN /\ lecture' = kept
          /\ versions' = versions \cup (IF runner[t].resume THEN {} ELSE Snapshot(lecture))
          /\ runner' = [Disturbed(t) EXCEPT ![t].pc = "write", ![t].next = 1,
                                            ![t].reads = IF runner[t].resume THEN kept.secs ELSE <<>>,
                                            ![t].alone = TRUE]
    /\ UNCHANGED <<rows, action, users>>

\* Mutant: a saved section is kept whatever outline it is of.
AnyTitle(t, i) == runner[t].resume /\ i \in Written(runner[t].reads)
\* A resumed run keeps the sections that it loaded under its titles.
Reused(t, i) == runner[t].resume /\ i \in DOMAIN runner[t].reads
                /\ runner[t].reads[i].plan = runner[t].plan

Placed(secs, i, s) == [j \in 1 .. (IF i > Len(secs) THEN i ELSE Len(secs)) |->
                          IF j = i THEN s ELSE IF j \in DOMAIN secs THEN secs[j] ELSE None]

\* A section that was loaded as a gap fails the run.
WriteSection(t) ==
    /\ Runs(t, "write")
    /\ LET i == runner[t].next
           s == IF Reused(t, i) THEN runner[t].reads[i] ELSE Generated(runner[t].plan)
       IN /\ runner[t].resume /\ i \in DOMAIN runner[t].reads => i \in Written(runner[t].reads)
          /\ lecture' = [lecture EXCEPT !.secs = Placed(@, i, s), !.st = "draft"]
          /\ runner' = [Disturbed(t) EXCEPT
                           ![t].next = i + 1,
                           ![t].pc = IF i = NumSections THEN "load" ELSE "write"]
    /\ UNCHANGED <<rows, action, versions, users>>

\* The last transaction reads the lecture ...
Load(t) ==
    /\ Runs(t, "load")
    /\ runner' = [runner EXCEPT ![t].pc = "publish", ![t].reads = lecture.secs,
                                        ![t].status = lecture.st]
    /\ UNCHANGED <<rows, action, content, users>>

\* ... and writes it when it has read the checkpoint: what changes of the
\* status, and the sections if there are gaps to leave out.
Publish(t) ==
    /\ Runs(t, "publish")
    /\ LET whole == Dense(runner[t].reads)
       IN lecture' = [lecture EXCEPT
              !.secs = IF whole = runner[t].reads THEN @ ELSE whole,
              !.st = IF runner[t].status = "published" THEN @ ELSE "published"]
    /\ runner' = [Disturbed(t) EXCEPT ![t] = At("complete")]
    /\ UNCHANGED <<rows, action, versions, users>>

Complete(t) ==
    /\ Runs(t, "complete")
    /\ EndRow(t, "completed")
    /\ UNCHANGED <<request, canceller, action, content, users>>

\* The run itself answers for its sources and its outline, the manager for
\* whatever else is raised in the run, and nobody for what is raised while the
\* manager's handler finalizes the action.
Fail(t) ==
    /\ runner[t].pc \in {"new", "plan", "open", "write", "load", "publish", "complete",
                         "finalizing", "closing"}
    /\ ~runner[t].cancel
    /\ \E pc \in {"failing", "failed", "gone"} :
          /\ pc = "failing" => runner[t].pc = "plan"
          /\ pc = "gone" <=> runner[t].pc = "closing"
          /\ runner' = [runner EXCEPT ![t] = At(pc)]
    /\ UNCHANGED <<rows, action, content, users>>

MarkFailed(t) ==
    /\ runner[t].pc \in {"failing", "failed"}
    /\ ~runner[t].cancel
    /\ EndRow(t, "failed")
    /\ UNCHANGED <<request, canceller, action, content, users>>

\* CancelledError is thrown into the coroutine at its next await.  One that
\* has not begun, or that is in a handler of the manager, ends with its row and
\* its action as they are; any other goes into the handler.
Interrupt(t) ==
    /\ runner[t].cancel
    /\ Registered(t)
    /\ runner' = [runner EXCEPT ![t] = At(IF @.pc \in {"new", "failed", "canceling", "closing"}
                                           THEN "gone" ELSE "canceling")]
    /\ UNCHANGED <<rows, action, content, users>>

MarkCanceled(t) ==
    /\ Runs(t, "canceling")
    /\ EndRow(t, "canceled")
    /\ UNCHANGED <<request, canceller, action, content, users>>

-----------------------------------------------------------------------------
(* Users *)

\* cancel_task: through the registry, or the row if no coroutine is there.
Cancel(t) ==
    /\ Active(t)
    /\ cancels < MaxCancels
    /\ cancels' = cancels + 1
    /\ task' = [task EXCEPT ![t].asked = TRUE]
    /\ IF Registered(t)
       THEN /\ runner' = [runner EXCEPT ![t].cancel = TRUE]
            /\ UNCHANGED canceller
       ELSE /\ canceller' = canceller \cup {t}
            /\ UNCHANGED runner
    /\ UNCHANGED <<request, action, content, saved, restarts>>

ForceCancel(t) ==
    /\ t \in canceller
    /\ canceller' = canceller \ {t}
    /\ task' = [task EXCEPT ![t].st = Marked(@, "canceled")]
    /\ action' = [action EXCEPT ![t] = IF @ = "running" THEN "ended" ELSE @]
    /\ UNCHANGED <<request, runner, content, users>>

\* cancel_action ends the action and only asks the registry.
CancelAction(t) ==
    /\ action[t] = "running"
    /\ cancels < MaxCancels
    /\ cancels' = cancels + 1
    /\ action' = [action EXCEPT ![t] = "ended"]
    /\ task' = [task EXCEPT ![t].asked = TRUE]
    /\ runner' = IF Registered(t) THEN [runner EXCEPT ![t].cancel = TRUE] ELSE runner
    /\ UNCHANGED <<request, canceller, content, saved, restarts>>

\* An edit gives section i a new text, under its title or one of the user's, or
\* leaves one of their own alone.
Edited(e, i, kind) ==
    LET secs == lecture.secs
        p == IF kind = "text" /\ i \in Written(secs) THEN secs[i].plan ELSE "user"
        s == [plan |-> p, edit |-> e]
    IN IF kind = "alone" THEN <<s>> ELSE Dense(Placed(secs, i, s))

\* A save is refused if the editor shows another version than the row has, and
\* else leaves a snapshot of what it replaces.
Save(e, i, kind) ==
    /\ e \notin saved
    /\ saved' = saved \cup {e}
    /\ lecture' = [lecture EXCEPT !.secs = Edited(e, i, kind), !.st = "published"]
    /\ versions' = versions \cup EditsIn(lecture.secs)
    /\ runner' = Disturbed("user")
    /\ UNCHANGED <<rows, action, cancels, restarts>>

-----------------------------------------------------------------------------
\* The process dies; mark_stale_tasks_failed runs before requests are served.
Restart ==
    /\ restarts < MaxRestarts
    /\ restarts' = restarts + 1
    /\ task' = [t \in Tasks |-> IF Active(t) THEN [task[t] EXCEPT !.st = Marked(@, "failed")]
                                ELSE task[t]]
    /\ action' = [t \in Tasks |-> IF Active(t) /\ action[t] = "running" THEN "ended"
                                  ELSE action[t]]
    /\ runner' = [t \in Tasks |-> IF runner[t].pc = "none" THEN NoRunner ELSE At("gone")]
    /\ request' = [t \in Tasks |-> IF request[t] = "none" THEN "none" ELSE "done"]
    /\ canceller' = {}
    /\ UNCHANGED <<content, saved, cancels>>

RequestStep(t) ==
    \/ Insert(t) \/ Attach(t)
    \/ \E resume \in BOOLEAN : Submit(t, resume)

Progress(t) ==
    \/ Start(t) \/ Plan(t) \/ Open(t) \/ WriteSection(t) \/ Load(t) \/ Publish(t)
    \/ Complete(t) \/ Fail(t) \/ MarkFailed(t) \/ Interrupt(t) \/ MarkCanceled(t)
    \/ Finalize(t)

Next ==
    \/ \E t \in Tasks :
          \/ LookUp(t) \/ RequestStep(t) \/ Progress(t)
          \/ Cancel(t) \/ ForceCancel(t) \/ CancelAction(t)
    \/ \E e \in Editors, i \in 1 .. NumSections, kind \in Edits : Save(e, i, kind)
    \/ Restart

Spec == Init /\ [][Next]_vars

\* The event loop runs every handler and every coroutine to its end.
FairSpec == Spec /\ \A t \in Tasks : WF_vars(RequestStep(t) \/ Progress(t))

-----------------------------------------------------------------------------
(* Properties *)

Plans == Tasks \cup {NoPlan}
Section == [plan : Tasks \cup {"user"}, edit : Editors \cup {"none"}] \cup {None}
IsText(secs) == secs \in Seq(Section)

\* The rows, the coroutines and the lecture.
BackgroundTypeOK ==
    /\ task \in [Tasks -> [st : {"none", "queued", "running", "completed", "failed", "canceled"},
                           asked : BOOLEAN]]
    /\ \A t \in Tasks :
          /\ request[t] \in {"none", "insert", "submit", "attach", "done"}
          /\ runner[t].pc \in {"none", "new", "plan", "open", "write", "load", "publish",
                               "complete", "failing", "failed", "canceling", "finalizing",
                               "closing", "gone"}
          /\ runner[t].plan \in Plans
          /\ IsText(runner[t].reads)
    /\ canceller \subseteq Tasks
    /\ action \in [Tasks -> {"none", "running", "ended"}]
    /\ lecture.st \in {"none", "draft", "published"}
    /\ IsText(lecture.secs)
    /\ lecture.plan \in Plans
    /\ versions \subseteq Editors

\* A task that nobody cancels ends, whatever fails and however often the
\* service restarts: no crash, failure or race of requests leaves an active row
\* with nobody to end it.  (Requests are bounded and a task begins once, so that
\* every task ends exactly if they all have ended at last.)
TasksEnd == <>[](\A t \in Tasks : Active(t) => task[t].asked)

\* A lecture that nobody else touched is published with every section of the
\* outline that its run followed, at its place, also when a resumed run kept
\* sections of those before.
PublishedIsWhole ==
    [][\A t \in Tasks :
          runner[t].pc = "publish" /\ runner'[t].pc = "complete" /\ runner[t].alone =>
              /\ lecture'.st = "published"
              /\ \A i \in 1 .. NumSections : lecture'.secs[i].plan = runner[t].plan]_vars

\* What a user has saved is in the lecture or in one of its versions.
EditsKept ==
    saved \subseteq versions \cup EditsIn(lecture.secs)
=============================================================================
