------------------------ MODULE BackgroundTasksProofs ------------------------
(***************************************************************************)
(* What BackgroundTasks promises for any number of requests, editors,      *)
(* sections, cancellations and restarts.                                   *)
(***************************************************************************)
EXTENDS BackgroundTasks, FiniteSetTheorems, WellFoundedInduction, TLAPS

-----------------------------------------------------------------------------
(* The invariant *)

PCs == {"none", "new", "plan", "open", "write", "load", "publish", "complete",
        "failing", "failed", "canceling", "finalizing", "closing", "gone"}
TaskRow == [st : {"none", "queued", "running", "completed", "failed", "canceled"},
            asked : BOOLEAN]
Requests == {"none", "insert", "submit", "attach", "done"}
LectureStatus == {"none", "draft", "published"}

\* The sections of a lecture are at most those of an outline.
Text == {s \in Seq(Section) : Len(s) <= NumSections}
LectureRow == [st : LectureStatus, secs : Text, plan : Plans]
RunnerRow == [pc : PCs, resume : BOOLEAN, next : Nat, plan : Plans, reads : Text,
              status : LectureStatus, cancel : BOOLEAN, alone : BOOLEAN]

BackgroundTypes ==
    /\ task \in [Tasks -> TaskRow]
    /\ request \in [Tasks -> Requests]
    /\ runner \in [Tasks -> RunnerRow]
    /\ canceller \subseteq Tasks
    /\ action \in [Tasks -> {"none", "running", "ended"}]
    /\ lecture \in LectureRow
    /\ versions \subseteq Editors

\* The first n sections are there and follow plan p.
Follows(secs, n, p) == n <= Len(secs) /\ \A j \in 1 .. n : secs[j].plan = p

\* What a coroutine r knows of the lecture l if nobody else writes it.
RowOK(r, l) ==
    /\ r.pc \in {"open", "write", "load", "publish"} => r.plan \in Tasks
    /\ r.pc = "write" => r.next \in 1 .. NumSections
    /\ r.alone =>
          /\ r.pc = "write" => Follows(l.secs, r.next - 1, r.plan)
          /\ r.pc \in {"load", "publish"} => Follows(l.secs, NumSections, r.plan)
          /\ r.pc = "publish" => r.reads = l.secs /\ r.status = l.st

\* Whoever has a task row k in hand: its request q, its coroutine r, or the user.
OwnedOK(k, r, q) ==
    /\ k.st \in {"queued", "running"} =>
          k.asked \/ r.pc \notin {"none", "gone"} \/ q = "submit"
    /\ r.cancel => k.asked
    /\ r.pc \in {"finalizing", "closing"} => k.st \notin {"queued", "running"}
    /\ q \in {"none", "insert", "submit"} => r.pc = "none"

RowsOK == \A t \in Tasks : RowOK(runner[t], lecture)
OwnersOK == \A t \in Tasks : OwnedOK(task[t], runner[t], request[t])

BackgroundInv == BackgroundTypes /\ RowsOK /\ OwnersOK

\* A task that is active and that nobody cancels is in the hands of its request
\* or of its coroutine: no failure, restart, second request or late cancellation
\* leaves it to nobody (task_manager.TaskManager, mark_stale_tasks_failed).
ActiveIsOwned ==
    \A t \in Tasks : Active(t) => task[t].asked \/ Registered(t) \/ request[t] = "submit"

-----------------------------------------------------------------------------
(* Sections and sequences of sections *)

\* The names of outlines and edits are not those of gaps and of users.
LEMMA Names == {"none", "blank", "user"} \cap (Tasks \cup Editors) = {}
  BY TasksAssumption

LEMMA Counts == NumSections \in Nat /\ NumSections > 0
  BY TasksAssumption

\* A section is a gap, or it has an outline or a user's title, and a text of the
\* outline or of an edit.
LEMMA SectionFields ==
    ASSUME NEW s \in Section
    PROVE  /\ s = None <=> s.plan = "blank"
           /\ s # None => s.plan \in Tasks \cup {"user"} /\ s.edit \in Editors \cup {"none"}
           /\ s.edit \in Editors \cup {"none"}
  <1>1. None.plan = "blank" /\ None.edit = "none"
    BY DEF None
  <1>2. CASE s = None
    BY <1>1, <1>2
  <1>3. CASE s \in [plan : Tasks \cup {"user"}, edit : Editors \cup {"none"}]
    <2>1. s.plan \in Tasks \cup {"user"} /\ s.edit \in Editors \cup {"none"}
      BY <1>3
    <2>2. s.plan # "blank"
      BY <2>1, Names
    <2>3. QED
      BY <1>1, <2>1, <2>2
  <1>4. QED
    BY <1>2, <1>3 DEF Section

LEMMA GeneratedSection == ASSUME NEW p \in Tasks PROVE Generated(p) \in Section
  BY DEF Generated, Section

\* What a lecture shows of the edits.
LEMMA EditsInEditors == ASSUME NEW secs \in Text PROVE EditsIn(secs) \subseteq Editors
  <1>1. ASSUME NEW i \in DOMAIN secs
        PROVE  secs[i].edit \in Editors \cup {"none"}
    <2>1. secs[i] \in Section
      BY <1>1 DEF Text
    <2>2. QED
      BY <2>1, SectionFields
  <1>2. QED
    BY <1>1 DEF EditsIn

\* A section goes to its place, and the others stay where they are.
LEMMA PlacedText ==
    ASSUME NEW secs \in Text, NEW i \in 1 .. NumSections, NEW s \in Section
    PROVE  /\ Placed(secs, i, s) \in Text
           /\ Len(Placed(secs, i, s)) = IF i > Len(secs) THEN i ELSE Len(secs)
           /\ Placed(secs, i, s)[i] = s
           /\ \A j \in 1 .. Len(secs) : j # i => Placed(secs, i, s)[j] = secs[j]
  <1> DEFINE n == IF i > Len(secs) THEN i ELSE Len(secs)
  <1> DEFINE new == [j \in 1 .. n |-> IF j = i THEN s
                                      ELSE IF j \in DOMAIN secs THEN secs[j] ELSE None]
  <1>1. /\ secs \in Seq(Section) /\ Len(secs) \in Nat /\ Len(secs) <= NumSections
        /\ DOMAIN secs = 1 .. Len(secs)
    BY DEF Text
  <1>2. n \in Nat /\ i \in 1 .. n /\ n <= NumSections /\ Len(secs) <= n
    BY <1>1, Counts
  <1>3. None \in Section
    BY DEF Section
  <1>4. \A j \in 1 .. n : new[j] \in Section
    BY <1>1, <1>3
  <1>5. new \in [1 .. n -> Section]
    BY <1>4
  <1>6. new \in Seq(Section) /\ Len(new) = n
    BY <1>2, <1>5
  <1>7. new[i] = s
    BY <1>2
  <1>8. \A j \in 1 .. Len(secs) : j # i => new[j] = secs[j]
    BY <1>1, <1>2
  <1>9. Placed(secs, i, s) = new
    BY DEF Placed
  <1>10. QED
    BY <1>2, <1>6, <1>7, <1>8, <1>9 DEF Text

Below == {pair \in Nat \X Nat : pair[1] < pair[2]}

\* A set of numbers that is not empty has a least one.
LEMMA Least ==
    ASSUME NEW S \in SUBSET Nat, S # {}
    PROVE  \E m \in S : \A k \in S : m <= k
  <1>1. IsWellFoundedOn(Below, Nat)
    BY NatLessThanWellFounded DEF Below, OpToRel
  <1>2. PICK m \in S : \A k \in S : ~(<<k, m>> \in Below)
    BY <1>1, WFMin
  <1>3. ASSUME NEW k \in S, ~(m <= k)
        PROVE  FALSE
    <2>1. k < m /\ k \in Nat /\ m \in Nat
      BY <1>3
    <2>2. <<k, m>>[1] = k /\ <<k, m>>[2] = m /\ <<k, m>> \in Nat \X Nat
      BY <2>1
    <2>3. <<k, m>>[1] < <<k, m>>[2]
      BY <2>1, <2>2
    <2>4. <<k, m>> \in Below
      BY <2>2, <2>3, Zenon DEF Below
    <2>5. QED
      BY <1>2, <2>4
  <1>4. QED
    BY <1>3

\* The sections up to i that are no gaps.
Upto(secs, i) == {j \in Written(secs) : j <= i}

\* The sections that are there, counted.
LEMMA WrittenIndices ==
    ASSUME NEW secs \in Text
    PROVE  /\ Written(secs) \subseteq 1 .. Len(secs)
           /\ IsFiniteSet(Written(secs))
           /\ Cardinality(Written(secs)) \in Nat
           /\ Cardinality(Written(secs)) <= Len(secs)
  <1>1. Len(secs) \in Nat /\ DOMAIN secs = 1 .. Len(secs)
    BY DEF Text
  <1>2. Written(secs) \subseteq 1 .. Len(secs)
    BY <1>1 DEF Written
  <1>3. IsFiniteSet(1 .. Len(secs)) /\ Cardinality(1 .. Len(secs)) = Len(secs)
    <2>1. 1 \in Int /\ Len(secs) \in Int
      BY <1>1
    <2>2. /\ IsFiniteSet(1 .. Len(secs))
          /\ Cardinality(1 .. Len(secs)) = IF 1 > Len(secs) THEN 0 ELSE Len(secs) - 1 + 1
      BY <2>1, FS_Interval, Zenon
    <2>3. QED
      BY <1>1, <2>2
  <1>4. IsFiniteSet(Written(secs)) /\ Cardinality(Written(secs)) <= Len(secs)
    BY <1>2, <1>3, FS_Subset
  <1>5. QED
    BY <1>2, <1>4, FS_CardinalityType

\* Among the sections that are no gaps there is a k-th one.
LEMMA Ranked ==
    ASSUME NEW secs \in Text, NEW k \in 1 .. Cardinality(Written(secs))
    PROVE  \E i \in Written(secs) : Cardinality(Upto(secs, i)) = k
  <1> DEFINE n == Len(secs)
  <1> DEFINE W == Written(secs)
  <1>1. n \in Nat /\ W \subseteq 1 .. n /\ IsFiniteSet(W) /\ Cardinality(W) \in Nat
    BY WrittenIndices DEF Text
  <1>2. ASSUME NEW i \in 0 .. n
        PROVE  IsFiniteSet(Upto(secs, i)) /\ Cardinality(Upto(secs, i)) \in Nat
    <2>1. Upto(secs, i) \subseteq W
      BY DEF Upto
    <2>2. IsFiniteSet(Upto(secs, i))
      BY <1>1, <2>1, FS_Subset
    <2>3. QED
      BY <2>2, FS_CardinalityType
  <1> DEFINE K == {i \in 0 .. n : Cardinality(Upto(secs, i)) >= k}
  <1>3. n \in K
    <2>1. Upto(secs, n) = W
      BY <1>1 DEF Upto
    <2>2. QED
      BY <1>1, <2>1
  <1>4. K \in SUBSET Nat /\ K # {}
    BY <1>1, <1>3
  <1>5. PICK m \in K : \A i \in K : m <= i
    BY <1>4, Least
  <1>6. m # 0
    <2>1. Upto(secs, 0) = {}
      BY <1>1 DEF Upto
    <2>2. Cardinality(Upto(secs, 0)) = 0
      BY <2>1, FS_EmptySet
    <2>3. QED
      BY <1>1, <2>2
  <1>7. m - 1 \in 0 .. n /\ m \in 0 .. n /\ m - 1 \notin K
    BY <1>1, <1>5, <1>6
  <1>8. Cardinality(Upto(secs, m - 1)) < k /\ Cardinality(Upto(secs, m)) >= k
    BY <1>2, <1>7
  <1>9. m \in W
    <2>1. SUFFICES ASSUME m \notin W PROVE FALSE
      OBVIOUS
    <2>2. Upto(secs, m) = Upto(secs, m - 1)
      BY <1>1, <1>7, <2>1 DEF Upto
    <2>3. QED
      BY <1>2, <1>7, <1>8, <2>2
  <1>10. Upto(secs, m) = Upto(secs, m - 1) \cup {m} /\ m \notin Upto(secs, m - 1)
    BY <1>1, <1>7, <1>9 DEF Upto
  <1>11. Cardinality(Upto(secs, m)) = Cardinality(Upto(secs, m - 1)) + 1
    BY <1>2, <1>7, <1>10, FS_AddElement
  <1>12. QED
    BY <1>2, <1>7, <1>8, <1>9, <1>11

\* Leaving the gaps out leaves sections only, no more than there were, and
\* changes nothing where there are no gaps.
LEMMA DenseText ==
    ASSUME NEW secs \in Text
    PROVE  /\ Dense(secs) \in Text
           /\ Written(secs) = 1 .. Len(secs) => Dense(secs) = secs
  <1> DEFINE n == Cardinality(Written(secs))
  <1> DEFINE At1(k) == CHOOSE i \in Written(secs) : Cardinality(Upto(secs, i)) = k
  <1>1. /\ secs \in Seq(Section) /\ Len(secs) \in Nat /\ Len(secs) <= NumSections
        /\ DOMAIN secs = 1 .. Len(secs)
    BY DEF Text
  <1>2. Dense(secs) = [k \in 1 .. n |-> secs[At1(k)]]
    BY DEF Dense, Upto
  <1>3. ASSUME NEW k \in 1 .. n
        PROVE  At1(k) \in Written(secs) /\ Cardinality(Upto(secs, At1(k))) = k
    <2>1. \E i \in Written(secs) : Cardinality(Upto(secs, i)) = k
      BY Ranked
    <2>2. QED
      BY <2>1
  <1>4. n \in Nat /\ n <= Len(secs) /\ Written(secs) \subseteq 1 .. Len(secs)
    BY WrittenIndices
  <1> HIDE DEF At1, n
  <1>5. \A k \in 1 .. n : secs[At1(k)] \in Section
    BY <1>1, <1>3, <1>4
  <1>6. Dense(secs) \in [1 .. n -> Section]
    BY <1>2, <1>5
  <1>7. Dense(secs) \in Seq(Section) /\ Len(Dense(secs)) = n
    BY <1>4, <1>6
  <1>8. Dense(secs) \in Text
    BY <1>1, <1>4, <1>7, Counts DEF Text
  <1>9. ASSUME Written(secs) = 1 .. Len(secs)
        PROVE  Dense(secs) = secs
    <2>1. ASSUME NEW i \in 1 .. Len(secs)
          PROVE  Cardinality(Upto(secs, i)) = i
      <3>1. Upto(secs, i) = 1 .. i
        BY <1>1, <1>9 DEF Upto
      <3>2. 1 \in Int /\ i \in Int /\ ~(1 > i)
        BY <1>1
      <3>3. QED
        BY <3>1, <3>2, FS_Interval
    <2>2. Len(secs) \in 1 .. Len(secs) \/ Len(secs) = 0
      BY <1>1
    <2>3. n = Len(secs)
      <3>1. 1 \in Int /\ Len(secs) \in Int
        BY <1>1
      <3>2. QED
        BY <1>1, <1>9, <3>1, FS_Interval DEF n
    <2>4. ASSUME NEW k \in 1 .. n
          PROVE  At1(k) = k
      BY <1>3, <1>9, <2>1, <2>4
    <2>5. QED
      BY <1>1, <1>2, <2>3, <2>4
  <1>10. QED
    BY <1>8, <1>9

-----------------------------------------------------------------------------
(* One step of one task *)

\* A step of one task leaves the rows of the others alone: what it writes into
\* the lecture only ends that they were the only ones to write it.
LEMMA TaskStep ==
    ASSUME BackgroundInv, NEW t \in Tasks, BackgroundTypes',
           \A u \in Tasks \ {t} : task'[u] = task[u] /\ request'[u] = request[u],
           \A u \in Tasks \ {t} :
              \/ runner'[u] = runner[u] /\ lecture' = lecture
              \/ runner'[u] = [runner[u] EXCEPT !.alone = FALSE],
           RowOK(runner'[t], lecture'),
           OwnedOK(task'[t], runner'[t], request'[t])
    PROVE  BackgroundInv'
  <1>1. ASSUME NEW u \in Tasks \ {t}
        PROVE  RowOK(runner'[u], lecture') /\ OwnedOK(task'[u], runner'[u], request'[u])
    <2>1. RowOK(runner[u], lecture) /\ OwnedOK(task[u], runner[u], request[u])
      BY DEF BackgroundInv, RowsOK, OwnersOK
    <2>2. task'[u] = task[u] /\ request'[u] = request[u]
      OBVIOUS
    <2>3. CASE runner'[u] = runner[u] /\ lecture' = lecture
      BY <2>1, <2>2, <2>3
    <2>4. CASE runner'[u] = [runner[u] EXCEPT !.alone = FALSE]
      <3>1. runner[u] \in RunnerRow
        BY DEF BackgroundInv, BackgroundTypes
      <3>2. /\ runner'[u].alone = FALSE /\ runner'[u].pc = runner[u].pc
            /\ runner'[u].plan = runner[u].plan /\ runner'[u].next = runner[u].next
            /\ runner'[u].cancel = runner[u].cancel
        BY <2>4, <3>1 DEF RunnerRow
      <3>3. QED
        BY <2>1, <2>2, <3>2 DEF RowOK, OwnedOK
    <2>5. QED
      BY <2>3, <2>4
  <1>2. RowsOK' /\ OwnersOK'
    BY <1>1 DEF RowsOK, OwnersOK
  <1>3. QED
    BY <1>2 DEF BackgroundInv

\* The rows and the coroutine of one task.
LEMMA TaskFields ==
    ASSUME BackgroundInv, NEW t \in Tasks
    PROVE  /\ task[t] \in TaskRow /\ request[t] \in Requests /\ runner[t] \in RunnerRow
           /\ action[t] \in {"none", "running", "ended"} /\ lecture \in LectureRow
           /\ RowOK(runner[t], lecture) /\ OwnedOK(task[t], runner[t], request[t])
  BY DEF BackgroundInv, BackgroundTypes, RowsOK, OwnersOK

\* No coroutine.
LEMMA NoRunnerRow ==
    /\ NoRunner \in RunnerRow /\ NoRunner.pc = "none"
    /\ ~NoRunner.alone /\ ~NoRunner.cancel
  <1>1. <<>> \in Text
    BY Counts DEF Text
  <1>2. QED
    BY <1>1 DEF NoRunner, RunnerRow, PCs, LectureStatus, Plans

\* A coroutine that has nothing of the lecture in hand.
LEMMA AtRow ==
    ASSUME NEW pc \in PCs
    PROVE  At(pc) \in RunnerRow /\ At(pc).pc = pc /\ ~At(pc).alone /\ ~At(pc).cancel
  BY NoRunnerRow DEF At, RunnerRow

\* ... and of which nothing is required but an owner for its row.
LEMMA AtOK ==
    ASSUME NEW pc \in {"new", "complete", "failing", "failed", "canceling", "finalizing",
                       "closing", "gone"}, NEW l
    PROVE  RowOK(At(pc), l)
  BY AtRow DEF PCs, RowOK

\* The others learn that they are not alone.
LEMMA DisturbedRows ==
    ASSUME BackgroundInv, NEW t
    PROVE  /\ Disturbed(t) \in [Tasks -> RunnerRow]
           /\ \A u \in Tasks : u # t => Disturbed(t)[u] = [runner[u] EXCEPT !.alone = FALSE]
           /\ t \in Tasks => Disturbed(t)[t] = runner[t]
  <1>1. \A u \in Tasks : [runner[u] EXCEPT !.alone = FALSE] \in RunnerRow
    BY DEF BackgroundInv, BackgroundTypes, RunnerRow
  <1>2. QED
    BY <1>1 DEF Disturbed, BackgroundInv, BackgroundTypes

-----------------------------------------------------------------------------
(* Requests *)

\* A request for which no task is active goes on to insert one ...
LEMMA LookUpKeeps ==
    ASSUME BackgroundInv, NEW t \in Tasks, LookUp(t)
    PROVE  BackgroundInv'
  <1>1. request' = [request EXCEPT ![t] = "insert"] /\ request[t] = "none"
        /\ UNCHANGED <<task, runner, canceller, action, lecture, versions>>
    BY DEF LookUp, content
  <1>2. BackgroundTypes'
    BY <1>1 DEF BackgroundInv, BackgroundTypes, Requests
  <1>3. request'[t] = "insert" /\ \A u \in Tasks \ {t} : request'[u] = request[u]
    BY <1>1 DEF BackgroundInv, BackgroundTypes
  <1>4. RowOK(runner'[t], lecture') /\ OwnedOK(task'[t], runner'[t], request'[t])
    BY <1>1, <1>3, TaskFields DEF OwnedOK
  <1>5. QED
    BY <1>1, <1>2, <1>3, <1>4, TaskStep

\* ... whose row is its own until it submits the runner.
LEMMA InsertKeeps ==
    ASSUME BackgroundInv, NEW t \in Tasks, Insert(t)
    PROVE  BackgroundInv'
  <1>1. /\ request[t] = "insert" /\ request' = [request EXCEPT ![t] = "submit"]
        /\ task' = [task EXCEPT ![t].st = "queued"]
        /\ UNCHANGED <<runner, canceller, action, lecture, versions>>
    BY DEF Insert, content
  <1>2. [task[t] EXCEPT !.st = "queued"] \in TaskRow
    BY TaskFields DEF TaskRow
  <1>3. BackgroundTypes'
    BY <1>1, <1>2 DEF BackgroundInv, BackgroundTypes, Requests
  <1>4. /\ request'[t] = "submit" /\ task'[t] = [task[t] EXCEPT !.st = "queued"]
        /\ \A u \in Tasks \ {t} : request'[u] = request[u] /\ task'[u] = task[u]
    BY <1>1 DEF BackgroundInv, BackgroundTypes
  <1>5. task'[t].st = "queued" /\ task'[t].asked = task[t].asked
    BY <1>4, TaskFields DEF TaskRow
  <1>6. RowOK(runner'[t], lecture') /\ OwnedOK(task'[t], runner'[t], request'[t])
    BY <1>1, <1>4, <1>5, TaskFields DEF OwnedOK
  <1>7. QED
    BY <1>1, <1>3, <1>4, <1>6, TaskStep

LEMMA SubmitKeeps ==
    ASSUME BackgroundInv, NEW t \in Tasks, NEW resume \in BOOLEAN, Submit(t, resume)
    PROVE  BackgroundInv'
  <1> DEFINE r == [runner[t] EXCEPT !.pc = "new", !.resume = resume]
  <1> DEFINE q == IF t \in Tutored THEN "attach" ELSE "done"
  <1>1. /\ request[t] = "submit" /\ request' = [request EXCEPT ![t] = q]
        /\ runner' = [runner EXCEPT ![t].pc = "new", ![t].resume = resume]
        /\ UNCHANGED <<task, canceller, action, lecture, versions>>
    BY DEF Submit, content
  <1>2. /\ r \in RunnerRow /\ r.pc = "new" /\ r.cancel = runner[t].cancel
        /\ r.alone = runner[t].alone
    BY TaskFields DEF RunnerRow, PCs
  <1>3. q \in {"attach", "done"}
    OBVIOUS
  <1>4. runner'[t] = r /\ \A u \in Tasks \ {t} : runner'[u] = runner[u]
    BY <1>1 DEF BackgroundInv, BackgroundTypes
  <1> HIDE DEF r, q
  <1>5. request' \in [Tasks -> Requests] /\ request'[t] = q
        /\ \A u \in Tasks \ {t} : request'[u] = request[u]
    BY <1>1, <1>3 DEF BackgroundInv, BackgroundTypes, Requests
  <1>6. runner' \in [Tasks -> RunnerRow]
    BY <1>1, <1>2, <1>4 DEF BackgroundInv, BackgroundTypes
  <1>7. BackgroundTypes'
    BY <1>1, <1>5, <1>6 DEF BackgroundInv, BackgroundTypes
  <1>8. RowOK(runner'[t], lecture')
    BY <1>2, <1>4 DEF RowOK
  <1>9. OwnedOK(task'[t], runner'[t], request'[t])
    BY <1>1, <1>2, <1>3, <1>4, <1>5, TaskFields DEF OwnedOK
  <1>10. QED
    BY <1>1, <1>4, <1>5, <1>7, <1>8, <1>9, TaskStep

LEMMA AttachKeeps ==
    ASSUME BackgroundInv, NEW t \in Tasks, Attach(t)
    PROVE  BackgroundInv'
  <1>1. /\ request[t] = "attach" /\ request' = [request EXCEPT ![t] = "done"]
        /\ action' = [action EXCEPT ![t] = "running"]
        /\ UNCHANGED <<task, runner, canceller, lecture, versions>>
    BY DEF Attach, content
  <1>2. BackgroundTypes'
    BY <1>1 DEF BackgroundInv, BackgroundTypes, Requests
  <1>3. request'[t] = "done" /\ \A u \in Tasks \ {t} : request'[u] = request[u]
    BY <1>1 DEF BackgroundInv, BackgroundTypes
  <1>4. RowOK(runner'[t], lecture') /\ OwnedOK(task'[t], runner'[t], request'[t])
    BY <1>1, <1>3, TaskFields DEF OwnedOK
  <1>5. QED
    BY <1>1, <1>2, <1>3, <1>4, TaskStep

-----------------------------------------------------------------------------
(* The runner *)

\* A row that a coroutine or a user ends is not active, and the coroutine is gone
\* or left to finalize the tutor's action.
LEMMA EndRowMoves ==
    ASSUME BackgroundInv, NEW t \in Tasks,
           NEW new \in {"completed", "failed", "canceled"}, EndRow(t, new),
           runner[t].pc # "none", UNCHANGED <<request, canceller, action, content, users>>
    PROVE  BackgroundInv'
  <1> DEFINE pc == IF action[t] # "running" THEN "gone"
                   ELSE IF runner[t].pc \in {"complete", "failing"} THEN "finalizing"
                   ELSE "closing"
  <1>1. /\ task' = [task EXCEPT ![t].st = new]
        /\ runner' = [runner EXCEPT ![t] = At(pc)]
        /\ UNCHANGED <<request, canceller, action, lecture, versions>>
    BY DEF EndRow, Marked, content
  <1>2. pc \in {"finalizing", "closing", "gone"}
    OBVIOUS
  <1> HIDE DEF pc
  <1>3. [task[t] EXCEPT !.st = new] \in TaskRow /\ [task[t] EXCEPT !.st = new].st = new
    BY TaskFields DEF TaskRow
  <1>4. /\ task'[t] = [task[t] EXCEPT !.st = new] /\ runner'[t] = At(pc)
        /\ \A u \in Tasks \ {t} : task'[u] = task[u] /\ runner'[u] = runner[u]
    BY <1>1 DEF BackgroundInv, BackgroundTypes
  <1>5. At(pc) \in RunnerRow /\ At(pc).pc = pc /\ ~At(pc).alone /\ ~At(pc).cancel
    BY <1>2, AtRow DEF PCs
  <1>6. BackgroundTypes'
    BY <1>1, <1>3, <1>5 DEF BackgroundInv, BackgroundTypes
  <1>7. RowOK(runner'[t], lecture')
    BY <1>2, <1>4, AtOK
  <1>8. OwnedOK(task'[t], runner'[t], request'[t])
    BY <1>1, <1>2, <1>3, <1>4, <1>5, TaskFields DEF OwnedOK
  <1>9. QED
    BY <1>1, <1>4, <1>6, <1>7, <1>8, TaskStep

\* A coroutine goes to a place where it has nothing of the lecture in hand.
LEMMA MoveKeeps ==
    ASSUME BackgroundInv, NEW t \in Tasks,
           NEW pc \in {"complete", "failing", "failed", "canceling", "gone"},
           runner[t].pc # "none", runner' = [runner EXCEPT ![t] = At(pc)],
           pc = "gone" => task[t].asked \/ task[t].st \notin {"queued", "running"},
           UNCHANGED <<task, request, canceller, lecture, versions>>,
           action' \in [Tasks -> {"none", "running", "ended"}]
    PROVE  BackgroundInv'
  <1>1. At(pc) \in RunnerRow /\ At(pc).pc = pc /\ ~At(pc).alone /\ ~At(pc).cancel
    BY AtRow DEF PCs
  <1>2. runner'[t] = At(pc) /\ \A u \in Tasks \ {t} : runner'[u] = runner[u]
    BY DEF BackgroundInv, BackgroundTypes
  <1>3. BackgroundTypes'
    BY <1>1 DEF BackgroundInv, BackgroundTypes
  <1>4. RowOK(runner'[t], lecture')
    BY <1>2, AtOK
  <1>5. OwnedOK(task'[t], runner'[t], request'[t])
    BY <1>1, <1>2, TaskFields DEF OwnedOK
  <1>6. QED
    BY <1>2, <1>3, <1>4, <1>5, TaskStep

\* What is finalized is no longer active.
LEMMA FinalizeKeeps ==
    ASSUME BackgroundInv, NEW t \in Tasks, Finalize(t)
    PROVE  BackgroundInv'
  <1>1. /\ runner[t].pc \in {"finalizing", "closing"}
        /\ runner' = [runner EXCEPT ![t] = At("gone")]
        /\ action' = [action EXCEPT ![t] = "ended"]
        /\ UNCHANGED <<task, request, canceller, lecture, versions>>
    BY DEF Finalize, Runs, rows, content
  <1>2. action' \in [Tasks -> {"none", "running", "ended"}]
    BY <1>1 DEF BackgroundInv, BackgroundTypes
  <1>3. task[t].st \notin {"queued", "running"}
    BY <1>1, TaskFields DEF OwnedOK
  <1>4. QED
    BY <1>1, <1>2, <1>3, MoveKeeps

\* The runner takes the row over, also one that was cancelled before.
LEMMA StartKeeps ==
    ASSUME BackgroundInv, NEW t \in Tasks, Start(t)
    PROVE  BackgroundInv'
  <1> DEFINE r == [runner[t] EXCEPT !.pc = "plan"]
  <1> DEFINE k == [task[t] EXCEPT !.st = "running"]
  <1>1. /\ runner[t].pc = "new" /\ task' = [task EXCEPT ![t].st = "running"]
        /\ runner' = [runner EXCEPT ![t].pc = "plan"]
        /\ UNCHANGED <<request, canceller, action, lecture, versions>>
    BY DEF Start, Runs, Marked, content
  <1>2. r \in RunnerRow /\ r.pc = "plan" /\ r.cancel = runner[t].cancel
    BY TaskFields DEF RunnerRow, PCs
  <1>3. k \in TaskRow /\ k.asked = task[t].asked
    BY TaskFields DEF TaskRow
  <1>4. /\ runner'[t] = r /\ task'[t] = k
        /\ \A u \in Tasks \ {t} : task'[u] = task[u] /\ runner'[u] = runner[u]
    BY <1>1 DEF BackgroundInv, BackgroundTypes
  <1>5. BackgroundTypes'
    BY <1>1, <1>2, <1>3 DEF BackgroundInv, BackgroundTypes
  <1> HIDE DEF r, k
  <1>6. RowOK(runner'[t], lecture')
    BY <1>2, <1>4 DEF RowOK
  <1>7. OwnedOK(task'[t], runner'[t], request'[t])
    BY <1>1, <1>2, <1>3, <1>4, TaskFields DEF OwnedOK
  <1>8. QED
    BY <1>1, <1>4, <1>5, <1>6, <1>7, TaskStep

\* The coroutine alone moves, and goes on: its row stays as it is.
LEMMA GoOn ==
    ASSUME BackgroundInv, NEW t \in Tasks, NEW r \in RunnerRow,
           \/ runner' = [runner EXCEPT ![t] = r] /\ lecture' = lecture
           \/ runner' = [Disturbed(t) EXCEPT ![t] = r],
           runner[t].pc \notin {"none", "gone", "finalizing", "closing"},
           r.pc \notin {"none", "gone", "finalizing", "closing"}, ~r.cancel,
           lecture' \in LectureRow, RowOK(r, lecture'), versions' \subseteq Editors,
           UNCHANGED <<task, request, canceller, action>>
    PROVE  BackgroundInv'
  <1>1. CASE runner' = [runner EXCEPT ![t] = r] /\ lecture' = lecture
    <2>1. /\ runner' \in [Tasks -> RunnerRow] /\ runner'[t] = r
          /\ \A u \in Tasks \ {t} : runner'[u] = runner[u]
      BY <1>1 DEF BackgroundInv, BackgroundTypes
    <2>2. BackgroundTypes'
      BY <2>1 DEF BackgroundInv, BackgroundTypes
    <2>3. OwnedOK(task'[t], runner'[t], request'[t])
      BY <2>1, TaskFields DEF OwnedOK
    <2>4. QED
      BY <1>1, <2>1, <2>2, <2>3, TaskStep
  <1>2. CASE runner' = [Disturbed(t) EXCEPT ![t] = r]
    <2>0. /\ Disturbed(t) \in [Tasks -> RunnerRow]
          /\ \A u \in Tasks : u # t => Disturbed(t)[u] = [runner[u] EXCEPT !.alone = FALSE]
      BY DisturbedRows
    <2>1. /\ runner' \in [Tasks -> RunnerRow] /\ runner'[t] = r
          /\ \A u \in Tasks \ {t} : runner'[u] = [runner[u] EXCEPT !.alone = FALSE]
      <3>1. runner' \in [Tasks -> RunnerRow] /\ runner'[t] = r
        BY <1>2, <2>0
      <3>2. \A u \in Tasks \ {t} : runner'[u] = Disturbed(t)[u]
        BY <1>2, <2>0
      <3>3. QED
        BY <2>0, <3>1, <3>2
    <2>2. BackgroundTypes'
      BY <2>1 DEF BackgroundInv, BackgroundTypes
    <2>3. OwnedOK(task'[t], runner'[t], request'[t])
      BY <2>1, TaskFields DEF OwnedOK
    <2>4. QED
      BY <2>1, <2>2, <2>3, TaskStep
  <1>3. QED
    BY <1>1, <1>2

\* It follows the outline of the lecture or its own.
LEMMA PlanKeeps ==
    ASSUME BackgroundInv, NEW t \in Tasks, Plan(t)
    PROVE  BackgroundInv'
  <1> DEFINE p == IF runner[t].resume /\ lecture.plan # NoPlan THEN lecture.plan ELSE t
  <1> DEFINE r == [runner[t] EXCEPT !.pc = "open", !.plan = p]
  <1>1. /\ runner[t].pc = "plan" /\ ~runner[t].cancel
        /\ runner' = [runner EXCEPT ![t].pc = "open", ![t].plan = p]
        /\ UNCHANGED <<task, request, canceller, action, lecture, versions>>
    BY DEF Plan, Runs, rows, content
  <1>2. p \in Tasks
    BY TaskFields DEF LectureRow, Plans
  <1> HIDE DEF p
  <1>3. /\ r \in RunnerRow /\ r.pc = "open" /\ r.plan = p /\ ~r.cancel
    BY <1>1, <1>2, TaskFields DEF RunnerRow, PCs, Plans
  <1>4. runner' = [runner EXCEPT ![t] = r]
    BY <1>1 DEF BackgroundInv, BackgroundTypes
  <1> HIDE DEF r
  <1>5. RowOK(r, lecture')
    BY <1>2, <1>3 DEF RowOK
  <1>6. lecture' \in LectureRow /\ versions' \subseteq Editors
    BY <1>1 DEF BackgroundInv, BackgroundTypes
  <1>7. QED
    BY <1>1, <1>3, <1>4, <1>5, <1>6, GoOn

\* A run opens the lecture with no section of its own, and alone.
LEMMA OpenKeeps ==
    ASSUME BackgroundInv, NEW t \in Tasks, Open(t)
    PROVE  BackgroundInv'
  <1> DEFINE made == IF lecture = NoLecture THEN [NoLecture EXCEPT !.st = "draft"]
                     ELSE lecture
  <1> DEFINE kept == IF runner[t].resume THEN made
                     ELSE [st |-> "draft", secs |-> <<>>, plan |-> runner[t].plan]
  <1> DEFINE reads == IF runner[t].resume THEN kept.secs ELSE <<>>
  <1> DEFINE r == [runner[t] EXCEPT !.pc = "write", !.next = 1, !.reads = reads,
                                    !.alone = TRUE]
  <1>1. /\ runner[t].pc = "open" /\ ~runner[t].cancel /\ lecture' = kept
        /\ versions' = versions \cup (IF runner[t].resume THEN {} ELSE Snapshot(lecture))
        /\ runner' = [Disturbed(t) EXCEPT ![t].pc = "write", ![t].next = 1,
                                          ![t].reads = reads, ![t].alone = TRUE]
        /\ UNCHANGED <<task, request, canceller, action>>
    BY DEF Open, Runs, rows
  <1>2. runner[t].plan \in Tasks
    BY <1>1, TaskFields DEF RowOK
  <1>3. <<>> \in Text
    BY Counts DEF Text
  <1>4. made \in LectureRow
    BY <1>3, TaskFields DEF NoLecture, LectureRow, LectureStatus
  <1> HIDE DEF made
  <1>5. kept \in LectureRow
    BY <1>2, <1>3, <1>4 DEF LectureRow, LectureStatus, Plans
  <1> HIDE DEF kept
  <1>6. reads \in Text
    BY <1>3, <1>5 DEF LectureRow
  <1> HIDE DEF reads
  <1>7. /\ r \in RunnerRow /\ r.pc = "write" /\ r.plan = runner[t].plan /\ r.next = 1
        /\ ~r.cancel
    BY <1>1, <1>6, TaskFields DEF RunnerRow, PCs
  <1>8. runner' = [Disturbed(t) EXCEPT ![t] = r]
    BY <1>1, DisturbedRows
  <1> HIDE DEF r
  <1>9. Len(kept.secs) \in Nat
    BY <1>5 DEF LectureRow, Text
  <1>10. Follows(kept.secs, 1 - 1, r.plan)
    BY <1>9 DEF Follows
  <1>11. RowOK(r, lecture')
    BY <1>1, <1>2, <1>7, <1>10, Counts DEF RowOK
  <1>12. versions' \subseteq Editors
    <2>1. lecture.secs \in Text
      BY TaskFields DEF LectureRow
    <2>2. EditsIn(lecture.secs) \subseteq Editors
      BY <2>1, EditsInEditors
    <2>3. QED
      BY <1>1, <2>2 DEF Snapshot, BackgroundInv, BackgroundTypes
  <1>13. QED
    BY <1>1, <1>5, <1>7, <1>8, <1>11, <1>12, GoOn

\* A section goes to the place that comes next, under the outline of its run: one
\* that was kept as well.  After the last the lecture follows the outline.
LEMMA WriteKeeps ==
    ASSUME BackgroundInv, NEW t \in Tasks, WriteSection(t)
    PROVE  BackgroundInv'
  <1> DEFINE i == runner[t].next
  <1> DEFINE s == IF Reused(t, i) THEN runner[t].reads[i] ELSE Generated(runner[t].plan)
  <1> DEFINE pc == IF i = NumSections THEN "load" ELSE "write"
  <1> DEFINE new == Placed(lecture.secs, i, s)
  <1> DEFINE r == [runner[t] EXCEPT !.next = i + 1, !.pc = pc]
  <1>1. /\ runner[t].pc = "write" /\ ~runner[t].cancel
        /\ lecture' = [lecture EXCEPT !.secs = Placed(@, i, s), !.st = "draft"]
        /\ runner' = [Disturbed(t) EXCEPT ![t].next = i + 1, ![t].pc = pc]
        /\ UNCHANGED <<task, request, canceller, action, versions>>
    BY DEF WriteSection, Runs, rows
  <1>2. runner[t].plan \in Tasks /\ i \in 1 .. NumSections
    BY <1>1, TaskFields DEF RowOK
  <1>3. lecture.secs \in Text /\ runner[t].reads \in Text
    BY TaskFields DEF LectureRow, RunnerRow
  <1>4. s \in Section /\ s.plan = runner[t].plan
    <2>1. CASE Reused(t, i)
      <3>1. s = runner[t].reads[i] /\ i \in DOMAIN runner[t].reads
            /\ runner[t].reads[i].plan = runner[t].plan
        BY <2>1 DEF Reused
      <3>2. runner[t].reads[i] \in Section
        BY <1>3, <3>1 DEF Text
      <3>3. QED
        BY <3>1, <3>2
    <2>2. CASE ~Reused(t, i)
      <3>1. s = Generated(runner[t].plan)
        BY <2>2
      <3>2. Generated(runner[t].plan).plan = runner[t].plan
        BY DEF Generated
      <3>3. QED
        BY <1>2, <3>1, <3>2, GeneratedSection
    <2>3. QED
      BY <2>1, <2>2
  <1> HIDE DEF s
  <1>5. /\ new \in Text /\ new[i] = s
        /\ Len(new) = IF i > Len(lecture.secs) THEN i ELSE Len(lecture.secs)
        /\ \A j \in 1 .. Len(lecture.secs) : j # i => new[j] = lecture.secs[j]
    BY <1>2, <1>3, <1>4, PlacedText
  <1> HIDE DEF new
  <1>6. lecture' = [lecture EXCEPT !.secs = new, !.st = "draft"]
    BY <1>1 DEF new
  <1>7. lecture' \in LectureRow /\ lecture'.secs = new
    BY <1>5, <1>6, TaskFields DEF LectureRow, LectureStatus
  <1>8. (pc = "load" /\ i = NumSections) \/ (pc = "write" /\ i # NumSections)
    OBVIOUS
  <1> HIDE DEF pc
  <1>9. /\ r \in RunnerRow /\ r.pc = pc /\ r.plan = runner[t].plan /\ r.next = i + 1
        /\ r.alone = runner[t].alone /\ r.cancel = runner[t].cancel
    <2>1. pc \in PCs
      BY <1>8 DEF PCs
    <2>2. i + 1 \in Nat
      BY <1>2, Counts
    <2>3. runner[t] \in RunnerRow
      BY TaskFields
    <2>4. QED
      BY <2>1, <2>2, <2>3 DEF RunnerRow
  <1>10. runner' = [Disturbed(t) EXCEPT ![t] = r]
    BY <1>1, DisturbedRows
  <1> HIDE DEF r
  <1>11. r.alone => Follows(new, i, r.plan)
    <2>1. ASSUME r.alone
          PROVE  Follows(lecture.secs, i - 1, r.plan)
      BY <1>1, <1>9, <2>1, TaskFields DEF RowOK
    <2>2. Len(lecture.secs) \in Nat
      BY <1>3 DEF Text
    <2>3. i \in Nat /\ i - 1 \in Nat
      BY <1>2, Counts
    <2>4. i <= Len(new)
      BY <1>5, <2>2, <2>3
    <2>5. ASSUME r.alone, NEW j \in 1 .. i
          PROVE  new[j].plan = r.plan
      <3>1. i - 1 <= Len(lecture.secs) /\ \A m \in 1 .. i - 1 : lecture.secs[m].plan = r.plan
        BY <2>1, <2>5 DEF Follows
      <3>2. CASE j = i
        BY <1>4, <1>5, <1>9, <3>2
      <3>3. CASE j # i
        <4>1. j \in 1 .. i - 1 /\ j \in 1 .. Len(lecture.secs)
          BY <2>2, <2>3, <3>1, <3>3
        <4>2. QED
          BY <1>5, <3>1, <3>3, <4>1
      <3>4. QED
        BY <3>2, <3>3
    <2>6. QED
      BY <2>4, <2>5 DEF Follows
  <1>12. RowOK(r, lecture')
    <2>1. i + 1 - 1 = i
      BY <1>2, Counts
    <2>2. pc = "write" => i + 1 \in 1 .. NumSections
      BY <1>2, <1>8, Counts
    <2>3. QED
      BY <1>2, <1>7, <1>8, <1>9, <1>11, <2>1, <2>2 DEF RowOK
  <1>13. r.pc \notin {"none", "gone", "finalizing", "closing"} /\ ~r.cancel
    BY <1>1, <1>8, <1>9
  <1>14. versions' \subseteq Editors
    BY <1>1 DEF BackgroundInv, BackgroundTypes
  <1>15. QED
    BY <1>1, <1>7, <1>9, <1>10, <1>12, <1>13, <1>14, GoOn

\* What is loaded is what the lecture has.
LEMMA LoadKeeps ==
    ASSUME BackgroundInv, NEW t \in Tasks, Load(t)
    PROVE  BackgroundInv'
  <1> DEFINE r == [runner[t] EXCEPT !.pc = "publish", !.reads = lecture.secs,
                                    !.status = lecture.st]
  <1>1. /\ runner[t].pc = "load" /\ ~runner[t].cancel
        /\ runner' = [runner EXCEPT ![t].pc = "publish", ![t].reads = lecture.secs,
                                    ![t].status = lecture.st]
        /\ UNCHANGED <<task, request, canceller, action, lecture, versions>>
    BY DEF Load, Runs, rows, content
  <1>2. lecture.secs \in Text /\ lecture.st \in LectureStatus
    BY TaskFields DEF LectureRow
  <1>3. /\ r \in RunnerRow /\ r.pc = "publish" /\ r.plan = runner[t].plan
        /\ r.alone = runner[t].alone /\ ~r.cancel
        /\ r.reads = lecture.secs /\ r.status = lecture.st
    BY <1>1, <1>2, TaskFields DEF RunnerRow, PCs
  <1>4. runner' = [runner EXCEPT ![t] = r]
    BY <1>1 DEF BackgroundInv, BackgroundTypes
  <1> HIDE DEF r
  <1>5. RowOK(r, lecture')
    BY <1>1, <1>3, TaskFields DEF RowOK
  <1>6. lecture' \in LectureRow /\ versions' \subseteq Editors
    BY <1>1 DEF BackgroundInv, BackgroundTypes
  <1>7. QED
    BY <1>1, <1>3, <1>4, <1>5, <1>6, GoOn

\* The lecture without its gaps.
LEMMA PublishKeeps ==
    ASSUME BackgroundInv, NEW t \in Tasks, Publish(t)
    PROVE  BackgroundInv'
  <1> DEFINE whole == Dense(runner[t].reads)
  <1> DEFINE secs == IF whole = runner[t].reads THEN lecture.secs ELSE whole
  <1> DEFINE st == IF runner[t].status = "published" THEN lecture.st ELSE "published"
  <1>1. /\ runner[t].pc = "publish" /\ ~runner[t].cancel
        /\ lecture' = [lecture EXCEPT !.secs = secs, !.st = st]
        /\ runner' = [Disturbed(t) EXCEPT ![t] = At("complete")]
        /\ UNCHANGED <<task, request, canceller, action, versions>>
    BY DEF Publish, Runs, rows
  <1>2. runner[t].reads \in Text
    BY TaskFields DEF RunnerRow
  <1>3. secs \in Text
    BY <1>2, DenseText, TaskFields DEF LectureRow
  <1>4. st \in LectureStatus
    BY TaskFields DEF LectureRow, LectureStatus
  <1> HIDE DEF secs, st
  <1>5. lecture' \in LectureRow
    BY <1>1, <1>3, <1>4, TaskFields DEF LectureRow
  <1>6. /\ At("complete") \in RunnerRow /\ At("complete").pc = "complete"
        /\ ~At("complete").cancel
    BY AtRow DEF PCs
  <1>7. RowOK(At("complete"), lecture')
    BY AtOK
  <1>8. versions' \subseteq Editors
    BY <1>1 DEF BackgroundInv, BackgroundTypes
  <1>9. QED
    BY <1>1, <1>5, <1>6, <1>7, <1>8, GoOn

\* The row ends with the coroutine.
LEMMA CompleteKeeps ==
    ASSUME BackgroundInv, NEW t \in Tasks, Complete(t)
    PROVE  BackgroundInv'
  <1>1. runner[t].pc # "none" /\ EndRow(t, "completed")
        /\ UNCHANGED <<request, canceller, action, content, users>>
    BY DEF Complete, Runs
  <1>2. QED
    BY <1>1, EndRowMoves

\* A failure leaves a coroutine to mark the row, or to none if it is marked.
LEMMA FailKeeps ==
    ASSUME BackgroundInv, NEW t \in Tasks, Fail(t)
    PROVE  BackgroundInv'
  <1>1. PICK pc \in {"failing", "failed", "gone"} :
           /\ pc = "gone" => runner[t].pc = "closing"
           /\ runner' = [runner EXCEPT ![t] = At(pc)]
    BY DEF Fail
  <1>2. runner[t].pc # "none" /\ UNCHANGED <<task, request, canceller, action, lecture, versions>>
    BY DEF Fail, rows, content
  <1>3. pc = "gone" => task[t].st \notin {"queued", "running"}
    BY <1>1, TaskFields DEF OwnedOK
  <1>4. action' \in [Tasks -> {"none", "running", "ended"}]
    BY <1>2 DEF BackgroundInv, BackgroundTypes
  <1>5. QED
    BY <1>1, <1>2, <1>3, <1>4, MoveKeeps

LEMMA MarkFailedKeeps ==
    ASSUME BackgroundInv, NEW t \in Tasks, MarkFailed(t)
    PROVE  BackgroundInv'
  <1>1. runner[t].pc # "none" /\ EndRow(t, "failed")
        /\ UNCHANGED <<request, canceller, action, content, users>>
    BY DEF MarkFailed
  <1>2. QED
    BY <1>1, EndRowMoves

\* Only a cancelled coroutine goes with its row as it is.
LEMMA InterruptKeeps ==
    ASSUME BackgroundInv, NEW t \in Tasks, Interrupt(t)
    PROVE  BackgroundInv'
  <1> DEFINE pc == IF runner[t].pc \in {"new", "failed", "canceling", "closing"} THEN "gone"
                   ELSE "canceling"
  <1>1. /\ runner[t].cancel /\ runner[t].pc # "none"
        /\ runner' = [runner EXCEPT ![t] = At(pc)]
        /\ UNCHANGED <<task, request, canceller, action, lecture, versions>>
    BY DEF Interrupt, Registered, rows, content, BackgroundInv, BackgroundTypes
  <1>2. pc \in {"gone", "canceling"}
    OBVIOUS
  <1> HIDE DEF pc
  <1>3. task[t].asked
    BY <1>1, TaskFields DEF OwnedOK
  <1>4. action' \in [Tasks -> {"none", "running", "ended"}]
    BY <1>1 DEF BackgroundInv, BackgroundTypes
  <1>5. QED
    BY <1>1, <1>2, <1>3, <1>4, MoveKeeps

LEMMA MarkCanceledKeeps ==
    ASSUME BackgroundInv, NEW t \in Tasks, MarkCanceled(t)
    PROVE  BackgroundInv'
  <1>1. runner[t].pc # "none" /\ EndRow(t, "canceled")
        /\ UNCHANGED <<request, canceller, action, content, users>>
    BY DEF MarkCanceled, Runs
  <1>2. QED
    BY <1>1, EndRowMoves

-----------------------------------------------------------------------------
(* Users and the process *)

\* CancelledError is on its way, or nothing is.
LEMMA AskedKeeps ==
    ASSUME BackgroundInv, NEW t \in Tasks, task' = [task EXCEPT ![t].asked = TRUE],
           \/ runner' = [runner EXCEPT ![t].cancel = TRUE]
           \/ runner' = runner,
           canceller' \subseteq Tasks,
           action' \in [Tasks -> {"none", "running", "ended"}],
           UNCHANGED <<request, lecture, versions>>
    PROVE  BackgroundInv'
  <1> DEFINE k == [task[t] EXCEPT !.asked = TRUE]
  <1> DEFINE r == [runner[t] EXCEPT !.cancel = TRUE]
  <1>1. k \in TaskRow /\ k.asked /\ k.st = task[t].st
    BY TaskFields DEF TaskRow
  <1>2. /\ r \in RunnerRow /\ r.pc = runner[t].pc /\ r.plan = runner[t].plan
        /\ r.next = runner[t].next /\ r.alone = runner[t].alone
        /\ r.reads = runner[t].reads /\ r.status = runner[t].status
    BY TaskFields DEF RunnerRow
  <1>3. task'[t] = k /\ \A u \in Tasks \ {t} : task'[u] = task[u]
    BY DEF BackgroundInv, BackgroundTypes
  <1>4. runner'[t] \in {r, runner[t]} /\ \A u \in Tasks \ {t} : runner'[u] = runner[u]
    BY DEF BackgroundInv, BackgroundTypes
  <1>5. BackgroundTypes'
    BY <1>1, <1>2 DEF BackgroundInv, BackgroundTypes
  <1> HIDE DEF k, r
  <1>6. RowOK(runner'[t], lecture')
    BY <1>2, <1>4, TaskFields DEF RowOK
  <1>7. OwnedOK(task'[t], runner'[t], request'[t])
    BY <1>1, <1>2, <1>3, <1>4, TaskFields DEF OwnedOK
  <1>8. QED
    BY <1>3, <1>4, <1>5, <1>6, <1>7, TaskStep

\* Both cancellations ask for the end of a task.
LEMMA CancelKeeps ==
    ASSUME BackgroundInv, NEW t \in Tasks, Cancel(t)
    PROVE  BackgroundInv'
  <1>1. /\ task' = [task EXCEPT ![t].asked = TRUE]
        /\ \/ runner' = [runner EXCEPT ![t].cancel = TRUE] \/ runner' = runner
        /\ UNCHANGED <<request, action, lecture, versions>>
    BY DEF Cancel, content
  <1>2. canceller' \subseteq Tasks /\ action' \in [Tasks -> {"none", "running", "ended"}]
    BY <1>1 DEF Cancel, BackgroundInv, BackgroundTypes
  <1>3. QED
    BY <1>1, <1>2, AskedKeeps

LEMMA CancelActionKeeps ==
    ASSUME BackgroundInv, NEW t \in Tasks, CancelAction(t)
    PROVE  BackgroundInv'
  <1>1. /\ task' = [task EXCEPT ![t].asked = TRUE]
        /\ \/ runner' = [runner EXCEPT ![t].cancel = TRUE] \/ runner' = runner
        /\ UNCHANGED <<request, canceller, lecture, versions>>
    BY DEF CancelAction, content
  <1>2. canceller' \subseteq Tasks /\ action' \in [Tasks -> {"none", "running", "ended"}]
    BY <1>1 DEF CancelAction, BackgroundInv, BackgroundTypes
  <1>3. QED
    BY <1>1, <1>2, AskedKeeps

\* A row without a coroutine is ended at once, also if one starts meanwhile.
LEMMA ForceCancelKeeps ==
    ASSUME BackgroundInv, NEW t \in Tasks, ForceCancel(t)
    PROVE  BackgroundInv'
  <1> DEFINE k == [task[t] EXCEPT !.st = "canceled"]
  <1>1. /\ task' = [task EXCEPT ![t].st = "canceled"]
        /\ action' = [action EXCEPT ![t] = IF @ = "running" THEN "ended" ELSE @]
        /\ canceller' = canceller \ {t}
        /\ UNCHANGED <<request, runner, lecture, versions>>
    BY DEF ForceCancel, Marked, content
  <1>2. k \in TaskRow /\ k.st = "canceled" /\ k.asked = task[t].asked
    BY TaskFields DEF TaskRow
  <1>3. task'[t] = k /\ \A u \in Tasks \ {t} : task'[u] = task[u]
    BY <1>1 DEF BackgroundInv, BackgroundTypes
  <1>4. action' \in [Tasks -> {"none", "running", "ended"}]
    BY <1>1 DEF BackgroundInv, BackgroundTypes
  <1>5. BackgroundTypes'
    BY <1>1, <1>2, <1>4 DEF BackgroundInv, BackgroundTypes
  <1> HIDE DEF k
  <1>6. RowOK(runner'[t], lecture') /\ OwnedOK(task'[t], runner'[t], request'[t])
    BY <1>1, <1>2, <1>3, TaskFields DEF OwnedOK
  <1>7. QED
    BY <1>1, <1>3, <1>5, <1>6, TaskStep

\* A user's text is a section of their own or of an outline, and nobody is the
\* only one any more to have written the lecture.
LEMMA SaveKeeps ==
    ASSUME BackgroundInv, NEW e \in Editors, NEW i \in 1 .. NumSections, NEW kind \in Edits,
           Save(e, i, kind)
    PROVE  BackgroundInv'
  <1> DEFINE p == IF kind = "text" /\ i \in Written(lecture.secs) THEN lecture.secs[i].plan
                  ELSE "user"
  <1> DEFINE s == [plan |-> p, edit |-> e]
  <1>1. /\ lecture' = [lecture EXCEPT !.secs = Edited(e, i, kind), !.st = "published"]
        /\ versions' = versions \cup EditsIn(lecture.secs)
        /\ runner' = Disturbed("user")
        /\ UNCHANGED <<task, request, canceller, action>>
    BY DEF Save, rows
  <1>2. lecture.secs \in Text
    BY DEF BackgroundInv, BackgroundTypes, LectureRow
  <1>3. p \in Tasks \cup {"user"}
    <2>1. CASE kind = "text" /\ i \in Written(lecture.secs)
      <3>1. lecture.secs[i] \in Section /\ lecture.secs[i] # None
        BY <1>2, <2>1 DEF Text, Written
      <3>2. QED
        BY <2>1, <3>1, SectionFields
    <2>2. CASE ~(kind = "text" /\ i \in Written(lecture.secs))
      BY <2>2
    <2>3. QED
      BY <2>1, <2>2
  <1> HIDE DEF p
  <1>4. s \in Section
    BY <1>3 DEF Section
  <1> HIDE DEF s
  <1>5. Edited(e, i, kind) = IF kind = "alone" THEN <<s>>
                             ELSE Dense(Placed(lecture.secs, i, s))
    BY DEF Edited, s, p
  <1>6. <<s>> \in Text
    BY <1>4, Counts DEF Text
  <1>7. Placed(lecture.secs, i, s) \in Text
    BY <1>2, <1>4, PlacedText
  <1>8. Edited(e, i, kind) \in Text
    BY <1>5, <1>6, <1>7, DenseText
  <1>9. lecture' \in LectureRow
    BY <1>1, <1>8 DEF BackgroundInv, BackgroundTypes, LectureRow, LectureStatus
  <1>10. versions' \subseteq Editors
    BY <1>1, <1>2, EditsInEditors DEF BackgroundInv, BackgroundTypes
  <1>11. /\ runner' \in [Tasks -> RunnerRow]
         /\ \A u \in Tasks : runner'[u] = [runner[u] EXCEPT !.alone = FALSE]
    <2>1. \A u \in Tasks : u # "user"
      BY Names
    <2>2. QED
      BY <1>1, <2>1, DisturbedRows
  <1>12. BackgroundTypes'
    BY <1>1, <1>9, <1>10, <1>11 DEF BackgroundInv, BackgroundTypes
  <1>13. ASSUME NEW u \in Tasks
         PROVE  RowOK(runner'[u], lecture') /\ OwnedOK(task'[u], runner'[u], request'[u])
    <2>1. /\ runner'[u].alone = FALSE /\ runner'[u].pc = runner[u].pc
          /\ runner'[u].plan = runner[u].plan /\ runner'[u].next = runner[u].next
          /\ runner'[u].cancel = runner[u].cancel
      BY <1>11, TaskFields DEF RunnerRow
    <2>2. QED
      BY <1>1, <2>1, TaskFields DEF RowOK, OwnedOK
  <1>14. QED
    BY <1>12, <1>13 DEF BackgroundInv, RowsOK, OwnersOK

\* The restart leaves no active row and no coroutine.
LEMMA RestartKeeps ==
    ASSUME BackgroundInv, Restart
    PROVE  BackgroundInv'
  <1>1. /\ task' = [t \in Tasks |-> IF Active(t) THEN [task[t] EXCEPT !.st = "failed"]
                                    ELSE task[t]]
        /\ action' = [t \in Tasks |-> IF Active(t) /\ action[t] = "running" THEN "ended"
                                      ELSE action[t]]
        /\ runner' = [t \in Tasks |-> IF runner[t].pc = "none" THEN NoRunner ELSE At("gone")]
        /\ request' = [t \in Tasks |-> IF request[t] = "none" THEN "none" ELSE "done"]
        /\ canceller' = {}
        /\ UNCHANGED <<lecture, versions>>
    BY DEF Restart, Marked, content
  <1>2. ASSUME NEW t \in Tasks
        PROVE  /\ task'[t] \in TaskRow /\ task'[t].st \notin {"queued", "running"}
               /\ action'[t] \in {"none", "running", "ended"}
               /\ request'[t] \in {"none", "done"}
               /\ request'[t] = "none" => request[t] = "none"
    BY <1>1, TaskFields DEF TaskRow, Active
  <1>3. ASSUME NEW t \in Tasks
        PROVE  /\ runner'[t] \in RunnerRow /\ runner'[t].pc \in {"none", "gone"}
               /\ ~runner'[t].cancel /\ ~runner'[t].alone
               /\ runner[t].pc = "none" => runner'[t].pc = "none"
    <2>1. runner'[t] = IF runner[t].pc = "none" THEN NoRunner ELSE At("gone")
      BY <1>1
    <2>2. "gone" \in PCs
      BY DEF PCs
    <2>3. QED
      BY <2>1, <2>2, NoRunnerRow, AtRow
  <1>4. BackgroundTypes'
    BY <1>1, <1>2, <1>3 DEF BackgroundInv, BackgroundTypes, Requests
  <1>5. ASSUME NEW t \in Tasks
        PROVE  RowOK(runner'[t], lecture') /\ OwnedOK(task'[t], runner'[t], request'[t])
    BY <1>2, <1>3, TaskFields DEF RowOK, OwnedOK
  <1>6. QED
    BY <1>4, <1>5 DEF BackgroundInv, RowsOK, OwnersOK

-----------------------------------------------------------------------------
(* Theorems *)

\* The invariant is inductive.
LEMMA BackgroundInit == Init => BackgroundInv
  <1>1. SUFFICES ASSUME Init PROVE BackgroundInv
    OBVIOUS
  <1>2. <<>> \in Text
    BY Counts DEF Text
  <1>3. \A t \in Tasks : runner[t] = NoRunner /\ request[t] = "none"
                         /\ task[t] = [st |-> "none", asked |-> FALSE]
    BY <1>1 DEF Init
  <1>4. BackgroundTypes
    BY <1>1, <1>2, NoRunnerRow
       DEF Init, BackgroundTypes, TaskRow, Requests, NoLecture, LectureRow, LectureStatus, Plans
  <1>5. ASSUME NEW t \in Tasks
        PROVE  RowOK(runner[t], lecture) /\ OwnedOK(task[t], runner[t], request[t])
    BY <1>3, NoRunnerRow DEF RowOK, OwnedOK
  <1>6. QED
    BY <1>4, <1>5 DEF BackgroundInv, RowsOK, OwnersOK

LEMMA BackgroundNext == ASSUME BackgroundInv, [Next]_vars PROVE BackgroundInv'
  <1>1. CASE UNCHANGED vars
    BY <1>1 DEF vars, BackgroundInv, BackgroundTypes, RowsOK, OwnersOK
  <1>2. ASSUME NEW t \in Tasks, RequestStep(t)
        PROVE  BackgroundInv'
    BY <1>2, InsertKeeps, AttachKeeps, SubmitKeeps DEF RequestStep
  <1>3. ASSUME NEW t \in Tasks, Progress(t)
        PROVE  BackgroundInv'
    BY <1>3, StartKeeps, PlanKeeps, OpenKeeps, WriteKeeps, LoadKeeps, PublishKeeps,
       CompleteKeeps, FailKeeps, MarkFailedKeeps, InterruptKeeps, MarkCanceledKeeps,
       FinalizeKeeps DEF Progress
  <1>4. ASSUME NEW t \in Tasks, LookUp(t) \/ Cancel(t) \/ ForceCancel(t) \/ CancelAction(t)
        PROVE  BackgroundInv'
    BY <1>4, LookUpKeeps, CancelKeeps, ForceCancelKeeps, CancelActionKeeps
  <1>5. ASSUME NEW e \in Editors, NEW i \in 1 .. NumSections, NEW kind \in Edits,
               Save(e, i, kind)
        PROVE  BackgroundInv'
    BY <1>5, SaveKeeps
  <1>6. CASE Restart
    BY <1>6, RestartKeeps
  <1>7. QED
    BY <1>1, <1>2, <1>3, <1>4, <1>5, <1>6 DEF Next

\* The invariant holds in every reachable state.
THEOREM BackgroundInvariant == Spec => []BackgroundInv
  BY BackgroundInit, BackgroundNext, PTL DEF Spec

\* The rows, the coroutines and the lecture are ones that the code can hold:
\* whatever runs and edits are mixed, every section of the lecture is a gap or
\* the text of an outline or of a user (task_runners.run_lecture_generation).
THEOREM BackgroundTypeCorrect == Spec => []BackgroundTypeOK
  <1>1. BackgroundInv => BackgroundTypeOK
    <2>1. SUFFICES ASSUME BackgroundInv PROVE BackgroundTypeOK
      OBVIOUS
    <2>2. ASSUME NEW t \in Tasks
          PROVE  /\ request[t] \in {"none", "insert", "submit", "attach", "done"}
                 /\ runner[t].pc \in PCs /\ runner[t].plan \in Plans
                 /\ IsText(runner[t].reads)
      BY <2>1, TaskFields DEF Requests, RunnerRow, Text, IsText
    <2>3. /\ lecture.st \in LectureStatus /\ IsText(lecture.secs) /\ lecture.plan \in Plans
      BY <2>1 DEF BackgroundInv, BackgroundTypes, LectureRow, Text, IsText
    <2>4. QED
      BY <2>1, <2>2, <2>3
         DEF BackgroundInv, BackgroundTypes, BackgroundTypeOK, TaskRow, PCs, LectureStatus
  <1>2. QED
    BY <1>1, BackgroundInvariant, PTL

\* A task that nobody cancels is never left active with neither its request nor
\* its coroutine at work on it.
THEOREM TasksAreOwned == Spec => []ActiveIsOwned
  <1>1. BackgroundInv => ActiveIsOwned
    BY DEF BackgroundInv, OwnersOK, OwnedOK, ActiveIsOwned, Active, Registered
  <1>2. QED
    BY <1>1, BackgroundInvariant, PTL

-----------------------------------------------------------------------------
(* What is published *)

Whole(t) == runner[t].pc = "publish" /\ runner'[t].pc = "complete" /\ runner[t].alone =>
               /\ lecture'.st = "published"
               /\ \A i \in 1 .. NumSections : lecture'.secs[i].plan = runner[t].plan

\* A run that was alone publishes what it has read, and that has no gaps.
LEMMA PublishWhole ==
    ASSUME BackgroundInv, NEW t \in Tasks, Publish(t)
    PROVE  Whole(t)
  <1>1. SUFFICES ASSUME runner[t].alone
                 PROVE  /\ lecture'.st = "published"
                        /\ \A i \in 1 .. NumSections : lecture'.secs[i].plan = runner[t].plan
    BY DEF Whole
  <1>2. runner[t].pc = "publish"
    BY DEF Publish, Runs
  <1>3. /\ Follows(lecture.secs, NumSections, runner[t].plan)
        /\ runner[t].reads = lecture.secs /\ runner[t].status = lecture.st
        /\ runner[t].plan \in Tasks /\ lecture \in LectureRow
    BY <1>1, <1>2, TaskFields DEF RowOK
  <1>4. /\ lecture.secs \in Text /\ Len(lecture.secs) = NumSections
        /\ DOMAIN lecture.secs = 1 .. NumSections
    <2>1. lecture.secs \in Text
      BY <1>3 DEF LectureRow
    <2>2. Len(lecture.secs) \in Nat /\ Len(lecture.secs) <= NumSections
          /\ NumSections <= Len(lecture.secs) /\ DOMAIN lecture.secs = 1 .. Len(lecture.secs)
      BY <1>3, <2>1 DEF Text, Follows
    <2>3. QED
      BY <2>1, <2>2, Counts
  <1>5. ASSUME NEW i \in 1 .. NumSections
        PROVE  lecture.secs[i] # None
    <2>1. lecture.secs[i] \in Section
      BY <1>4 DEF Text
    <2>2. lecture.secs[i].plan = runner[t].plan
      BY <1>3 DEF Follows
    <2>3. QED
      BY <1>3, <2>1, <2>2, SectionFields, Names
  <1>6. Written(lecture.secs) = 1 .. Len(lecture.secs)
    BY <1>4, <1>5 DEF Written
  <1>7. Dense(runner[t].reads) = runner[t].reads
    BY <1>3, <1>4, <1>6, DenseText
  <1>8. lecture' = [lecture EXCEPT !.secs = lecture.secs,
                                   !.st = IF lecture.st = "published" THEN lecture.st
                                          ELSE "published"]
    BY <1>3, <1>7 DEF Publish
  <1>9. lecture'.secs = lecture.secs /\ lecture'.st = "published"
    BY <1>3, <1>8 DEF LectureRow
  <1>10. QED
    BY <1>3, <1>9 DEF Follows

\* No other step takes a coroutine from there to its end.
LEMMA OnlyPublish ==
    ASSUME BackgroundInv, [Next]_vars, NEW t \in Tasks,
           runner[t].pc = "publish", runner'[t].pc = "complete"
    PROVE  Publish(t)
  <1>1. runner \in [Tasks -> RunnerRow] /\ runner[t] \in RunnerRow
    BY DEF BackgroundInv, BackgroundTypes
  <1>2. ~UNCHANGED runner
    BY <1>1
  <1>3. ASSUME NEW u \in Tasks \ {t}, NEW r, runner' = [runner EXCEPT ![u] = r]
        PROVE  FALSE
    BY <1>1, <1>3
  <1>4. ASSUME NEW u, u # t, runner'[t] = Disturbed(u)[t]
        PROVE  FALSE
    <2>1. Disturbed(u)[t] = [runner[t] EXCEPT !.alone = FALSE]
      BY <1>4, DisturbedRows
    <2>2. [runner[t] EXCEPT !.alone = FALSE].pc = runner[t].pc
      BY <1>1 DEF RunnerRow
    <2>3. QED
      BY <1>4, <2>1, <2>2
  <1>5. ASSUME NEW u \in Tasks, RequestStep(u)
        PROVE  FALSE
    <2>1. ~Insert(u) /\ ~Attach(u)
      BY <1>2 DEF Insert, Attach
    <2>2. ASSUME NEW resume \in BOOLEAN, Submit(u, resume)
          PROVE  FALSE
      <3>1. /\ request[u] = "submit"
            /\ runner' = [runner EXCEPT ![u].pc = "new", ![u].resume = resume]
        BY <2>2 DEF Submit
      <3>2. runner[u].pc = "none"
        BY <3>1, TaskFields DEF OwnedOK
      <3>3. u # t
        BY <3>2
      <3>4. QED
        BY <1>1, <3>1, <3>3
    <2>3. QED
      BY <1>5, <2>1, <2>2 DEF RequestStep
  <1>6. ASSUME NEW u \in Tasks, LookUp(u) \/ Cancel(u) \/ ForceCancel(u) \/ CancelAction(u)
        PROVE  FALSE
    <2>1. runner' = [runner EXCEPT ![u].cancel = TRUE] \/ UNCHANGED runner
      BY <1>6 DEF LookUp, Cancel, ForceCancel, CancelAction
    <2>2. \/ runner'[t] = [runner[t] EXCEPT !.cancel = TRUE]
          \/ runner'[t] = runner[t]
      BY <1>1, <2>1
    <2>3. QED
      BY <1>1, <2>2 DEF RunnerRow
  <1>7. ASSUME NEW e \in Editors, NEW i \in 1 .. NumSections, NEW kind \in Edits,
               Save(e, i, kind)
        PROVE  FALSE
    <2>1. runner' = Disturbed("user") /\ "user" # t
      BY <1>7, Names DEF Save
    <2>2. QED
      BY <1>4, <2>1
  <1>8. ~Restart
    <2>1. SUFFICES ASSUME Restart PROVE FALSE
      OBVIOUS
    <2>2. runner'[t] = At("gone")
      BY <2>1 DEF Restart
    <2>3. QED
      BY <2>2, AtRow DEF PCs
  <1>9. ASSUME NEW u \in Tasks, u # t, Progress(u)
        PROVE  FALSE
    <2>1. \/ \E r : runner' = [runner EXCEPT ![u] = r]
          \/ \E r : runner' = [Disturbed(u) EXCEPT ![u] = r]
          \/ runner' = [runner EXCEPT ![u].pc = "plan"]
          \/ Plan(u) \/ Open(u) \/ WriteSection(u) \/ Load(u)
      BY <1>9 DEF Progress, Start, Publish, Complete, Fail, MarkFailed, Interrupt,
                  MarkCanceled, Finalize, EndRow
    <2>2. Disturbed(u) \in [Tasks -> RunnerRow]
      BY DisturbedRows
    <2>3. runner'[t] = runner[t] \/ runner'[t] = Disturbed(u)[t]
      BY <1>1, <1>9, <2>1, <2>2 DEF Plan, Open, WriteSection, Load
    <2>4. QED
      BY <1>4, <1>9, <2>3
  <1>10. ASSUME Progress(t)
         PROVE  Publish(t)
    <2>1. ~Start(t) /\ ~Plan(t) /\ ~Open(t) /\ ~WriteSection(t) /\ ~Load(t) /\ ~Complete(t)
          /\ ~MarkFailed(t) /\ ~MarkCanceled(t) /\ ~Finalize(t)
      BY DEF Start, Plan, Open, WriteSection, Load, Complete, MarkFailed, MarkCanceled,
             Finalize, Runs
    <2>2. ~Fail(t)
      <3>1. SUFFICES ASSUME Fail(t) PROVE FALSE
        OBVIOUS
      <3>2. runner'[t] = At("failed")
        BY <1>1, <3>1 DEF Fail
      <3>3. QED
        BY <3>2, AtRow DEF PCs
    <2>3. ~Interrupt(t)
      <3>1. SUFFICES ASSUME Interrupt(t) PROVE FALSE
        OBVIOUS
      <3>2. runner'[t] = At("canceling")
        BY <1>1, <3>1 DEF Interrupt
      <3>3. QED
        BY <3>2, AtRow DEF PCs
    <2>4. QED
      BY <1>10, <2>1, <2>2, <2>3 DEF Progress
  <1>11. ~UNCHANGED vars
    BY <1>2 DEF vars
  <1>12. QED
    BY <1>5, <1>6, <1>7, <1>8, <1>9, <1>10, <1>11 DEF Next

\* A lecture that nobody else touched between its opening and its publication is
\* published with every section of the outline of its run, at its place, resumed
\* or not, whatever other runs, edits and restarts came before.
THEOREM PublishedStaysWhole == Spec => PublishedIsWhole
  <1>1. ASSUME BackgroundInv, [Next]_vars
        PROVE  [\A t \in Tasks : Whole(t)]_vars
    <2>1. ASSUME NEW t \in Tasks
          PROVE  Whole(t)
      BY <1>1, OnlyPublish, PublishWhole DEF Whole
    <2>2. QED
      BY <2>1
  <1>2. BackgroundInv /\ [Next]_vars
          => [\A t \in Tasks :
                runner[t].pc = "publish" /\ runner'[t].pc = "complete" /\ runner[t].alone =>
                    /\ lecture'.st = "published"
                    /\ \A i \in 1 .. NumSections : lecture'.secs[i].plan = runner[t].plan]_vars
    BY <1>1 DEF Whole
  <1>3. QED
    BY <1>2, BackgroundInvariant, PTL DEF Spec, PublishedIsWhole

=============================================================================
