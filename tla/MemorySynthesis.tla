-------------------------- MODULE MemorySynthesis --------------------------
(***************************************************************************)
(* Memory consolidation of LearnFlow (backend/app/services/memory_worker   *)
(* and learnflow_core.memory_graph): requests turn learning events into    *)
(* facts and queue synthesis runs; one worker per data volume reserves the *)
(* facts of a run, drafts a module from its evidence and commits it as the *)
(* next version; a learner's feedback on a claim retracts or replaces the  *)
(* facts the claim rests on.                                               *)
(*                                                                         *)
(* The database is SQLite in its default isolation: reads see the last     *)
(* commit and the writer's lock is held from a transaction's first write   *)
(* to its commit.  A transaction that begins with a write is one step; one *)
(* that reads first is a step that reads and a step that writes.  An       *)
(* UPDATE carries the columns whose value differs from the one read.       *)
(*                                                                         *)
(* One subject of the value kernel, with its trigger rules.  An event      *)
(* makes one fact, and every event comes from a session of its own.  A     *)
(* fingerprint is the hash of the sorted evidence: the evidence stands for *)
(* it.  A run makes at most one module, so that modules are named by their *)
(* runs.  Time is the bit that says whether a run is due.                  *)
(***************************************************************************)
EXTENDS Naturals, FiniteSets

CONSTANTS
    Workers,        \* worker processes of the data volume
    Offered,        \* the kinds of feedback given
    MaxFacts,       \* bound: facts of the subject
    MaxRuns,        \* bound: synthesis runs
    MaxRestarts,    \* bound: worker processes that die
    MaxDbFailures,  \* bound: commits that the database refuses
    MaxAttempts,    \* MAX_SYNTHESIS_ATTEMPTS
    EligibleLimit,  \* limit of _eligible_facts
    EvidenceLimit,  \* MODULE_EVIDENCE_LIMIT
    FirstCount,     \* events that start the first module
    RefineCount     \* events that refine one

ASSUME MemoryAssumption ==
    /\ {MaxFacts, MaxRuns, MaxRestarts, MaxDbFailures, MaxAttempts,
        EligibleLimit, EvidenceLimit, FirstCount, RefineCount} \subseteq Nat
    /\ MaxAttempts > 0
    /\ Offered \subseteq {"confirmed", "added", "retracted"}
    /\ EligibleLimit <= EvidenceLimit

Facts == 1 .. MaxFacts      \* in the order of their events
Runs == 1 .. MaxRuns
NoRun == 0
NewRun == MaxRuns + 1

VARIABLES
    fact,       \* MemoryNode and MemoryFact, by fact
    run,        \* MemorySynthesisRun
    module,     \* MemoryModule, its node and its claims, by run
    worker,     \* what each worker has read and goes on with
    feedback,   \* the claim a feedback request has read
    restarts, dbFailures

vars == <<fact, run, module, worker, feedback, restarts, dbFailures>>

Feedbacks == {"confirmed", "added", "retracted"}
Kinds == {"none", "note", "goal"} \cup Feedbacks
RunStatus == {"none", "queued", "running", "completed", "failed", "stale"}
ModuleStatus == {"none", "active", "refined", "superseded", "retracted"}

NoFact == [kind |-> "none", node |-> "none", use |-> "none",
           holder |-> NoRun, by |-> NoRun]
\* Mutant: a fact is stored in a state that nobody reads.
UnreadFact(k) == [kind |-> k, node |-> "active", use |-> "pending",
                  holder |-> NoRun, by |-> NoRun]
NewFact(k) == [kind |-> k, node |-> "active", use |-> "eligible",
               holder |-> NoRun, by |-> NoRun]
NullRun == [st |-> "none", cand |-> {}, evid |-> {}, base |-> NoRun,
            version |-> 0, reason |-> "none", attempts |-> 0, due |-> FALSE]
NullModule == [st |-> "none", evid |-> {}, version |-> 0,
               base |-> NoRun, claims |-> {}]
Idle(pc) == [pc |-> pc, run |-> NoRun, seen |-> NullRun, next |-> NullRun,
             claims |-> {}, parent |-> "none", held |-> {}]
NoFeedback == [claim |-> {}, kind |-> "none"]

Init == /\ fact = [f \in Facts |-> NoFact]
        /\ run = [r \in Runs |-> NullRun]
        /\ module = [r \in Runs |-> NullModule]
        /\ worker = [w \in Workers |-> Idle("down")]
        /\ feedback = NoFeedback
        /\ restarts = 0
        /\ dbFailures = 0

-----------------------------------------------------------------------------
(* The queue.  A request reads the graph with the facts F it has written.  *)

Born == {r \in Runs : run[r].st # "none"}
Modules == {r \in Runs : module[r].st # "none"}
Live(F, f) == F[f].node = "active"
Available(S, uses) == \A f \in S : Live(fact, f) /\ fact[f].use \in uses

\* The version that every run starts from, active or not.
Latest == IF Modules = {} THEN NoRun
          ELSE CHOOSE r \in Modules : \A q \in Modules :
                 \/ module[q].version < module[r].version
                 \/ module[q].version = module[r].version /\ q <= r
NextVersion == IF Latest = NoRun THEN 1 ELSE module[Latest].version + 1

EligibleRank == [k \in Kinds |-> IF k \in Feedbacks THEN 0 ELSE IF k = "goal" THEN 1 ELSE 2]
EvidenceRank == [k \in Kinds |-> IF k \in Feedbacks THEN 0 ELSE 1]

\* The n first facts of S by rank, newest first.
Best(F, S, n, rank) ==
    LET before(g, f) == \/ rank[F[g].kind] < rank[F[f].kind]
                        \/ rank[F[g].kind] = rank[F[f].kind] /\ g > f
    IN {f \in S : Cardinality({g \in S : before(g, f)}) < n}

EligibleFacts(F) ==
    Best(F, {f \in Facts : Live(F, f) /\ F[f].use = "eligible"},
         EligibleLimit, EligibleRank)

\* effective_evidence_ids
Evidence(F, delta) ==
    LET current == {f \in Facts : /\ Live(F, f)
                                  /\ F[f].use \in {"consumed", "reserved"} \/ f \in delta}
        known == Best(F, current, EvidenceLimit, EvidenceRank) \ delta
    IN delta \cup Best(F, known, EvidenceLimit - Cardinality(delta), EvidenceRank)

\* _trigger_reason and _refinement_trigger_reason for the kind of the event.
TriggerReason(F, rows, kind) ==
    CASE rows = {}                                     -> "none"
      [] kind = "confirmed"                            -> "confirmation"
      [] kind \in {"added", "retracted"}               -> "correction"
      [] \E f \in rows : F[f].kind = "goal"            -> "confirmed_goal"
      [] Cardinality(rows) >= FirstCount               -> "cross_session"
      [] /\ Latest # NoRun
         /\ \/ \E f \in rows : F[f].kind # "note"
            \/ Cardinality(rows) >= RefineCount        -> "refinement"
      [] OTHER                                         -> "none"

Immediate == {"correction", "confirmation", "confirmed_goal"}

\* The newest queued run, which a request retargets, or else a new one.
Pending == LET queued == {r \in Born : run[r].st = "queued"}
           IN {r \in queued : \A q \in queued : q <= r}
Target == IF Pending = {} THEN NewRun ELSE CHOOSE r \in Pending : TRUE

\* What maybe_queue_synthesis does with what it has read: nothing (NoRun),
\* a new run, or the newest queued one retargeted.  It would queue a failed run
\* of the same evidence again, if that had attempts left: MemoryTypeOK says that
\* a run that fails has none.
QueuePlan(F, kind) ==
    LET rows == EligibleFacts(F)
        reason == TriggerReason(F, rows, kind)
        evid == Evidence(F, rows)
        known == \E r \in Born : run[r].evid = evid
    IN [run |-> IF reason = "none" \/ known THEN NoRun ELSE Target,
        row |-> [st |-> "queued", cand |-> rows, evid |-> evid, base |-> Latest,
                 version |-> NextVersion, reason |-> reason,
                 attempts |-> IF Pending = {} THEN 0 ELSE run[Target].attempts,
                 due |-> \/ reason \in Immediate
                         \/ Pending # {} /\ run[Target].due]]

NoPlan == [run |-> NoRun, row |-> NullRun]

\* The queue once a plan is written; the bound on runs is in the guard.
Planned(p) ==
    LET r == IF p.run = NewRun THEN Cardinality(Born) + 1 ELSE p.run
    IN /\ r <= MaxRuns
       /\ run' = IF r = NoRun THEN run ELSE [run EXCEPT ![r] = p.row]

-----------------------------------------------------------------------------
(* Requests *)

\* invalidate_fact_projections, on the facts and on what derives from them.
Invalidated(S, st) ==
    [f \in Facts |-> IF f \in S
                     THEN [fact[f] EXCEPT !.node = st, !.use = "excluded", !.holder = NoRun]
                     ELSE fact[f]]
Underived(S, st) ==
    [r \in Runs |-> [module[r] EXCEPT
        !.st = IF @ = "active" /\ module[r].evid \cap S # {} THEN st ELSE @,
        !.claims = {c \in @ : c \cap S = {}}]]

NextFact == 1 + Cardinality({f \in Facts : fact[f].kind # "none"})
WithFact(F, k) == [F EXCEPT ![NextFact] = NewFact(k)]

\* An event of the kernel: its fact, the facts a goal replaces, and the queue
\* (create_facts_for_mutation).
RecordEvent(k) ==
    LET old == IF k = "goal" THEN {f \in Facts : fact[f].kind = "goal" /\ Live(fact, f)}
               ELSE {}
        F == WithFact(Invalidated(old, "superseded"), k)
    IN /\ NextFact <= MaxFacts
       /\ fact' = F
       /\ module' = Underived(old, "superseded")
       /\ Planned(QueuePlan(F, k))
       /\ UNCHANGED <<worker, feedback, restarts, dbFailures>>

\* submit_claim_feedback refuses a claim that is not active ...
FeedbackRead(r, c, k) ==
    /\ feedback = NoFeedback
    /\ NextFact <= MaxFacts
    /\ c \in module[r].claims
    /\ feedback' = [claim |-> c, kind |-> k]
    /\ UNCHANGED <<fact, run, module, worker, restarts, dbFailures>>

\* ... and then records the event, whose first statement takes the lock.
FeedbackWrite ==
    LET S == IF feedback.kind = "confirmed" THEN {} ELSE feedback.claim
        st == IF feedback.kind = "retracted" THEN "retracted" ELSE "superseded"
        F == WithFact(Invalidated(S, st), feedback.kind)
    IN /\ feedback # NoFeedback
       /\ NextFact <= MaxFacts
       /\ fact' = F
       /\ module' = Underived(S, st)
       /\ Planned(QueuePlan(F, feedback.kind))
       /\ feedback' = NoFeedback
       /\ UNCHANGED <<worker, restarts, dbFailures>>

-----------------------------------------------------------------------------
(* The worker *)

Goto(w, pc) == worker' = [worker EXCEPT ![w].pc = pc]
Rest(w) == worker' = [worker EXCEPT ![w] = Idle("idle")]

LeaseFree(w) == \A v \in Workers : worker[v].pc = "down"

Holding(B) == {f \in Facts : fact[f].holder \in B}

\* Mutant: recovery forgets the reservations.
StillReserved(S) == fact
Freed(S) == [f \in Facts |-> IF f \in S
                             THEN [fact[f] EXCEPT !.use = "eligible", !.holder = NoRun]
                             ELSE fact[f]]

\* Mutant: recovery forgets the runs.
NotRequeued(broken) == run
Requeued(broken) ==
    [r \in Runs |-> IF r \in broken THEN [run[r] EXCEPT !.st = "queued", !.due = TRUE]
                    ELSE run[r]]

Broken == {r \in Runs : run[r].st = "running"}
FirstBroken == {r \in Broken : \A q \in Broken : r <= q}

\* worker_lease, then recover_interrupted_runs, which reads the broken runs and
\* the facts of the first ...
Start(w) ==
    /\ worker[w].pc = "down"
    /\ LeaseFree(w)
    /\ worker' = [worker EXCEPT ![w] =
           [Idle("recovering") EXCEPT !.held = Holding(FirstBroken)]]
    /\ UNCHANGED <<fact, run, module, feedback, restarts, dbFailures>>

\* ... and those of the others under the lock that its first UPDATE has taken.
\* A fact that a learner has withdrawn since it was read is eligible again,
\* though its node stays withdrawn.
Recover(w) ==
    /\ worker[w].pc = "recovering"
    /\ fact' = Freed(worker[w].held \cup Holding(Broken))
    /\ run' = Requeued(Broken)
    /\ worker' = [worker EXCEPT ![w] = Idle("recovered")]
    /\ UNCHANGED <<module, feedback, restarts, dbFailures>>

\* reconcile_eligible_synthesis_runs reads the group and its newest event ...
ReconcileRead(w) ==
    LET open == {f \in Facts : fact[f].use = "eligible"}
        newest == CHOOSE f \in open : \A g \in open : g <= f
        plan == IF open = {} THEN NoPlan ELSE QueuePlan(fact, fact[newest].kind)
    IN /\ worker[w].pc = "recovered"
       /\ worker' = [worker EXCEPT ![w] =
              IF plan.run = NoRun THEN Idle("idle")
              ELSE [Idle("reconcile") EXCEPT !.run = plan.run, !.seen = plan.row]]
       /\ UNCHANGED <<fact, run, module, feedback, restarts, dbFailures>>

\* ... and queues it.  If a request has queued the same input meanwhile the
\* unique constraint refuses it, outside the loop that survives errors.
ReconcileWrite(w) ==
    LET plan == [run |-> worker[w].run, row |-> worker[w].seen]
        same == \E r \in Born \ {plan.run} : run[r].evid = plan.row.evid
    IN /\ worker[w].pc = "reconcile"
       /\ IF same THEN UNCHANGED run ELSE Planned(plan)
       /\ worker' = [worker EXCEPT ![w] = Idle(IF same THEN "down" ELSE "idle")]
       /\ UNCHANGED <<fact, module, feedback, restarts, dbFailures>>

\* process_synthesis_run reads a due run, the facts it names, the latest
\* version and the other runs.  `next` is the row it goes on with.
ReadInputs(w, r) ==
    LET next == [run[r] EXCEPT !.evid = Evidence(fact, run[r].cand),
                               !.base = Latest, !.version = NextVersion]
        unavailable == \E f \in run[r].cand : ~(Live(fact, f) /\ fact[f].use = "eligible")
        done == \E q \in Born \ {r} : run[q].evid = next.evid
        missing == next = run[r] /\ ~Available(next.evid, {"eligible", "consumed"})
    IN /\ worker[w].pc = "idle"
       /\ run[r].st = "queued" /\ run[r].due
       /\ worker' = [worker EXCEPT ![w] =
              [Idle("reserve") EXCEPT !.run = r, !.seen = run[r], !.next =
                  IF unavailable \/ done \/ missing
                  THEN [run[r] EXCEPT !.st = "stale"] ELSE next]]
       /\ UNCHANGED <<fact, run, module, feedback, restarts, dbFailures>>

\* Writes what differs from what was read.  When a column does, its UPDATE
\* is flushed before the last query, which then reads under the lock.
Reserve(w) ==
    LET r == worker[w].run
        seen == worker[w].seen
        next == worker[w].next
        row == [run[r] EXCEPT !.evid = IF next.evid = seen.evid THEN @ ELSE next.evid,
                              !.base = IF next.base = seen.base THEN @ ELSE next.base,
                              !.version = IF next.version = seen.version
                                          THEN @ ELSE next.version]
        clash == /\ next.evid # seen.evid
                 /\ \E q \in Born \ {r} : run[q].evid = next.evid
        missing == /\ <<next.evid, next.base>> # <<seen.evid, seen.base>>
                   /\ ~Available(next.evid, {"eligible", "consumed"})
    IN /\ worker[w].pc = "reserve"
       /\ IF clash
          THEN UNCHANGED <<fact, run>> /\ Rest(w)
          ELSE IF next.st = "stale" \/ missing
          THEN /\ run' = [run EXCEPT ![r] = [row EXCEPT !.st = "stale"]]
               /\ Rest(w)
               /\ UNCHANGED fact
          ELSE /\ run' = [run EXCEPT ![r] = [row EXCEPT !.st = "running",
                                                        !.attempts = seen.attempts + 1]]
               /\ fact' = [f \in Facts |->
                              IF f \in seen.cand
                              THEN [fact[f] EXCEPT !.use = "reserved", !.holder = r]
                              ELSE fact[f]]
               /\ Goto(w, "draft")
       /\ UNCHANGED <<module, feedback, restarts, dbFailures>>

Retry(row) == row.attempts < MaxAttempts

\* The draft has returned: the model's claims, the fallback's single one, or
\* one that the validator rejects ({}).  The rows are read and checked again,
\* and _release_run reads the facts that the run holds.
Check(w, claims) ==
    LET r == worker[w].run
        row == run[r]
    IN /\ worker[w].pc = "draft"
       /\ worker' = [worker EXCEPT ![w] =
              CASE row.st # "running" -> Idle("idle")
                [] row.st = "running"
                   /\ ~(/\ Available(row.evid, {"reserved", "consumed"})
                        /\ claims # {}
                        /\ UNION claims \subseteq row.evid) ->
                   [Idle("releasing") EXCEPT !.run = r, !.seen = row, !.held = Holding({r})]
                [] OTHER ->
                   [@ EXCEPT !.pc = "commit", !.seen = row, !.claims = claims,
                             !.parent = IF row.base = NoRun THEN "none"
                                        ELSE module[row.base].st]]
       /\ UNCHANGED <<fact, run, module, feedback, restarts, dbFailures>>

\* _release_run writes: here too a fact withdrawn meanwhile becomes eligible.
Release(w) ==
    LET r == worker[w].run
        seen == worker[w].seen
    IN /\ worker[w].pc = "releasing"
       /\ fact' = Freed(worker[w].held)
       /\ run' = [run EXCEPT ![r].st = IF Retry(seen) THEN "queued" ELSE "failed",
                             ![r].due = @ /\ ~Retry(seen)]
       /\ Rest(w)
       /\ UNCHANGED <<module, feedback, restarts, dbFailures>>

\* The claims a draft of S may make.
Drafts(S) == {{}, {S}, {{f} : f \in S}}

\* Mutant: a version consumes what it inherits.
Analysed(row) == row.evid
\* Mutant: a refinement leaves its parent as it is.
KeptParent(st, reason) == IF reason = "correction" THEN "superseded" ELSE st

Consumed(row) == row.evid \cap row.cand
ClosedParent(st, reason) ==
    IF st = "retracted" THEN st ELSE IF reason = "correction" THEN "superseded" ELSE "refined"

\* The version, its parent's status, the facts it consumes and the run, in one
\* transaction over the rows that Check read.
Commit(w) ==
    LET r == worker[w].run
        seen == worker[w].seen
        closed == ClosedParent(worker[w].parent, seen.reason)
    IN /\ worker[w].pc = "commit"
       /\ module' = [q \in Runs |->
              CASE q = r         -> [st |-> "active", evid |-> seen.evid,
                                     version |-> seen.version, base |-> seen.base,
                                     claims |-> worker[w].claims]
                [] q = seen.base -> [module[q] EXCEPT
                                         !.st = IF closed = worker[w].parent THEN @ ELSE closed,
                                         !.claims = {}]
                [] OTHER         -> module[q]]
       /\ fact' = [f \in Facts |-> IF f \in Consumed(seen)
                                   THEN [fact[f] EXCEPT !.use = "consumed", !.by = r,
                                                        !.holder = NoRun]
                                   ELSE fact[f]]
       /\ run' = [run EXCEPT ![r].st = "completed"]
       /\ Rest(w)
       /\ UNCHANGED <<feedback, restarts, dbFailures>>

\* The database refuses the commit and the loop goes on with other runs.
CommitFails(w) ==
    /\ worker[w].pc = "commit"
    /\ dbFailures < MaxDbFailures
    /\ dbFailures' = dbFailures + 1
    /\ Rest(w)
    /\ UNCHANGED <<fact, run, module, feedback, restarts>>

Die(w) ==
    /\ worker[w].pc # "down"
    /\ restarts < MaxRestarts
    /\ restarts' = restarts + 1
    /\ worker' = [worker EXCEPT ![w] = Idle("down")]
    /\ UNCHANGED <<fact, run, module, feedback, dbFailures>>

\* The due time of a queued run passes.
Elapse(r) ==
    /\ run[r].st = "queued"
    /\ ~run[r].due
    /\ run' = [run EXCEPT ![r].due = TRUE]
    /\ UNCHANGED <<fact, module, worker, feedback, restarts, dbFailures>>

WorkerStep(w) ==
    \/ Recover(w) \/ ReconcileRead(w) \/ ReconcileWrite(w)
    \/ \E r \in Runs : ReadInputs(w, r)
    \/ Reserve(w)
    \/ \E claims \in Drafts(worker[w].next.evid) : Check(w, claims)
    \/ Release(w) \/ Commit(w)

Next ==
    \/ \E k \in {"note", "goal"} : RecordEvent(k)
    \/ \E r \in Runs, k \in Offered : \E c \in module[r].claims : FeedbackRead(r, c, k)
    \/ FeedbackWrite
    \/ \E w \in Workers : Start(w) \/ WorkerStep(w) \/ CommitFails(w) \/ Die(w)
    \/ \E r \in Runs : Elapse(r)

Spec == Init /\ [][Next]_vars

\* The host starts a worker again, the worker's loop goes on, time passes and
\* a request that was let in is answered.
FairSpec == /\ Spec
            /\ \A w \in Workers : WF_vars(Start(w)) /\ WF_vars(WorkerStep(w))
            /\ \A r \in Runs : WF_vars(Elapse(r))
            /\ WF_vars(FeedbackWrite)

-----------------------------------------------------------------------------
(* Properties *)

\* Every row is one the tables can hold, only the death of a worker gives a run
\* more than the bounded attempts, and a run that fails has had all of them.
MemoryTypeOK ==
    /\ fact \in [Facts -> [kind : Kinds,
                           node : {"none", "active", "superseded", "retracted"},
                           use : {"none", "eligible", "reserved", "consumed", "excluded"},
                           holder : Runs \cup {NoRun}, by : Runs \cup {NoRun}]]
    /\ \A r \in Runs : /\ run[r].st \in RunStatus
                       /\ run[r].cand \cup run[r].evid \subseteq Facts
                       /\ run[r].attempts \in 0 .. MaxAttempts + restarts
                       /\ run[r].st = "failed" => run[r].attempts >= MaxAttempts
                       /\ module[r].st \in ModuleStatus

\* A reserved fact belongs to a run that is running: nothing that ends a run,
\* its failure, its recovery or its commit, leaves one reserved that the run
\* names.  (A run that was retargeted while a worker was about to reserve it no
\* longer names every fact it holds, and its commit leaves the others reserved.)
ReservedIsHeld ==
    \A f \in Facts : fact[f].use = "reserved" =>
        LET row == run[fact[f].holder]
        IN \/ row.st = "running"
           \/ row.st = "completed" /\ f \notin row.cand \cap row.evid

\* The versions of a subject form one chain: whatever happened between the
\* queueing of a run and its commit, its version follows the latest one, and
\* only the latest version is active or has claims in the learner's projection.
OneChain ==
    \A r \in Modules :
        /\ module[r].version = IF module[r].base = NoRun THEN 1
                               ELSE module[module[r].base].version + 1
        /\ \A q \in Modules \ {r} : module[q].version # module[r].version
        /\ module[r].st = "active" \/ module[r].claims # {} => r = Latest

\* What runs hold and what they leave behind.
RunsAreSound == ReservedIsHeld /\ OneChain

\* A fact is consumed by one version: corrections exclude it, later versions
\* inherit it, and no retry, recovery or second run consumes it again.
ConsumedOnce ==
    [][\A f \in Facts : fact[f].by # NoRun =>
          /\ fact'[f].by = fact[f].by
          /\ fact'[f].use \in {"consumed", "excluded"}]_vars

\* As long as workers are restarted, no run waits for ever, and one stays
\* running only after a commit that the database refused.
RunsSettle ==
    []<>(\A r \in Runs : /\ run[r].st # "queued"
                         /\ run[r].st = "running" => dbFailures > 0)

\* Live facts whose run was given up wait for another event.
GivenUp(r) == /\ run[r].st \in {"running", "failed", "stale"}
              /\ \E f \in run[r].cand : Live(fact, f)

\* Evidence that a learner has withdrawn leaves the active version, even when
\* the withdrawal lands between a worker's last check and its commit, unless
\* a run with live facts was given up.
RetractionPrevails ==
    []<>(\/ \A r \in Runs : module[r].st = "active" =>
                \A f \in module[r].evid : Live(fact, f)
         \/ \E r \in Runs : GivenUp(r))
=============================================================================
