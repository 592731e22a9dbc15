------------------------ MODULE MemorySynthesisProofs ------------------------
(***************************************************************************)
(* Proofs about MemorySynthesis, for any number of workers, facts and runs *)
(* and for any limits: type correctness, that reservations are held by     *)
(* runs in progress and versions form one chain, and that a fact is        *)
(* consumed once.                                                          *)
(*                                                                         *)
(* The invariant is about what a worker has read and still goes on with.   *)
(* The lease lets one worker live, so that nothing but a request changes a *)
(* row between its read and its write; a request changes rows of queued    *)
(* runs only, and gives them the latest version as their base.  So the     *)
(* base and version of a run that is reserved are those of the latest      *)
(* version whichever of its columns come from which of the two, and stay   *)
(* so until it commits; and the facts it consumes have not been consumed.  *)
(***************************************************************************)
EXTENDS MemorySynthesis, FiniteSetTheorems, TLAPS

-----------------------------------------------------------------------------
(* The invariant *)

Reasons == {"none", "confirmation", "correction", "confirmed_goal", "cross_session",
            "refinement"}
Pcs == {"down", "recovering", "recovered", "reconcile", "idle", "reserve", "draft",
        "releasing", "commit"}

FactRow == [kind : Kinds,
            node : {"none", "active", "superseded", "retracted"},
            use : {"none", "eligible", "reserved", "consumed", "excluded"},
            holder : Runs \cup {NoRun}, by : Runs \cup {NoRun}]
RunRow == [st : RunStatus, cand : SUBSET Facts, evid : SUBSET Facts,
           base : Runs \cup {NoRun}, version : Nat, reason : Reasons,
           attempts : Nat, due : BOOLEAN]
ModuleRow == [st : ModuleStatus, evid : SUBSET Facts, version : Nat,
              base : Runs \cup {NoRun}, claims : SUBSET SUBSET Facts]
WorkerRow == [pc : Pcs, run : Runs \cup {NoRun, NewRun}, seen : RunRow,
              next : RunRow, claims : SUBSET SUBSET Facts, parent : ModuleStatus,
              held : SUBSET Facts]
FeedbackRow == [claim : SUBSET Facts, kind : Feedbacks \cup {"none"}]

TablesOK ==
    /\ fact \in [Facts -> FactRow]
    /\ run \in [Runs -> RunRow]
    /\ module \in [Runs -> ModuleRow]
    /\ worker \in [Workers -> WorkerRow]
    /\ feedback \in FeedbackRow
    /\ feedback = NoFeedback \/ feedback.kind # "none"
    /\ restarts \in Nat /\ dbFailures \in Nat

\* Facts and runs are numbered in the order of their insertion.
Known == {f \in Facts : fact[f].kind # "none"}
NumberedOK ==
    /\ \E n \in Nat : Known = 1 .. n
    /\ \E n \in Nat : Born = 1 .. n

FactsOK ==
    \A f \in Facts :
        /\ fact[f].holder # NoRun <=> fact[f].use = "reserved"
        /\ fact[f].by # NoRun => fact[f].use \in {"consumed", "excluded"}
        /\ fact[f].use \in {"eligible", "reserved"} \/ fact[f].by # NoRun => f \in Known

\* Only the death of a worker lets an attempt go beyond the bound, for it is
\* the only way from running to queued that does not ask for it.
Allowance == MaxAttempts + restarts
Before == {"down", "recovering"}
AttemptsOK ==
    \A r \in Runs :
        /\ run[r].attempts <= Allowance
        /\ \/ run[r].st = "queued"
           \/ run[r].st = "running" /\ \A w \in Workers : worker[w].pc \in Before
           => run[r].attempts < Allowance
        /\ run[r].st = "failed" => run[r].attempts >= MaxAttempts
        /\ run[r].cand \subseteq Known

\* The versions grow along the chain, and each belongs to a completed run.
ChainOK ==
    /\ OneChain
    /\ \A r \in Modules : /\ run[r].st = "completed"
                          /\ module[r].base \in Modules \cup {NoRun}
    /\ Modules # {} => \E r \in Modules : \A q \in Modules \ {r} :
                          module[q].version < module[r].version

\* A row that makes the next version out of facts nobody has consumed.
IsNext(row) ==
    /\ row.base = Latest /\ row.version = NextVersion
    /\ \A f \in row.cand : fact[f].by = NoRun

\* What is the case while a worker goes on with what it has read.
WorkerOK(w) ==
    LET r == worker[w].run
        seen == worker[w].seen
        next == worker[w].next
    IN /\ seen.cand \subseteq Known
       /\ \A f \in worker[w].held : f \in Known /\ fact[f].by = NoRun
       /\ worker[w].pc = "down" => worker[w].held = {}
       /\ worker[w].pc \in {"recovered", "reconcile"} =>
              \A q \in Runs : run[q].st # "running"
       /\ worker[w].pc = "reconcile" =>
              /\ seen.st = "queued" /\ seen.attempts < Allowance
              /\ r \in Runs => run[r].st = "queued"
       /\ worker[w].pc = "reserve" =>
              /\ r \in Runs
              /\ run[r].st = "queued" /\ seen.attempts < Allowance
              /\ next.st # "stale" =>
                    /\ next.base = Latest /\ next.version = NextVersion
                    /\ run[r].base \in {seen.base, Latest}
                    /\ run[r].version \in {seen.version, NextVersion}
                    /\ \A f \in run[r].cand \cup seen.cand : fact[f].by = NoRun
       /\ worker[w].pc = "draft" => r \in Runs /\ run[r].st = "running" /\ IsNext(run[r])
       /\ worker[w].pc = "releasing" =>
              /\ r \in Runs /\ run[r].st = "running" /\ seen = run[r]
              /\ \A f \in Facts : fact[f].holder = r => f \in worker[w].held
       /\ worker[w].pc = "commit" =>
              /\ r \in Runs /\ run[r].st = "running" /\ IsNext(run[r]) /\ seen = run[r]
              /\ seen.base # NoRun /\ worker[w].parent # "active" =>
                    module[seen.base].st # "active"

\* The lease of worker_lease.
OneWorker == \A v, w \in Workers :
                 worker[v].pc # "down" /\ worker[w].pc # "down" => v = w
WorkersOK == OneWorker /\ \A w \in Workers : WorkerOK(w)

MemoryInv == /\ TablesOK
             /\ NumberedOK
             /\ FactsOK
             /\ ReservedIsHeld
             /\ AttemptsOK
             /\ ChainOK
             /\ WorkersOK

-----------------------------------------------------------------------------
(* Lemmas: rows, the queue and the latest version *)

\* The numbers and the bounds.
LEMMA MemoryConsts ==
    /\ Runs \subseteq Nat /\ NoRun \notin Runs /\ NewRun \notin Runs /\ NoRun # NewRun
    /\ MaxAttempts \in Nat /\ MaxAttempts > 0 /\ MaxRuns \in Nat /\ MaxFacts \in Nat
    /\ Offered \subseteq Feedbacks
    /\ \A r \in Runs : r >= 1 /\ r <= MaxRuns
  BY MemoryAssumption DEF Runs, NoRun, NewRun, Feedbacks

\* The rows that the model starts from are rows.
LEMMA ConstantRows ==
    /\ NullRun \in RunRow /\ NoFact \in FactRow /\ NullModule \in ModuleRow
    /\ \A pc \in Pcs : Idle(pc) \in WorkerRow
    /\ \A k \in Kinds : NewFact(k) \in FactRow
    /\ NoFeedback \in FeedbackRow
  <1>1. NullRun \in RunRow
    BY DEF NullRun, RunRow, RunStatus, Reasons, NoRun
  <1>2. NoFact \in FactRow /\ \A k \in Kinds : NewFact(k) \in FactRow
    BY DEF NoFact, NewFact, FactRow, Kinds
  <1>3. NullModule \in ModuleRow
    BY DEF NullModule, ModuleRow, ModuleStatus
  <1>4. \A pc \in Pcs : Idle(pc) \in WorkerRow
    BY <1>1 DEF Idle, WorkerRow, ModuleStatus
  <1>5. NoFeedback \in FeedbackRow
    BY DEF NoFeedback, FeedbackRow
  <1>6. QED
    BY <1>1, <1>2, <1>3, <1>4, <1>5

\* What a plan is made of: facts, eligible candidates and a reason.
LEMMA EvidenceIsFacts ==
    ASSUME NEW F, NEW delta \in SUBSET Facts
    PROVE  Evidence(F, delta) \in SUBSET Facts
  BY DEF Evidence, Best

LEMMA EligibleAre ==
    ASSUME NEW F
    PROVE  /\ EligibleFacts(F) \in SUBSET Facts
           /\ \A f \in EligibleFacts(F) : F[f].use = "eligible"
  BY DEF EligibleFacts, Best

LEMMA ReasonIsReason ==
    ASSUME NEW F, NEW rows, NEW kind
    PROVE  TriggerReason(F, rows, kind) \in Reasons
  BY DEF TriggerReason, Reasons

\* The latest version is the one with the greatest version number.
LEMMA LatestIs ==
    ASSUME TablesOK, ChainOK
    PROVE  /\ Modules = {} => Latest = NoRun
           /\ Modules # {} => /\ Latest \in Modules
                              /\ \A q \in Modules \ {Latest} :
                                    module[q].version < module[Latest].version
           /\ Latest \in Runs \cup {NoRun}
           /\ NextVersion \in Nat
  <1>1. Modules \subseteq Runs
    BY DEF Modules
  <1>2. \A r \in Modules : module[r].version \in Nat
    BY <1>1 DEF TablesOK, ModuleRow
  <1>3. ASSUME Modules # {}
        PROVE  /\ Latest \in Modules
               /\ \A q \in Modules \ {Latest} : module[q].version < module[Latest].version
    <2>1. PICK r \in Modules : \A q \in Modules \ {r} :
             module[q].version < module[r].version
      BY <1>3 DEF ChainOK
    <2>2. \A q \in Modules : \/ module[q].version < module[r].version
                             \/ module[q].version = module[r].version /\ q <= r
      BY <2>1, <1>1, <1>2, MemoryConsts
    <2>3. /\ Latest \in Modules
          /\ \A q \in Modules :
                \/ module[q].version < module[Latest].version
                \/ module[q].version = module[Latest].version /\ q <= Latest
      BY <1>3, <2>2 DEF Latest
    <2>4. \A q \in Modules \ {Latest} : module[q].version # module[Latest].version
      BY <2>3 DEF ChainOK, OneChain
    <2>5. QED
      BY <2>3, <2>4
  <1>4. Modules = {} => Latest = NoRun
    BY DEF Latest
  <1>5. Latest \in Runs \cup {NoRun}
    BY <1>1, <1>3, <1>4
  <1>6. NextVersion \in Nat
    BY <1>1, <1>2, <1>3, <1>4 DEF NextVersion
  <1>7. QED
    BY <1>3, <1>4, <1>5, <1>6

\* What it means, for the next state, to be the latest version.
LEMMA LatestBecomes ==
    ASSUME Modules' \subseteq Runs, \A q \in Modules' : module'[q].version \in Nat,
           NEW r \in Modules',
           \A q \in Modules' \ {r} : module'[q].version < module'[r].version
    PROVE  Latest' = r
  <1>1. \A q \in Modules' : \/ module'[q].version < module'[r].version
                            \/ module'[q].version = module'[r].version /\ q <= r
    BY MemoryConsts
  <1>2. /\ Latest' \in Modules'
        /\ \A q \in Modules' :
              \/ module'[q].version < module'[Latest'].version
              \/ module'[q].version = module'[Latest'].version /\ q <= Latest'
    BY <1>1 DEF Latest
  <1>3. QED
    BY <1>2

\* The head of the chain stays if no module gets or loses a version.
LEMMA LatestStays ==
    ASSUME TablesOK, ChainOK, Modules' = Modules,
           \A r \in Modules : module'[r].version = module[r].version
    PROVE  Latest' = Latest /\ NextVersion' = NextVersion
  <1>1. Modules \subseteq Runs /\ \A r \in Modules : module[r].version \in Nat
    BY DEF Modules, TablesOK, ModuleRow
  <1>2. CASE Modules = {}
    BY <1>2, LatestIs DEF Latest, NextVersion
  <1>3. CASE Modules # {}
    <2>1. /\ Latest \in Modules
          /\ \A q \in Modules \ {Latest} : module[q].version < module[Latest].version
      BY <1>3, LatestIs
    <2>2. Latest' = Latest
      BY <1>1, <2>1, LatestBecomes
    <2>3. QED
      BY <2>1, <2>2 DEF NextVersion
  <1>4. QED
    BY <1>2, <1>3

\* A plan as the queue makes them.
GoodPlan(p) ==
    /\ p.run \in Runs \cup {NoRun, NewRun}
    /\ p.row \in RunRow
    /\ p.row.st = "queued"
    /\ p.row.attempts < Allowance
    /\ p.run \in Runs => run[p.run].st = "queued"

\* A new plan starts from the head of the chain and names eligible facts.
LEMMA PlanIsGood ==
    ASSUME TablesOK, ChainOK, AttemptsOK, NEW F, NEW kind
    PROVE  /\ GoodPlan(QueuePlan(F, kind))
           /\ QueuePlan(F, kind).row.base = Latest
           /\ QueuePlan(F, kind).row.version = NextVersion
           /\ \A f \in QueuePlan(F, kind).row.cand : F[f].use = "eligible"
  <1> DEFINE p == QueuePlan(F, kind)
             due == \/ TriggerReason(F, EligibleFacts(F), kind) \in Immediate
                    \/ Pending # {} /\ run[Target].due
  <1>1. Pending # {} => Target \in Runs /\ run[Target].st = "queued"
    BY DEF Born, Pending, Target
  <1>2. Pending = {} => Target = NewRun
    BY DEF Target
  <1>3. /\ p.run \in {NoRun, Target}
        /\ p.row.st = "queued" /\ p.row.cand = EligibleFacts(F)
        /\ p.row.base = Latest /\ p.row.version = NextVersion
        /\ p.row.attempts = IF Pending = {} THEN 0 ELSE run[Target].attempts
    BY DEF QueuePlan
  <1>4. p.row.attempts \in Nat /\ p.row.attempts < Allowance
    <2>1. CASE Pending = {}
      BY <1>3, <2>1, MemoryConsts DEF Allowance, TablesOK
    <2>2. CASE Pending # {}
      BY <1>1, <1>3, <2>2 DEF AttemptsOK, TablesOK, RunRow
    <2>3. QED
      BY <2>1, <2>2
  <1>5. /\ EligibleFacts(F) \in SUBSET Facts
        /\ Evidence(F, EligibleFacts(F)) \in SUBSET Facts
        /\ \A f \in EligibleFacts(F) : F[f].use = "eligible"
    BY EligibleAre, EvidenceIsFacts
  <1>6. Latest \in Runs \cup {NoRun} /\ NextVersion \in Nat
    BY LatestIs
  <1>7. TriggerReason(F, EligibleFacts(F), kind) \in Reasons
    BY ReasonIsReason
  <1>8. due \in BOOLEAN
    OBVIOUS
  <1>9. p.row \in RunRow
    BY <1>3, <1>4, <1>5, <1>6, <1>7, <1>8 DEF QueuePlan, RunRow, RunStatus
  <1>10. p.run \in Runs => run[p.run].st = "queued"
    BY <1>1, <1>2, <1>3, MemoryConsts
  <1>11. p.run \in Runs \cup {NoRun, NewRun}
    BY <1>1, <1>2, <1>3
  <1>12. QED
    BY <1>3, <1>4, <1>5, <1>9, <1>10, <1>11 DEF GoodPlan

\* Writing a plan leaves every run as it is but one that is queued or new.
LEMMA PlannedMoves ==
    ASSUME TablesOK, NumberedOK, NEW p, GoodPlan(p), Planned(p)
    PROVE  /\ run' \in [Runs -> RunRow]
           /\ \E n \in Nat : Born' = 1 .. n
           /\ \A r \in Runs : \/ run'[r] = run[r]
                              \/ run[r].st \in {"none", "queued"} /\ run'[r] = p.row
  <1>1. PICK n \in Nat : Born = 1 .. n
    BY DEF NumberedOK
  <1>2. Cardinality(Born) = n
    BY <1>1, FS_Interval
  <1>3. CASE p.run = NoRun
    BY <1>1, <1>3, MemoryConsts DEF Planned, TablesOK, Born
  <1>4. CASE p.run = NewRun
    <2>1. n + 1 \in Runs /\ run' = [run EXCEPT ![n + 1] = p.row]
      BY <1>2, <1>4, MemoryAssumption DEF Planned, Runs, NoRun, NewRun
    <2>2. run[n + 1].st = "none"
      BY <1>1, <2>1, MemoryConsts DEF Born
    <2>3. run' \in [Runs -> RunRow] /\ run'[n + 1] = p.row
          /\ \A r \in Runs \ {n + 1} : run'[r] = run[r]
      BY <2>1 DEF TablesOK, GoodPlan
    <2>4. Born' = Born \cup {n + 1}
      BY <2>1, <2>3 DEF Born, GoodPlan
    <2>5. Born' = 1 .. (n + 1)
      BY <1>1, <2>4
    <2>6. QED
      BY <2>2, <2>3, <2>5
  <1>5. CASE p.run \in Runs
    <2>1. run' = [run EXCEPT ![p.run] = p.row]
      BY <1>5, MemoryConsts DEF Planned
    <2>2. run' \in [Runs -> RunRow] /\ run'[p.run] = p.row
          /\ \A r \in Runs \ {p.run} : run'[r] = run[r]
      BY <1>5, <2>1 DEF TablesOK, GoodPlan
    <2>3. Born' = Born
      BY <1>5, <2>2 DEF Born, GoodPlan
    <2>4. QED
      BY <1>1, <1>5, <2>2, <2>3 DEF GoodPlan
  <1>6. QED
    BY <1>3, <1>4, <1>5 DEF GoodPlan

-----------------------------------------------------------------------------
(* Lemmas: what leaves the chain and the workers as they are *)

\* The chain stays if modules only lose their place or their claims.
LEMMA ChainStays ==
    ASSUME TablesOK, ChainOK, module' \in [Runs -> ModuleRow],
           \A r \in Runs :
              /\ module'[r].version = module[r].version
              /\ module'[r].base = module[r].base
              /\ module'[r].st = "none" <=> module[r].st = "none"
              /\ module'[r].st = "active" => module[r].st = "active"
              /\ module'[r].claims # {} => module[r].claims # {}
              /\ run[r].st = "completed" => run'[r].st = "completed"
    PROVE  ChainOK' /\ Latest' = Latest /\ NextVersion' = NextVersion
  <1>1. Modules \subseteq Runs /\ Modules' = Modules
    BY DEF Modules
  <1>2. Latest' = Latest /\ NextVersion' = NextVersion
    BY <1>1, LatestStays
  <1>3. \A r \in Modules : module[r].base # NoRun => module[r].base \in Runs
    BY <1>1, MemoryConsts DEF TablesOK, ModuleRow
  <1>4. OneChain'
    BY <1>1, <1>2, <1>3 DEF ChainOK, OneChain
  <1>5. \A r \in Modules' : /\ run'[r].st = "completed"
                             /\ module'[r].base \in Modules' \cup {NoRun}
    BY <1>1 DEF ChainOK
  <1>6. Modules' # {} => \E r \in Modules' : \A q \in Modules' \ {r} :
                            module'[q].version < module'[r].version
    BY <1>1 DEF ChainOK
  <1>7. QED
    BY <1>2, <1>4, <1>5, <1>6 DEF ChainOK

\* What a request or the clock may do to a run.
Waits(r) ==
    \/ run'[r] = run[r]
    \/ /\ run[r].st \in {"none", "queued"}
       /\ run'[r].st = "queued"
       /\ run'[r].base = Latest /\ run'[r].version = NextVersion
       /\ \A f \in run'[r].cand : fact'[f].by = NoRun
    \/ /\ run[r].st = "queued" /\ run'[r].st = "queued"
       /\ run'[r].base = run[r].base /\ run'[r].version = run[r].version
       /\ run'[r].cand = run[r].cand

\* A worker's view stays true under a step of somebody else that changes no version.
LEMMA WorkersWait ==
    ASSUME TablesOK, WorkersOK, ChainOK,
           worker' = worker, restarts' = restarts,
           Known \subseteq Known', Latest' = Latest, NextVersion' = NextVersion,
           \A f \in Facts : /\ fact'[f].by = fact[f].by
                            /\ fact'[f].holder \in {fact[f].holder, NoRun},
           \A r \in Runs : Waits(r),
           \A r \in Runs : module'[r].st = "active" => module[r].st = "active"
    PROVE  WorkersOK'
  <1>1. SUFFICES ASSUME NEW w \in Workers PROVE WorkerOK(w)'
    BY DEF WorkersOK, OneWorker
  <1>2. worker[w] \in WorkerRow /\ worker'[w] = worker[w] /\ Allowance' = Allowance
    BY DEF TablesOK, Allowance
  <1>3. worker[w].seen \in RunRow
    BY <1>2 DEF WorkerRow
  <1>4. WorkerOK(w)
    BY DEF WorkersOK
  <1> DEFINE r == worker[w].run
             seen == worker[w].seen
  <1>5. \A q \in Runs : run[q].st # "queued" /\ run[q].st # "none" => run'[q] = run[q]
    BY DEF Waits
  <1>6. \A q \in Runs : run'[q].st \in {run[q].st, "queued"}
    BY DEF Waits
  <1>7. \A q \in Runs : run[q].cand \subseteq Facts
    BY DEF TablesOK, RunRow
  <1>8. seen.cand \subseteq Known'
    BY <1>4 DEF WorkerOK
  <1>9. worker[w].pc \in {"recovered", "reconcile"} => \A q \in Runs : run'[q].st # "running"
    BY <1>4, <1>6 DEF WorkerOK
  <1>10. worker[w].pc = "reconcile" =>
              /\ seen.st = "queued" /\ seen.attempts < Allowance
              /\ r \in Runs => run'[r].st = "queued"
    BY <1>4, <1>6 DEF WorkerOK
  <1>11. ASSUME worker[w].pc = "reserve"
         PROVE  /\ r \in Runs
                /\ run'[r].st = "queued" /\ seen.attempts < Allowance
                /\ worker[w].next.st # "stale" =>
                    /\ worker[w].next.base = Latest /\ worker[w].next.version = NextVersion
                    /\ run'[r].base \in {seen.base, Latest}
                    /\ run'[r].version \in {seen.version, NextVersion}
                    /\ \A f \in run'[r].cand \cup seen.cand : fact'[f].by = NoRun
    <2>1. /\ r \in Runs /\ run[r].st = "queued" /\ seen.attempts < Allowance
          /\ worker[w].next.st # "stale" =>
                /\ worker[w].next.base = Latest /\ worker[w].next.version = NextVersion
                /\ run[r].base \in {seen.base, Latest}
                /\ run[r].version \in {seen.version, NextVersion}
                /\ \A f \in run[r].cand \cup seen.cand : fact[f].by = NoRun
      BY <1>4, <1>11 DEF WorkerOK
    <2>2. seen.cand \subseteq Facts /\ run[r].cand \subseteq Facts
      BY <1>3, <1>7, <2>1 DEF RunRow
    <2>3. Waits(r)
      BY <2>1
    <2>4. QED
      BY <2>1, <2>2, <2>3 DEF Waits
  <1>12. ASSUME worker[w].pc \in {"draft", "commit"}
         PROVE  /\ r \in Runs /\ run'[r] = run[r] /\ run[r].st = "running"
                /\ run'[r].base = Latest /\ run'[r].version = NextVersion
                /\ \A f \in run'[r].cand : fact'[f].by = NoRun
    BY <1>4, <1>5, <1>7, <1>12 DEF WorkerOK, IsNext
  <1>13. ASSUME worker[w].pc = "commit", seen.base # NoRun, worker[w].parent # "active"
         PROVE  module'[seen.base].st # "active"
    BY <1>3, <1>4, <1>13 DEF WorkerOK, RunRow
  <1>14. worker[w].pc = "commit" => seen = run[r]
    BY <1>4 DEF WorkerOK
  <1>15. /\ \A f \in worker[w].held : f \in Known' /\ fact'[f].by = NoRun
         /\ worker[w].pc = "down" => worker[w].held = {}
    <2>1. worker[w].held \subseteq Facts
      BY <1>2 DEF WorkerRow
    <2>2. QED
      BY <1>4, <2>1 DEF WorkerOK
  <1>16. ASSUME worker[w].pc = "releasing"
         PROVE  /\ r \in Runs /\ run'[r].st = "running" /\ seen = run'[r]
                /\ \A f \in Facts : fact'[f].holder = r => f \in worker[w].held
    BY <1>4, <1>5, <1>16, MemoryConsts DEF WorkerOK
  <1>17. QED
    BY <1>2, <1>8, <1>9, <1>10, <1>11, <1>12, <1>13, <1>14, <1>15, <1>16
       DEF WorkerOK, IsNext

\* A step of one worker, while the others are down.
LEMMA WorkerMoves ==
    ASSUME TablesOK, WorkersOK, NEW w \in Workers,
           \A v \in Workers \ {w} : worker'[v] = worker[v] /\ worker[v].pc = "down",
           Known \subseteq Known', WorkerOK(w)'
    PROVE  WorkersOK'
  <1>1. ASSUME NEW v \in Workers \ {w} PROVE WorkerOK(v)'
    <2>1. /\ worker'[v].pc = "down" /\ worker'[v].seen.cand \subseteq Known'
          /\ worker'[v].held = {}
      BY DEF WorkersOK, WorkerOK
    <2>2. QED
      BY <2>1 DEF WorkerOK
  <1>2. QED
    BY <1>1 DEF WorkersOK, OneWorker

\* The lease of the kernel admits one worker.
LEMMA OthersAreDown ==
    ASSUME WorkersOK, NEW w \in Workers, worker[w].pc # "down" \/ LeaseFree(w)
    PROVE  \A v \in Workers \ {w} : worker[v].pc = "down"
  BY DEF WorkersOK, OneWorker, LeaseFree

-----------------------------------------------------------------------------
(* Requests *)

\* A new fact takes a number that no fact has, and nothing but what is invalid
\* changes besides.
LEMMA RequestFacts ==
    ASSUME TablesOK, NumberedOK, FactsOK,
           NEW S, NEW st \in {"superseded", "retracted"}, NEW k \in Kinds \ {"none"},
           NextFact <= MaxFacts, fact' = WithFact(Invalidated(S, st), k)
    PROVE  /\ fact' \in [Facts -> FactRow]
           /\ Known \subseteq Known' /\ \E n \in Nat : Known' = 1 .. n
           /\ \A f \in Facts :
                 \/ fact'[f] = fact[f]
                 \/ /\ fact'[f].holder = NoRun /\ fact'[f].use = "excluded"
                    /\ fact'[f].by = fact[f].by
                 \/ f \notin Known /\ f \in Known' /\ fact'[f] = NewFact(k)
  <1>1. PICK n \in Nat : Known = 1 .. n
    BY DEF NumberedOK
  <1>2. NextFact = n + 1
    <2>1. Cardinality(Known) = n
      BY <1>1, FS_Interval
    <2>2. NextFact = 1 + Cardinality(Known)
      BY DEF NextFact, Known
    <2>3. QED
      BY <2>1, <2>2
  <1>3. n + 1 \in Facts /\ n + 1 \notin Known
    BY <1>1, <1>2, MemoryConsts DEF Facts
  <1> DEFINE F == Invalidated(S, st)
             Row(f) == [fact[f] EXCEPT !.node = st, !.use = "excluded", !.holder = NoRun]
  <1>4. ASSUME NEW f \in Facts
        PROVE  /\ fact[f] \in FactRow /\ Row(f) \in FactRow
               /\ Row(f).use = "excluded" /\ Row(f).holder = NoRun
               /\ Row(f).by = fact[f].by /\ Row(f).kind = fact[f].kind
    BY DEF TablesOK, FactRow
  <1> HIDE DEF Row
  <1>5. /\ F = [f \in Facts |-> IF f \in S THEN Row(f) ELSE fact[f]]
    BY DEF Invalidated, Row
  <1>6. F \in [Facts -> FactRow] /\ \A f \in Facts : F[f].kind = fact[f].kind
    BY <1>4, <1>5
  <1> HIDE DEF F
  <1>7. NewFact(k) \in FactRow /\ NewFact(k).kind = k
    BY ConstantRows DEF NewFact
  <1>8. fact' = [F EXCEPT ![n + 1] = NewFact(k)]
    BY <1>2 DEF WithFact, F
  <1>9. /\ fact' \in [Facts -> FactRow]
        /\ fact'[n + 1] = NewFact(k)
        /\ \A f \in Facts \ {n + 1} : fact'[f] = F[f]
    BY <1>3, <1>6, <1>7, <1>8
  <1>10. Known' = Known \cup {n + 1}
    BY <1>3, <1>6, <1>7, <1>9 DEF Known
  <1>11. Known' = 1 .. (n + 1)
    BY <1>1, <1>10
  <1>12. QED
    BY <1>3, <1>4, <1>5, <1>9, <1>10, <1>11

\* What is derived from invalid facts loses its claims and is not active.
LEMMA RequestModules ==
    ASSUME TablesOK, NEW S, NEW st \in {"superseded", "retracted"},
           module' = Underived(S, st)
    PROVE  /\ module' \in [Runs -> ModuleRow]
           /\ \A r \in Runs :
              /\ module'[r].version = module[r].version
              /\ module'[r].base = module[r].base
              /\ module'[r].st = "none" <=> module[r].st = "none"
              /\ module'[r].st = "active" => module[r].st = "active"
              /\ module'[r].claims # {} => module[r].claims # {}
  <1> DEFINE Row(r) == [module[r] EXCEPT
                !.st = IF module[r].st = "active" /\ module[r].evid \cap S # {}
                       THEN st ELSE module[r].st,
                !.claims = {c \in module[r].claims : c \cap S = {}}]
  <1>1. ASSUME NEW r \in Runs
        PROVE  /\ Row(r) \in ModuleRow
               /\ Row(r).version = module[r].version /\ Row(r).base = module[r].base
               /\ Row(r).st = "none" <=> module[r].st = "none"
               /\ Row(r).st = "active" => module[r].st = "active"
               /\ Row(r).claims # {} => module[r].claims # {}
    <2>1. module[r] \in ModuleRow
      BY DEF TablesOK
    <2>2. /\ Row(r).st = IF module[r].st = "active" /\ module[r].evid \cap S # {}
                         THEN st ELSE module[r].st
          /\ Row(r).claims = {c \in module[r].claims : c \cap S = {}}
          /\ Row(r).version = module[r].version /\ Row(r).base = module[r].base
      BY <2>1 DEF ModuleRow
    <2>3. Row(r) \in ModuleRow
      <3>1. {c \in module[r].claims : c \cap S = {}} \in SUBSET SUBSET Facts
        BY <2>1 DEF ModuleRow
      <3>2. (IF module[r].st = "active" /\ module[r].evid \cap S # {}
             THEN st ELSE module[r].st) \in ModuleStatus
        BY <2>1 DEF ModuleRow, ModuleStatus
      <3>3. QED
        BY <2>1, <3>1, <3>2 DEF ModuleRow
    <2>4. QED
      BY <2>2, <2>3
  <1> HIDE DEF Row
  <1>2. module' = [r \in Runs |-> Row(r)]
    BY DEF Underived, Row
  <1>3. QED
    BY <1>1, <1>2

\* An event, with or without feedback: facts are invalidated and one is added.
LEMMA RequestKeeps ==
    ASSUME MemoryInv, NEW S, NEW st \in {"superseded", "retracted"},
           NEW k \in Kinds \ {"none"}, NextFact <= MaxFacts,
           fact' = WithFact(Invalidated(S, st), k),
           module' = Underived(S, st),
           NEW F, F = fact', Planned(QueuePlan(F, k)),
           UNCHANGED <<worker, restarts, dbFailures>>,
           feedback' \in FeedbackRow, feedback' = NoFeedback \/ feedback'.kind # "none"
    PROVE  MemoryInv'
  <1>1. /\ fact' \in [Facts -> FactRow]
        /\ Known \subseteq Known' /\ \E n \in Nat : Known' = 1 .. n
        /\ \A f \in Facts :
              \/ fact'[f] = fact[f]
              \/ /\ fact'[f].holder = NoRun /\ fact'[f].use = "excluded"
                 /\ fact'[f].by = fact[f].by
              \/ f \notin Known /\ f \in Known' /\ fact'[f] = NewFact(k)
    BY RequestFacts DEF MemoryInv
  <1>2. /\ module' \in [Runs -> ModuleRow]
        /\ \A r \in Runs :
              /\ module'[r].version = module[r].version
              /\ module'[r].base = module[r].base
              /\ module'[r].st = "none" <=> module[r].st = "none"
              /\ module'[r].st = "active" => module[r].st = "active"
              /\ module'[r].claims # {} => module[r].claims # {}
    BY RequestModules DEF MemoryInv
  <1> DEFINE p == QueuePlan(F, k)
  <1>3. /\ GoodPlan(p) /\ p.row.base = Latest /\ p.row.version = NextVersion
        /\ \A f \in p.row.cand : F[f].use = "eligible"
    BY PlanIsGood DEF MemoryInv
  <1> HIDE DEF p
  <1>4. /\ run' \in [Runs -> RunRow]
        /\ \E n \in Nat : Born' = 1 .. n
        /\ \A r \in Runs : \/ run'[r] = run[r]
                           \/ run[r].st \in {"none", "queued"} /\ run'[r] = p.row
    BY <1>3, PlannedMoves DEF MemoryInv, p
  <1>5. NewFact(k).use = "eligible" /\ NewFact(k).by = NoRun /\ NewFact(k).holder = NoRun
    BY DEF NewFact
  <1>6. TablesOK' /\ NumberedOK'
    BY <1>1, <1>2, <1>4 DEF MemoryInv, TablesOK, NumberedOK
  <1>7. \A f \in Facts : /\ fact'[f].by = fact[f].by
                         /\ fact'[f].holder \in {fact[f].holder, NoRun}
    BY <1>1, <1>5 DEF MemoryInv, FactsOK
  <1>8. FactsOK'
    BY <1>1, <1>5, <1>7 DEF MemoryInv, FactsOK
  <1>9. ReservedIsHeld'
    <2>1. SUFFICES ASSUME NEW f \in Facts, fact'[f].use = "reserved"
                   PROVE  \/ run'[fact'[f].holder].st = "running"
                          \/ /\ run'[fact'[f].holder].st = "completed"
                             /\ f \notin run'[fact'[f].holder].cand \cap
                                         run'[fact'[f].holder].evid
      BY DEF ReservedIsHeld
    <2>2. fact'[f] = fact[f]
      BY <1>1, <1>5, <2>1
    <2>3. fact[f].holder \in Runs
      BY <2>1, <2>2 DEF MemoryInv, FactsOK, TablesOK, FactRow
    <2>4. QED
      BY <1>4, <2>1, <2>2, <2>3 DEF MemoryInv, ReservedIsHeld
  <1>10. p.row.cand \subseteq Known' /\ \A f \in p.row.cand : fact'[f].by = NoRun
    <2>1. p.row.cand \subseteq Facts
      BY <1>3 DEF GoodPlan, RunRow
    <2>2. QED
      BY <1>3, <1>8, <2>1 DEF FactsOK
  <1>11. AttemptsOK'
    <2>1. Allowance' = Allowance /\ Allowance \in Nat
      BY MemoryConsts DEF Allowance, MemoryInv, TablesOK
    <2>2. p.row.attempts \in Nat /\ p.row.attempts < Allowance /\ p.row.st = "queued"
      BY <1>3 DEF GoodPlan, RunRow
    <2>3. p.row.attempts <= Allowance
      BY <2>1, <2>2
    <2>4. QED
      BY <1>1, <1>4, <1>10, <2>1, <2>2, <2>3 DEF MemoryInv, AttemptsOK
  <1>12. ChainOK' /\ Latest' = Latest /\ NextVersion' = NextVersion
    BY <1>2, <1>4, ChainStays DEF MemoryInv
  <1>13. \A r \in Runs : Waits(r)
    BY <1>3, <1>4, <1>10 DEF Waits, GoodPlan
  <1>14. WorkersOK'
    BY <1>1, <1>2, <1>7, <1>12, <1>13, WorkersWait DEF MemoryInv
  <1>15. QED
    BY <1>6, <1>8, <1>9, <1>11, <1>12, <1>14 DEF MemoryInv

\* An event adds a fact and plans a run for it.
LEMMA RecordEventKeeps ==
    ASSUME MemoryInv, NEW k \in {"note", "goal"}, RecordEvent(k)
    PROVE  MemoryInv'
  <1> DEFINE old == IF k = "goal"
                    THEN {f \in Facts : fact[f].kind = "goal" /\ Live(fact, f)} ELSE {}
  <1>1. /\ NextFact <= MaxFacts
        /\ fact' = WithFact(Invalidated(old, "superseded"), k)
        /\ module' = Underived(old, "superseded")
        /\ Planned(QueuePlan(fact', k))
        /\ UNCHANGED <<worker, feedback, restarts, dbFailures>>
    BY DEF RecordEvent
  <1>2. k \in Kinds \ {"none"}
    BY DEF Kinds
  <1>3. feedback' \in FeedbackRow /\ (feedback' = NoFeedback \/ feedback'.kind # "none")
    BY <1>1 DEF MemoryInv, TablesOK
  <1> HIDE DEF old
  <1>4. QED
    BY <1>1, <1>2, <1>3, RequestKeeps

\* Feedback is read against the module that it is about ...
LEMMA FeedbackReadKeeps ==
    ASSUME MemoryInv, NEW r \in Runs, NEW k \in Offered, NEW c \in module[r].claims,
           FeedbackRead(r, c, k)
    PROVE  MemoryInv'
  <1>1. /\ feedback' = [claim |-> c, kind |-> k]
        /\ UNCHANGED <<fact, run, module, worker, restarts, dbFailures>>
    BY DEF FeedbackRead
  <1>2. c \in SUBSET Facts
    BY DEF MemoryInv, TablesOK, ModuleRow
  <1>3. feedback' \in FeedbackRow /\ feedback'.kind # "none"
    BY <1>1, <1>2, MemoryConsts DEF FeedbackRow, Feedbacks
  <1>4. TablesOK'
    BY <1>1, <1>3 DEF MemoryInv, TablesOK
  <1>5. /\ Known' = Known /\ Born' = Born /\ Modules' = Modules /\ Allowance' = Allowance
        /\ Latest' = Latest /\ NextVersion' = NextVersion
    BY <1>1 DEF Known, Born, Modules, Allowance, Latest, NextVersion
  <1>6. NumberedOK' /\ FactsOK' /\ ReservedIsHeld' /\ AttemptsOK' /\ ChainOK'
    BY <1>1, <1>5 DEF MemoryInv, NumberedOK, FactsOK, ReservedIsHeld, AttemptsOK,
                      ChainOK, OneChain
  <1>7. WorkersOK'
    BY <1>1, <1>5, WorkersWait DEF MemoryInv, Waits
  <1>8. QED
    BY <1>4, <1>6, <1>7 DEF MemoryInv

\* ... and written with what was read.
LEMMA FeedbackWriteKeeps ==
    ASSUME MemoryInv, FeedbackWrite
    PROVE  MemoryInv'
  <1> DEFINE k == feedback.kind
             S == IF k = "confirmed" THEN {} ELSE feedback.claim
             st == IF k = "retracted" THEN "retracted" ELSE "superseded"
  <1>1. /\ NextFact <= MaxFacts
        /\ fact' = WithFact(Invalidated(S, st), k)
        /\ module' = Underived(S, st)
        /\ Planned(QueuePlan(fact', k))
        /\ feedback' = NoFeedback
        /\ UNCHANGED <<worker, restarts, dbFailures>>
    BY DEF FeedbackWrite
  <1>2. k \in Kinds \ {"none"}
    <2>1. feedback # NoFeedback
      BY DEF FeedbackWrite
    <2>2. QED
      BY <2>1 DEF Kinds, MemoryInv, TablesOK, FeedbackRow
  <1>3. st \in {"superseded", "retracted"}
    OBVIOUS
  <1>4. feedback' \in FeedbackRow
    BY <1>1, ConstantRows
  <1> HIDE DEF k, S, st
  <1>5. QED
    BY <1>1, <1>2, <1>3, <1>4, RequestKeeps

\* Time passes: a queued run comes to be due.
LEMMA ElapseKeeps ==
    ASSUME MemoryInv, NEW r \in Runs, Elapse(r)
    PROVE  MemoryInv'
  <1>1. /\ run[r].st = "queued" /\ run' = [run EXCEPT ![r].due = TRUE]
        /\ UNCHANGED <<fact, module, worker, feedback, restarts, dbFailures>>
    BY DEF Elapse
  <1>2. run \in [Runs -> RunRow]
    BY DEF MemoryInv, TablesOK
  <1>3. /\ run' \in [Runs -> RunRow]
        /\ \A q \in Runs : /\ run'[q].st = run[q].st /\ run'[q].base = run[q].base
                           /\ run'[q].version = run[q].version
                           /\ run'[q].cand = run[q].cand /\ run'[q].evid = run[q].evid
                           /\ run'[q].attempts = run[q].attempts
        /\ \A q \in Runs \ {r} : run'[q] = run[q]
    BY <1>1, <1>2 DEF RunRow
  <1>4. TablesOK'
    BY <1>1, <1>3 DEF MemoryInv, TablesOK
  <1>5. /\ Known' = Known /\ Born' = Born /\ Modules' = Modules /\ Allowance' = Allowance
        /\ Latest' = Latest /\ NextVersion' = NextVersion
    BY <1>1, <1>3 DEF Known, Born, Modules, Allowance, Latest, NextVersion
  <1>6. NumberedOK' /\ FactsOK' /\ AttemptsOK'
    BY <1>1, <1>3, <1>5 DEF MemoryInv, NumberedOK, FactsOK, AttemptsOK
  <1>7. ReservedIsHeld'
    <2>1. \A f \in Facts : fact[f].use = "reserved" => fact[f].holder \in Runs
      BY DEF MemoryInv, FactsOK, TablesOK, FactRow
    <2>2. QED
      BY <1>1, <1>3, <2>1 DEF MemoryInv, ReservedIsHeld
  <1>8. ChainOK'
    BY <1>1, <1>3, <1>5 DEF MemoryInv, ChainOK, OneChain, Modules
  <1>9. \A q \in Runs : Waits(q)
    BY <1>1, <1>3 DEF Waits
  <1>10. WorkersOK'
    BY <1>1, <1>5, <1>9, WorkersWait DEF MemoryInv
  <1>11. QED
    BY <1>4, <1>6, <1>7, <1>8, <1>10 DEF MemoryInv

-----------------------------------------------------------------------------
(* The worker *)

\* Only a restart gives a run another attempt.
LEMMA AllowanceGrows ==
    ASSUME restarts \in Nat, restarts' = restarts \/ restarts' = restarts + 1
    PROVE  /\ Allowance \in Nat /\ Allowance' \in Nat /\ Allowance <= Allowance'
           /\ restarts' = restarts + 1 => Allowance < Allowance'
  <1>1. MaxAttempts \in Nat
    BY MemoryConsts
  <1>2. QED
    BY <1>1 DEF Allowance

\* A worker that stops, and whatever run it was at stays as it is.
LEMMA DieKeeps ==
    ASSUME MemoryInv, NEW w \in Workers, Die(w) \/ CommitFails(w)
    PROVE  MemoryInv'
  <1>1. /\ worker[w].pc # "down" /\ restarts' \in Nat /\ dbFailures' \in Nat
        /\ UNCHANGED <<fact, run, module, feedback>>
        /\ \/ restarts' = restarts + 1 /\ worker' = [worker EXCEPT ![w] = Idle("down")]
           \/ restarts' = restarts /\ worker' = [worker EXCEPT ![w] = Idle("idle")]
    BY DEF Die, CommitFails, Rest, MemoryInv, TablesOK
  <1>2. Idle("down") \in WorkerRow /\ Idle("idle") \in WorkerRow
    BY ConstantRows DEF Pcs
  <1>3. /\ worker' \in [Workers -> WorkerRow]
        /\ worker'[w] \in {Idle("down"), Idle("idle")}
        /\ \A v \in Workers \ {w} : worker'[v] = worker[v]
        /\ worker'[w].pc = "idle" \/ restarts' = restarts + 1
    <2>1. worker \in [Workers -> WorkerRow] /\ Idle("idle").pc = "idle"
      BY DEF MemoryInv, TablesOK, Idle
    <2>2. QED
      BY <1>1, <1>2, <2>1
  <1>4. TablesOK'
    BY <1>1, <1>3 DEF MemoryInv, TablesOK
  <1>5. /\ Known' = Known /\ Born' = Born /\ Modules' = Modules
        /\ Latest' = Latest /\ NextVersion' = NextVersion
    BY <1>1 DEF Known, Born, Modules, Latest, NextVersion
  <1>6. NumberedOK' /\ FactsOK' /\ ReservedIsHeld' /\ ChainOK'
    BY <1>1, <1>5 DEF MemoryInv, NumberedOK, FactsOK, ReservedIsHeld, ChainOK, OneChain
  <1>7. AttemptsOK'
    <2>1. Allowance \in Nat /\ Allowance' \in Nat /\ Allowance <= Allowance'
          /\ (restarts' = restarts + 1 => Allowance < Allowance')
      <3>1. restarts \in Nat /\ (restarts' = restarts \/ restarts' = restarts + 1)
        BY <1>1 DEF MemoryInv, TablesOK
      <3>2. QED
        BY <3>1, AllowanceGrows
    <2>2. ASSUME NEW r \in Runs
          PROVE  /\ run'[r].attempts <= Allowance'
                 /\ \/ run'[r].st = "queued"
                    \/ run'[r].st = "running" /\ \A v \in Workers : worker'[v].pc \in Before
                    => run'[r].attempts < Allowance'
                 /\ run'[r].st = "failed" => run'[r].attempts >= MaxAttempts
                 /\ run'[r].cand \subseteq Known'
      <3>1. /\ run[r].attempts \in Nat /\ run[r].attempts <= Allowance
            /\ run[r].st = "queued" => run[r].attempts < Allowance
            /\ run[r].st = "failed" => run[r].attempts >= MaxAttempts
            /\ run[r].cand \subseteq Known
        BY DEF MemoryInv, AttemptsOK, TablesOK, RunRow
      <3>2. CASE restarts' = restarts + 1
        BY <1>1, <1>5, <2>1, <3>1, <3>2
      <3>3. CASE worker'[w].pc = "idle"
        BY <1>1, <1>5, <2>1, <3>1, <3>3 DEF Before
      <3>4. QED
        BY <1>3, <3>2, <3>3
    <2>3. QED
      BY <2>2 DEF AttemptsOK
  <1>8. WorkerOK(w)'
    BY <1>3 DEF WorkerOK, Idle, NullRun
  <1>9. WorkersOK'
    BY <1>1, <1>3, <1>5, <1>8, OthersAreDown, WorkerMoves DEF MemoryInv
  <1>10. QED
    BY <1>4, <1>6, <1>7, <1>9 DEF MemoryInv

\* Facts that a run held are eligible again.
LEMMA FreedMoves ==
    ASSUME TablesOK, FactsOK, NEW S \in SUBSET Facts,
           \A f \in S : f \in Known /\ fact[f].by = NoRun,
           fact' = Freed(S)
    PROVE  /\ fact' \in [Facts -> FactRow] /\ Known' = Known
           /\ \A f \in Facts :
                 /\ fact'[f].by = fact[f].by
                 /\ f \notin S => fact'[f] = fact[f]
                 /\ f \in S => fact'[f].use = "eligible" /\ fact'[f].holder = NoRun
           /\ FactsOK'
  <1> DEFINE Row(f) == [fact[f] EXCEPT !.use = "eligible", !.holder = NoRun]
  <1>1. \A f \in Facts : /\ fact[f] \in FactRow /\ Row(f) \in FactRow
                         /\ Row(f).use = "eligible" /\ Row(f).holder = NoRun
                         /\ Row(f).by = fact[f].by /\ Row(f).kind = fact[f].kind
    BY DEF TablesOK, FactRow
  <1> HIDE DEF Row
  <1>2. fact' = [f \in Facts |-> IF f \in S THEN Row(f) ELSE fact[f]]
    BY DEF Freed, Row
  <1>3. fact' \in [Facts -> FactRow] /\ \A f \in Facts : fact'[f].kind = fact[f].kind
    BY <1>1, <1>2
  <1>4. Known' = Known
    BY <1>3 DEF Known
  <1>5. \A f \in Facts :
                 /\ fact'[f].by = fact[f].by
                 /\ f \notin S => fact'[f] = fact[f]
                 /\ f \in S => fact'[f].use = "eligible" /\ fact'[f].holder = NoRun
    BY <1>1, <1>2
  <1>6. FactsOK'
    BY <1>4, <1>5 DEF FactsOK
  <1>7. QED
    BY <1>3, <1>4, <1>5, <1>6

\* What runs hold can be freed: it has not been consumed.
LEMMA HeldIsKnown ==
    ASSUME TablesOK, FactsOK, NEW B \in SUBSET Runs
    PROVE  /\ Holding(B) \in SUBSET Facts
           /\ \A f \in Holding(B) : f \in Known /\ fact[f].by = NoRun
  BY MemoryConsts DEF Holding, FactsOK

\* A step of the worker that only reads.
LEMMA OnlyWorkerMoves ==
    ASSUME MemoryInv, NEW w \in Workers,
           \/ LeaseFree(w)
           \/ worker[w].pc # "down" /\ worker'[w].pc \notin Before,
           UNCHANGED <<fact, run, module, feedback, restarts, dbFailures>>,
           worker' \in [Workers -> WorkerRow],
           \A v \in Workers \ {w} : worker'[v] = worker[v],
           WorkerOK(w)'
    PROVE  MemoryInv'
  <1>1. TablesOK'
    BY DEF MemoryInv, TablesOK
  <1>2. /\ Known' = Known /\ Born' = Born /\ Modules' = Modules /\ Allowance' = Allowance
        /\ Latest' = Latest /\ NextVersion' = NextVersion
    BY DEF Known, Born, Modules, Allowance, Latest, NextVersion
  <1>3. NumberedOK' /\ FactsOK' /\ ReservedIsHeld' /\ ChainOK'
    BY <1>2 DEF MemoryInv, NumberedOK, FactsOK, ReservedIsHeld, ChainOK, OneChain
  <1>4. AttemptsOK'
    <2>1. (\A v \in Workers : worker'[v].pc \in Before) =>
             \A v \in Workers : worker[v].pc \in Before
      BY DEF LeaseFree, Before
    <2>2. QED
      BY <1>2, <2>1 DEF MemoryInv, AttemptsOK
  <1>5. WorkersOK'
    BY <1>2, OthersAreDown, WorkerMoves DEF MemoryInv
  <1>6. QED
    BY <1>1, <1>3, <1>4, <1>5 DEF MemoryInv

\* A worker that starts reads the facts of one that died,
LEMMA StartKeeps ==
    ASSUME MemoryInv, NEW w \in Workers, Start(w)
    PROVE  MemoryInv'
  <1> DEFINE new == [Idle("recovering") EXCEPT !.held = Holding(FirstBroken)]
  <1>1. /\ worker[w].pc = "down" /\ LeaseFree(w)
        /\ worker' = [worker EXCEPT ![w] = new]
        /\ UNCHANGED <<fact, run, module, feedback, restarts, dbFailures>>
    BY DEF Start
  <1>2. /\ Holding(FirstBroken) \in SUBSET Facts
        /\ \A f \in Holding(FirstBroken) : f \in Known /\ fact[f].by = NoRun
    <2>1. FirstBroken \in SUBSET Runs
      BY DEF FirstBroken, Broken
    <2>2. QED
      BY <2>1, HeldIsKnown DEF MemoryInv
  <1>3. /\ new \in WorkerRow /\ new.pc = "recovering" /\ new.seen.cand = {}
        /\ new.held = Holding(FirstBroken)
    <2>1. /\ Idle("recovering") \in WorkerRow /\ Idle("recovering").pc = "recovering"
          /\ Idle("recovering").seen.cand = {}
      BY ConstantRows DEF Pcs, Idle, NullRun
    <2>2. QED
      BY <1>2, <2>1 DEF WorkerRow
  <1> HIDE DEF new
  <1>4. /\ worker' \in [Workers -> WorkerRow] /\ worker'[w] = new
        /\ \A v \in Workers \ {w} : worker'[v] = worker[v]
    BY <1>1, <1>3 DEF MemoryInv, TablesOK
  <1>5. Known' = Known
    BY <1>1 DEF Known
  <1>6. WorkerOK(w)'
    BY <1>1, <1>2, <1>3, <1>4, <1>5 DEF WorkerOK
  <1>7. QED
    BY <1>1, <1>3, <1>4, <1>6, OnlyWorkerMoves

\* and releases its runs.
LEMMA RecoverKeeps ==
    ASSUME MemoryInv, NEW w \in Workers, Recover(w)
    PROVE  MemoryInv'
  <1> DEFINE S == worker[w].held \cup Holding(Broken)
             Row(r) == [run[r] EXCEPT !.st = "queued", !.due = TRUE]
  <1>1. /\ worker[w].pc = "recovering"
        /\ fact' = Freed(S) /\ run' = Requeued(Broken)
        /\ worker' = [worker EXCEPT ![w] = Idle("recovered")]
        /\ UNCHANGED <<module, feedback, restarts, dbFailures>>
    BY DEF Recover
  <1>2. S \in SUBSET Facts /\ \A f \in S : f \in Known /\ fact[f].by = NoRun
    <2>1. Broken \in SUBSET Runs
      BY DEF Broken
    <2>2. worker[w].held \in SUBSET Facts
      BY DEF MemoryInv, TablesOK, WorkerRow
    <2>3. \A f \in worker[w].held : f \in Known /\ fact[f].by = NoRun
      BY DEF MemoryInv, WorkersOK, WorkerOK
    <2>4. QED
      BY <2>1, <2>2, <2>3, HeldIsKnown DEF MemoryInv
  <1>3. \A f \in Facts : fact[f].holder \in Broken => f \in S
    BY DEF Holding
  <1> HIDE DEF S
  <1>4. /\ fact' \in [Facts -> FactRow] /\ Known' = Known
        /\ \A f \in Facts : /\ f \notin S => fact'[f] = fact[f]
                            /\ f \in S => fact'[f].use = "eligible"
        /\ FactsOK'
    BY <1>1, <1>2, FreedMoves DEF MemoryInv
  <1>5. \A r \in Runs : /\ run[r] \in RunRow /\ Row(r) \in RunRow
                        /\ Row(r).st = "queued" /\ Row(r).attempts = run[r].attempts
                        /\ Row(r).cand = run[r].cand
    BY DEF MemoryInv, TablesOK, RunRow, RunStatus
  <1> HIDE DEF Row
  <1>6. run' = [r \in Runs |-> IF r \in Broken THEN Row(r) ELSE run[r]]
    BY <1>1 DEF Requeued, Row
  <1>7. /\ run' \in [Runs -> RunRow]
        /\ \A r \in Runs : /\ r \in Broken => run'[r].st = "queued"
                           /\ r \notin Broken => run'[r] = run[r]
                           /\ run'[r].attempts = run[r].attempts
                           /\ run'[r].cand = run[r].cand
                           /\ run[r].st = "running" <=> r \in Broken
    BY <1>5, <1>6 DEF Broken
  <1>8. Born' = Born
    BY <1>7 DEF Born
  <1>9. /\ Idle("recovered") \in WorkerRow /\ Idle("recovered").pc = "recovered"
        /\ Idle("recovered").seen.cand = {} /\ Idle("recovered").held = {}
    BY ConstantRows DEF Pcs, Idle, NullRun
  <1>10. /\ worker' \in [Workers -> WorkerRow] /\ worker'[w] = Idle("recovered")
         /\ \A v \in Workers \ {w} : worker'[v] = worker[v] /\ worker[v].pc = "down"
    BY <1>1, <1>9, OthersAreDown DEF MemoryInv, TablesOK
  <1>11. TablesOK' /\ NumberedOK'
    BY <1>1, <1>4, <1>7, <1>8, <1>10 DEF MemoryInv, TablesOK, NumberedOK
  <1>12. ReservedIsHeld'
    <2>1. SUFFICES ASSUME NEW f \in Facts, fact'[f].use = "reserved"
                   PROVE  \/ run'[fact'[f].holder].st = "running"
                          \/ /\ run'[fact'[f].holder].st = "completed"
                             /\ f \notin run'[fact'[f].holder].cand \cap
                                         run'[fact'[f].holder].evid
      BY DEF ReservedIsHeld
    <2>2. f \notin S
      BY <1>4, <2>1
    <2>3. fact'[f] = fact[f] /\ fact[f].holder \notin Broken
      BY <1>3, <1>4, <2>2
    <2>4. fact[f].holder \in Runs
      BY <2>1, <2>3 DEF MemoryInv, FactsOK, TablesOK, FactRow
    <2>5. QED
      BY <1>7, <2>1, <2>3, <2>4 DEF MemoryInv, ReservedIsHeld
  <1>13. AttemptsOK'
    <2>1. Allowance' = Allowance
      BY <1>1 DEF Allowance
    <2>2. \A v \in Workers : worker[v].pc \in Before
      BY <1>1, <1>10 DEF Before
    <2>3. ASSUME NEW r \in Runs
          PROVE  /\ run'[r].attempts <= Allowance'
                 /\ \/ run'[r].st = "queued"
                    \/ run'[r].st = "running" /\ \A v \in Workers : worker'[v].pc \in Before
                    => run'[r].attempts < Allowance'
                 /\ run'[r].st = "failed" => run'[r].attempts >= MaxAttempts
                 /\ run'[r].cand \subseteq Known'
      BY <1>4, <1>7, <2>1, <2>2 DEF MemoryInv, AttemptsOK
    <2>4. QED
      BY <2>3 DEF AttemptsOK
  <1>14. ChainOK'
    BY <1>1, <1>7, ChainStays DEF MemoryInv, TablesOK
  <1>15. WorkerOK(w)'
    <2>1. \A r \in Runs : run'[r].st # "running"
      BY <1>7
    <2>2. QED
      BY <1>9, <1>10, <2>1 DEF WorkerOK
  <1>16. WorkersOK'
    BY <1>4, <1>10, <1>15, WorkerMoves DEF MemoryInv
  <1>17. QED
    BY <1>4, <1>11, <1>12, <1>13, <1>14, <1>16 DEF MemoryInv

\* The worker reads the facts for the next plan.
LEMMA ReconcileReadKeeps ==
    ASSUME MemoryInv, NEW w \in Workers, ReconcileRead(w)
    PROVE  MemoryInv'
  <1> DEFINE open == {f \in Facts : fact[f].use = "eligible"}
             newest == CHOOSE f \in open : \A g \in open : g <= f
             plan == IF open = {} THEN NoPlan ELSE QueuePlan(fact, fact[newest].kind)
             new == IF plan.run = NoRun THEN Idle("idle")
                    ELSE [Idle("reconcile") EXCEPT !.run = plan.run, !.seen = plan.row]
  <1>1. /\ worker[w].pc = "recovered"
        /\ worker' = [worker EXCEPT ![w] = new]
        /\ UNCHANGED <<fact, run, module, feedback, restarts, dbFailures>>
    BY DEF ReconcileRead
  <1>2. \/ plan.run = NoRun
        \/ GoodPlan(plan) /\ \A f \in plan.row.cand : fact[f].use = "eligible"
    <2>1. CASE open = {}
      BY <2>1 DEF NoPlan
    <2>2. CASE open # {}
      BY <2>2, PlanIsGood DEF MemoryInv
    <2>3. QED
      BY <2>1, <2>2
  <1> HIDE DEF plan
  <1>3. ASSUME plan.run # NoRun
        PROVE  /\ new \in WorkerRow /\ new.pc = "reconcile" /\ new.run = plan.run
               /\ new.seen = plan.row /\ new.held = {}
    <2>1. /\ Idle("reconcile") \in WorkerRow /\ Idle("reconcile").pc = "reconcile"
          /\ Idle("reconcile").held = {}
      BY ConstantRows DEF Pcs, Idle
    <2>2. plan.run \in Runs \cup {NoRun, NewRun} /\ plan.row \in RunRow
      BY <1>2, <1>3 DEF GoodPlan
    <2>3. QED
      BY <1>3, <2>1, <2>2 DEF WorkerRow
  <1>4. plan.run = NoRun => /\ new \in WorkerRow /\ new.pc = "idle"
                            /\ new.seen.cand = {} /\ new.held = {}
    BY ConstantRows DEF Pcs, Idle, NullRun
  <1> HIDE DEF new
  <1>5. /\ worker' \in [Workers -> WorkerRow] /\ worker'[w] = new
        /\ \A v \in Workers \ {w} : worker'[v] = worker[v]
    BY <1>1, <1>3, <1>4 DEF MemoryInv, TablesOK
  <1>6. Known' = Known /\ Allowance' = Allowance
    BY <1>1 DEF Known, Allowance
  <1>7. WorkerOK(w)'
    <2>1. CASE plan.run = NoRun
      BY <1>4, <1>5, <1>6, <2>1 DEF WorkerOK
    <2>2. CASE plan.run # NoRun
      <3>1. \A q \in Runs : run[q].st # "running"
        BY <1>1 DEF MemoryInv, WorkersOK, WorkerOK
      <3>2. plan.row.cand \subseteq Known
        <4>1. plan.row.cand \subseteq Facts
          BY <1>2, <2>2 DEF GoodPlan, RunRow
        <4>2. QED
          BY <1>2, <2>2, <4>1 DEF MemoryInv, FactsOK
      <3>3. QED
        BY <1>1, <1>2, <1>3, <1>5, <1>6, <2>2, <3>1, <3>2 DEF WorkerOK, GoodPlan
    <2>3. QED
      BY <2>1, <2>2
  <1>8. worker[w].pc # "down" /\ worker'[w].pc \notin Before
    BY <1>1, <1>3, <1>4, <1>5 DEF Before
  <1>9. QED
    BY <1>1, <1>5, <1>7, <1>8, OnlyWorkerMoves

\* What the scan has read is still a plan when it is written.
LEMMA ReconcileWriteKeeps ==
    ASSUME MemoryInv, NEW w \in Workers, ReconcileWrite(w)
    PROVE  MemoryInv'
  <1> DEFINE plan == [run |-> worker[w].run, row |-> worker[w].seen]
  <1>1. PICK pc \in {"down", "idle"} :
           /\ worker[w].pc = "reconcile"
           /\ run' = run \/ Planned(plan)
           /\ worker' = [worker EXCEPT ![w] = Idle(pc)]
           /\ UNCHANGED <<fact, module, feedback, restarts, dbFailures>>
    BY DEF ReconcileWrite
  <1>2. /\ worker[w].seen.cand \subseteq Known
        /\ \A q \in Runs : run[q].st # "running"
        /\ worker[w].seen.st = "queued" /\ worker[w].seen.attempts < Allowance
        /\ worker[w].run \in Runs => run[worker[w].run].st = "queued"
    BY <1>1 DEF MemoryInv, WorkersOK, WorkerOK
  <1>3. worker[w] \in WorkerRow
    BY DEF MemoryInv, TablesOK
  <1>4. /\ worker[w].run \in Runs \cup {NoRun, NewRun} /\ worker[w].seen \in RunRow
    BY <1>3 DEF WorkerRow
  <1>5. GoodPlan(plan) /\ plan.row = worker[w].seen
    BY <1>2, <1>4 DEF GoodPlan
  <1> HIDE DEF plan
  <1>6. /\ run' \in [Runs -> RunRow]
        /\ \E n \in Nat : Born' = 1 .. n
        /\ \A r \in Runs : \/ run'[r] = run[r]
                           \/ run[r].st \in {"none", "queued"} /\ run'[r] = plan.row
    <2>1. CASE run' = run
      BY <2>1 DEF MemoryInv, TablesOK, NumberedOK, Born
    <2>2. CASE Planned(plan)
      BY <1>5, <2>2, PlannedMoves DEF MemoryInv
    <2>3. QED
      BY <1>1, <2>1, <2>2
  <1>7. /\ Idle(pc) \in WorkerRow /\ Idle(pc).pc = pc
        /\ Idle(pc).seen.cand = {} /\ Idle(pc).held = {}
    BY ConstantRows DEF Pcs, Idle, NullRun
  <1>8. /\ worker' \in [Workers -> WorkerRow] /\ worker'[w] = Idle(pc)
        /\ \A v \in Workers \ {w} : worker'[v] = worker[v]
    BY <1>1, <1>7 DEF MemoryInv, TablesOK
  <1>9. Known' = Known /\ Allowance' = Allowance
    BY <1>1 DEF Known, Allowance
  <1>10. TablesOK' /\ NumberedOK' /\ FactsOK'
    BY <1>1, <1>6, <1>8, <1>9 DEF MemoryInv, TablesOK, NumberedOK, FactsOK
  <1>11. ReservedIsHeld'
    <2>1. \A f \in Facts : fact[f].use = "reserved" => fact[f].holder \in Runs
      BY DEF MemoryInv, FactsOK, TablesOK, FactRow
    <2>2. QED
      BY <1>1, <1>6, <2>1 DEF MemoryInv, ReservedIsHeld
  <1>12. AttemptsOK'
    <2>1. Allowance \in Nat
      BY MemoryConsts DEF Allowance, MemoryInv, TablesOK
    <2>2. /\ plan.row.st = "queued"
          /\ plan.row.attempts \in Nat /\ plan.row.attempts <= Allowance
          /\ plan.row.attempts < Allowance /\ plan.row.cand \subseteq Known
      BY <1>2, <1>4, <1>5, <2>1 DEF RunRow
    <2>3. \A r \in Runs : run'[r].st # "running"
      BY <1>2, <1>5, <1>6
    <2>4. ASSUME NEW r \in Runs
          PROVE  /\ run'[r].attempts <= Allowance
                 /\ run'[r].st = "queued" => run'[r].attempts < Allowance
                 /\ run'[r].st = "failed" => run'[r].attempts >= MaxAttempts
                 /\ run'[r].cand \subseteq Known
      BY <1>6, <2>2 DEF MemoryInv, AttemptsOK
    <2>5. QED
      BY <1>9, <2>3, <2>4 DEF AttemptsOK
  <1>13. ChainOK'
    BY <1>1, <1>6, ChainStays DEF MemoryInv, TablesOK
  <1>14. WorkerOK(w)'
    BY <1>7, <1>8 DEF WorkerOK
  <1>15. WorkersOK'
    BY <1>1, <1>8, <1>9, <1>14, OthersAreDown, WorkerMoves DEF MemoryInv
  <1>16. QED
    BY <1>10, <1>11, <1>12, <1>13, <1>15 DEF MemoryInv

\* It takes a queued run and its inputs,
LEMMA ReadInputsKeeps ==
    ASSUME MemoryInv, NEW w \in Workers, NEW r \in Runs, ReadInputs(w, r)
    PROVE  MemoryInv'
  <1> DEFINE next == [run[r] EXCEPT !.evid = Evidence(fact, run[r].cand),
                                    !.base = Latest, !.version = NextVersion]
             gone == [run[r] EXCEPT !.st = "stale"]
             unavailable == \E f \in run[r].cand : ~(Live(fact, f) /\ fact[f].use = "eligible")
             done == \E q \in Born \ {r} : run[q].evid = next.evid
             missing == next = run[r] /\ ~Available(next.evid, {"eligible", "consumed"})
  <1>1. run[r] \in RunRow
    BY DEF MemoryInv, TablesOK
  <1> DEFINE row == IF unavailable \/ done \/ missing THEN gone ELSE next
  <1>2. /\ row = gone \/ (row = next /\ ~unavailable)
        /\ worker' = [worker EXCEPT ![w] =
              [Idle("reserve") EXCEPT !.run = r, !.seen = run[r], !.next = row]]
    BY DEF ReadInputs
  <1> HIDE DEF row
  <1>3. /\ worker[w].pc = "idle" /\ run[r].st = "queued"
        /\ UNCHANGED <<fact, run, module, feedback, restarts, dbFailures>>
    BY DEF ReadInputs
  <1>4. Evidence(fact, run[r].cand) \in SUBSET Facts
    BY <1>1, EvidenceIsFacts DEF RunRow
  <1>5. Latest \in Runs \cup {NoRun} /\ NextVersion \in Nat
    BY LatestIs DEF MemoryInv
  <1>6. /\ next \in RunRow /\ next.st = "queued" /\ next.base = Latest
        /\ next.version = NextVersion
    BY <1>1, <1>3, <1>4, <1>5 DEF RunRow
  <1>7. gone \in RunRow /\ gone.st = "stale"
    BY <1>1 DEF RunRow, RunStatus
  <1> DEFINE new == [Idle("reserve") EXCEPT !.run = r, !.seen = run[r], !.next = row]
  <1>8. row \in RunRow
    BY <1>2, <1>6, <1>7
  <1>9. /\ row.st # "stale" => /\ row.base = Latest /\ row.version = NextVersion
                               /\ \A f \in run[r].cand : fact[f].use = "eligible"
    BY <1>2, <1>6, <1>7
  <1> HIDE DEF next, gone
  <1>10. /\ new \in WorkerRow /\ new.pc = "reserve" /\ new.run = r /\ new.seen = run[r]
         /\ new.next = row /\ new.held = {}
    <2>1. /\ Idle("reserve") \in WorkerRow /\ Idle("reserve").pc = "reserve"
          /\ Idle("reserve").held = {}
      BY ConstantRows DEF Pcs, Idle
    <2>2. QED
      BY <1>1, <1>8, <2>1 DEF WorkerRow
  <1> HIDE DEF new
  <1>11. /\ worker' \in [Workers -> WorkerRow] /\ worker'[w] = new
         /\ \A v \in Workers \ {w} : worker'[v] = worker[v]
    BY <1>2, <1>10 DEF MemoryInv, TablesOK, new
  <1>12. /\ Known' = Known /\ Allowance' = Allowance
         /\ Latest' = Latest /\ NextVersion' = NextVersion
    BY <1>3 DEF Known, Allowance, Latest, NextVersion, Modules
  <1>13. WorkerOK(w)'
    <2>1. run[r].attempts < Allowance /\ run[r].cand \subseteq Known
      BY <1>3 DEF MemoryInv, AttemptsOK
    <2>2. run[r].cand \subseteq Facts
      BY <1>1 DEF RunRow
    <2>3. row.st # "stale" => \A f \in run[r].cand : fact[f].by = NoRun
      BY <1>9, <2>2 DEF MemoryInv, FactsOK
    <2>4. QED
      BY <1>3, <1>9, <1>10, <1>11, <1>12, <2>1, <2>3 DEF WorkerOK
  <1>14. worker[w].pc # "down" /\ worker'[w].pc \notin Before
    BY <1>3, <1>10, <1>11 DEF Before
  <1>15. QED
    BY <1>3, <1>11, <1>13, <1>14, OnlyWorkerMoves

\* The end of a step of the worker that has rewritten the row of its run.
LEMMA OwnRowMoves ==
    ASSUME TablesOK, NEW r \in Runs, NEW row \in RunRow,
           row.st # "none", run[r].st # "none",
           run' = [run EXCEPT ![r] = row]
    PROVE  /\ run' \in [Runs -> RunRow] /\ run'[r] = row
           /\ \A q \in Runs \ {r} : run'[q] = run[q]
           /\ Born' = Born
  <1>1. /\ run' \in [Runs -> RunRow] /\ run'[r] = row
        /\ \A q \in Runs \ {r} : run'[q] = run[q]
    BY DEF TablesOK
  <1>2. QED
    BY <1>1 DEF Born

\* A worker that rests: it remembers nothing.
LEMMA RestMoves ==
    ASSUME MemoryInv, NEW w \in Workers, worker[w].pc # "down", Rest(w)
    PROVE  /\ worker' \in [Workers -> WorkerRow]
           /\ worker'[w].pc = "idle" /\ WorkerOK(w)'
           /\ \A v \in Workers \ {w} : worker'[v] = worker[v] /\ worker[v].pc = "down"
  <1>1. Idle("idle") \in WorkerRow /\ Idle("idle").pc = "idle"
        /\ Idle("idle").seen.cand = {} /\ Idle("idle").held = {}
    BY ConstantRows DEF Pcs, Idle, NullRun
  <1>2. worker' = [worker EXCEPT ![w] = Idle("idle")] /\ worker \in [Workers -> WorkerRow]
    BY DEF Rest, MemoryInv, TablesOK
  <1>3. worker' \in [Workers -> WorkerRow] /\ worker'[w] = Idle("idle")
        /\ \A v \in Workers \ {w} : worker'[v] = worker[v]
    BY <1>1, <1>2
  <1>4. \A v \in Workers \ {w} : worker[v].pc = "down"
    BY OthersAreDown DEF MemoryInv
  <1>5. WorkerOK(w)'
    BY <1>1, <1>3 DEF WorkerOK
  <1>6. QED
    BY <1>1, <1>3, <1>4, <1>5

\* A run that ends without its facts, and whose worker rests.
LEMMA EndRunKeeps ==
    ASSUME MemoryInv, NEW w \in Workers, worker[w].pc # "down", Rest(w),
           NEW r \in Runs, run[r].st \in {"queued", "running"},
           NEW row \in RunRow, row.st \in {"queued", "failed", "stale"},
           row.cand \subseteq Known, row.attempts <= Allowance,
           row.st = "queued" => row.attempts < Allowance,
           row.st = "failed" => row.attempts >= MaxAttempts,
           run' = [run EXCEPT ![r] = row],
           \/ run[r].st = "queued" /\ fact' = fact
           \/ /\ run[r].st = "running" /\ worker[w].pc = "releasing"
              /\ r = worker[w].run /\ fact' = Freed(worker[w].held),
           UNCHANGED <<module, feedback, restarts, dbFailures>>
    PROVE  MemoryInv'
  <1>1. /\ run' \in [Runs -> RunRow] /\ run'[r] = row
        /\ \A q \in Runs \ {r} : run'[q] = run[q]
        /\ Born' = Born
    BY OwnRowMoves DEF MemoryInv
  <1>2. /\ worker' \in [Workers -> WorkerRow]
        /\ worker'[w].pc = "idle" /\ WorkerOK(w)'
        /\ \A v \in Workers \ {w} : worker'[v] = worker[v] /\ worker[v].pc = "down"
    BY RestMoves
  <1>3. /\ fact' \in [Facts -> FactRow] /\ Known' = Known /\ FactsOK'
        /\ \A f \in Facts :
              /\ fact'[f].use = "reserved" => fact'[f] = fact[f]
              /\ run[r].st = "running" /\ fact'[f].use = "reserved" => fact[f].holder # r
    <2>1. CASE fact' = fact /\ run[r].st = "queued"
      BY <2>1 DEF MemoryInv, TablesOK, FactsOK, Known
    <2>2. CASE worker[w].pc = "releasing" /\ r = worker[w].run
               /\ fact' = Freed(worker[w].held)
      <3>1. /\ worker[w].held \in SUBSET Facts
            /\ \A f \in worker[w].held : f \in Known /\ fact[f].by = NoRun
            /\ \A f \in Facts : fact[f].holder = r => f \in worker[w].held
        BY <2>2 DEF MemoryInv, TablesOK, WorkerRow, WorkersOK, WorkerOK
      <3>2. /\ fact' \in [Facts -> FactRow] /\ Known' = Known
            /\ \A f \in Facts :
                  /\ f \notin worker[w].held => fact'[f] = fact[f]
                  /\ f \in worker[w].held => fact'[f].use = "eligible"
            /\ FactsOK'
        BY <2>2, <3>1, FreedMoves DEF MemoryInv
      <3>3. QED
        BY <3>1, <3>2
    <2>3. QED
      BY <2>1, <2>2
  <1>4. TablesOK' /\ NumberedOK'
    BY <1>1, <1>2, <1>3 DEF MemoryInv, TablesOK, NumberedOK
  <1>5. ReservedIsHeld'
    <2>1. SUFFICES ASSUME NEW f \in Facts, fact'[f].use = "reserved"
                   PROVE  \/ run'[fact'[f].holder].st = "running"
                          \/ /\ run'[fact'[f].holder].st = "completed"
                             /\ f \notin run'[fact'[f].holder].cand \cap
                                         run'[fact'[f].holder].evid
      BY DEF ReservedIsHeld
    <2>2. fact'[f] = fact[f] /\ (run[r].st = "running" => fact[f].holder # r)
      BY <1>3, <2>1
    <2>3. fact[f].holder \in Runs
      BY <2>1, <2>2 DEF MemoryInv, FactsOK, TablesOK, FactRow
    <2>4. \/ run[fact[f].holder].st = "running"
          \/ /\ run[fact[f].holder].st = "completed"
             /\ f \notin run[fact[f].holder].cand \cap run[fact[f].holder].evid
      BY <2>1, <2>2 DEF MemoryInv, ReservedIsHeld
    <2>5. fact[f].holder # r
      BY <2>2, <2>4
    <2>6. QED
      BY <1>1, <2>2, <2>3, <2>4, <2>5
  <1>6. AttemptsOK'
    <2>1. Allowance' = Allowance
      BY DEF Allowance
    <2>2. ASSUME NEW q \in Runs
          PROVE  /\ run'[q].attempts <= Allowance'
                 /\ run'[q].st = "queued" => run'[q].attempts < Allowance'
                 /\ run'[q].st = "failed" => run'[q].attempts >= MaxAttempts
                 /\ run'[q].cand \subseteq Known'
      <3>1. CASE q = r
        BY <1>1, <1>3, <2>1, <3>1
      <3>2. CASE q # r
        BY <1>1, <1>3, <2>1, <3>2 DEF MemoryInv, AttemptsOK
      <3>3. QED
        BY <3>1, <3>2
    <2>3. QED
      BY <1>2, <2>2 DEF AttemptsOK, Before
  <1>7. ChainOK'
    <2>1. \A q \in Runs : run[q].st = "completed" => run'[q].st = "completed"
      BY <1>1
    <2>2. QED
      BY <2>1, ChainStays DEF MemoryInv, TablesOK
  <1>8. WorkersOK'
    BY <1>2, <1>3, WorkerMoves DEF MemoryInv
  <1>9. QED
    BY <1>3, <1>4, <1>5, <1>6, <1>7, <1>8 DEF MemoryInv

\* Whatever columns come from the row that was read and from the one that a
\* request has put in its place, the run that is reserved makes the next
\* version, out of facts that nobody has consumed.
LEMMA ReserveKeeps ==
    ASSUME MemoryInv, NEW w \in Workers, Reserve(w)
    PROVE  MemoryInv'
  <1> DEFINE r == worker[w].run
             seen == worker[w].seen
             next == worker[w].next
             row == [run[r] EXCEPT !.evid = IF next.evid = seen.evid THEN run[r].evid
                                            ELSE next.evid,
                                   !.base = IF next.base = seen.base THEN run[r].base
                                            ELSE next.base,
                                   !.version = IF next.version = seen.version
                                               THEN run[r].version ELSE next.version]
             stale == [row EXCEPT !.st = "stale"]
             reserved == [row EXCEPT !.st = "running", !.attempts = seen.attempts + 1]
             Held(f) == [fact[f] EXCEPT !.use = "reserved", !.holder = r]
             drafting == [worker[w] EXCEPT !.pc = "draft"]
  <1>1. /\ worker[w].pc = "reserve"
        /\ UNCHANGED <<module, feedback, restarts, dbFailures>>
        /\ \/ UNCHANGED <<fact, run>> /\ Rest(w)
           \/ run' = [run EXCEPT ![r] = stale] /\ Rest(w) /\ fact' = fact
           \/ /\ next.st # "stale"
              /\ run' = [run EXCEPT ![r] = reserved]
              /\ fact' = [f \in Facts |-> IF f \in seen.cand THEN Held(f) ELSE fact[f]]
              /\ worker' = [worker EXCEPT ![w] = drafting]
    BY DEF Reserve, Goto
  <1>2. /\ r \in Runs /\ run[r].st = "queued" /\ seen.attempts < Allowance
        /\ seen.cand \subseteq Known
        /\ \A f \in worker[w].held : f \in Known /\ fact[f].by = NoRun
        /\ next.st # "stale" =>
              /\ next.base = Latest /\ next.version = NextVersion
              /\ run[r].base \in {seen.base, Latest}
              /\ run[r].version \in {seen.version, NextVersion}
              /\ \A f \in run[r].cand \cup seen.cand : fact[f].by = NoRun
    BY <1>1 DEF MemoryInv, WorkersOK, WorkerOK
  <1>3. worker[w] \in WorkerRow /\ run[r] \in RunRow
    BY <1>2 DEF MemoryInv, TablesOK
  <1>4. seen \in RunRow /\ next \in RunRow
    BY <1>3 DEF WorkerRow
  <1>5. /\ row \in RunRow /\ row.cand = run[r].cand /\ row.attempts = run[r].attempts
        /\ row.base = IF next.base = seen.base THEN run[r].base ELSE next.base
        /\ row.version = IF next.version = seen.version THEN run[r].version
                         ELSE next.version
    BY <1>3, <1>4 DEF RunRow
  <1>6. next.st # "stale" => row.base = Latest /\ row.version = NextVersion
    BY <1>2, <1>5
  <1> HIDE DEF row
  <1>7. /\ stale \in RunRow /\ stale.st = "stale" /\ stale.cand = run[r].cand
        /\ stale.attempts = run[r].attempts
    BY <1>5 DEF RunRow, RunStatus
  <1>8. /\ reserved \in RunRow /\ reserved.st = "running" /\ reserved.cand = run[r].cand
        /\ reserved.attempts = seen.attempts + 1
        /\ reserved.base = row.base /\ reserved.version = row.version
    <2>1. seen.attempts + 1 \in Nat
      BY <1>4 DEF RunRow
    <2>2. \A n \in Nat :
             LET x == [row EXCEPT !.st = "running", !.attempts = n]
             IN /\ x \in RunRow /\ x.st = "running" /\ x.cand = row.cand
                /\ x.attempts = n /\ x.base = row.base /\ x.version = row.version
      BY <1>5 DEF RunRow, RunStatus
    <2>3. QED
      BY <1>5, <2>1, <2>2
  <1>9. run[r].attempts <= Allowance /\ run[r].cand \subseteq Known
    BY <1>2 DEF MemoryInv, AttemptsOK
  <1> HIDE DEF stale, reserved
  <1>10. CASE UNCHANGED <<fact, run>> /\ Rest(w)
    <2>1. /\ worker' \in [Workers -> WorkerRow]
          /\ worker'[w].pc = "idle" /\ WorkerOK(w)'
          /\ \A v \in Workers \ {w} : worker'[v] = worker[v]
      BY <1>1, <1>10, RestMoves
    <2>2. QED
      BY <1>1, <1>10, <2>1, OnlyWorkerMoves DEF Before
  <1>11. CASE run' = [run EXCEPT ![r] = stale] /\ Rest(w) /\ fact' = fact
    BY <1>1, <1>2, <1>7, <1>9, <1>11, EndRunKeeps
  <1>12. ASSUME next.st # "stale",
                run' = [run EXCEPT ![r] = reserved],
                fact' = [f \in Facts |-> IF f \in seen.cand THEN Held(f) ELSE fact[f]],
                worker' = [worker EXCEPT ![w] = drafting]
         PROVE  MemoryInv'
    <2>1. /\ run' \in [Runs -> RunRow] /\ run'[r] = reserved
          /\ \A q \in Runs \ {r} : run'[q] = run[q]
          /\ Born' = Born
      BY <1>2, <1>8, <1>12, OwnRowMoves DEF MemoryInv
    <2>2. /\ drafting \in WorkerRow /\ drafting.pc = "draft" /\ drafting.run = r
          /\ drafting.seen = seen /\ drafting.held = worker[w].held
      BY <1>3 DEF WorkerRow, Pcs
    <2> HIDE DEF drafting
    <2>3. /\ worker' \in [Workers -> WorkerRow] /\ worker'[w] = drafting
          /\ \A v \in Workers \ {w} : worker'[v] = worker[v]
      BY <1>12, <2>2 DEF MemoryInv, TablesOK
    <2>4. \A f \in Facts : /\ fact[f] \in FactRow /\ Held(f) \in FactRow
                           /\ Held(f).use = "reserved" /\ Held(f).holder = r
                           /\ Held(f).by = fact[f].by /\ Held(f).kind = fact[f].kind
      BY <1>2 DEF MemoryInv, TablesOK, FactRow
    <2> HIDE DEF Held
    <2>5. /\ fact' \in [Facts -> FactRow]
          /\ \A f \in Facts : fact'[f].kind = fact[f].kind /\ fact'[f].by = fact[f].by
          /\ \A f \in seen.cand : f \in Facts => /\ fact'[f].use = "reserved"
                                                 /\ fact'[f].holder = r
          /\ \A f \in Facts \ seen.cand : fact'[f] = fact[f]
      BY <1>12, <2>4
    <2>6. Known' = Known
      BY <2>5 DEF Known
    <2>7. TablesOK' /\ NumberedOK'
      BY <1>1, <2>1, <2>3, <2>5, <2>6 DEF MemoryInv, TablesOK, NumberedOK
    <2>8. FactsOK'
      <3>1. ASSUME NEW f \in Facts
            PROVE  /\ fact'[f].holder # NoRun <=> fact'[f].use = "reserved"
                   /\ fact'[f].by # NoRun => fact'[f].use \in {"consumed", "excluded"}
                   /\ fact'[f].use \in {"eligible", "reserved"} \/ fact'[f].by # NoRun
                      => f \in Known'
        <4>1. CASE f \in seen.cand
          BY <1>2, <1>12, <2>5, <2>6, <4>1, MemoryConsts
        <4>2. CASE f \notin seen.cand
          BY <2>5, <2>6, <4>2 DEF MemoryInv, FactsOK
        <4>3. QED
          BY <4>1, <4>2
      <3>2. QED
        BY <3>1 DEF FactsOK
    <2>9. ReservedIsHeld'
      <3>1. SUFFICES ASSUME NEW f \in Facts, fact'[f].use = "reserved"
                     PROVE  \/ run'[fact'[f].holder].st = "running"
                            \/ /\ run'[fact'[f].holder].st = "completed"
                               /\ f \notin run'[fact'[f].holder].cand \cap
                                           run'[fact'[f].holder].evid
        BY DEF ReservedIsHeld
      <3>2. CASE f \in seen.cand
        BY <1>8, <2>1, <2>5, <3>2
      <3>3. CASE f \notin seen.cand
        <4>1. fact'[f] = fact[f]
          BY <2>5, <3>3
        <4>2. fact[f].holder \in Runs
          BY <3>1, <4>1 DEF MemoryInv, FactsOK, TablesOK, FactRow
        <4>3. \/ run[fact[f].holder].st = "running"
              \/ /\ run[fact[f].holder].st = "completed"
                 /\ f \notin run[fact[f].holder].cand \cap run[fact[f].holder].evid
          BY <3>1, <4>1 DEF MemoryInv, ReservedIsHeld
        <4>4. QED
          BY <1>2, <2>1, <4>1, <4>2, <4>3
      <3>4. QED
        BY <3>2, <3>3
    <2>10. AttemptsOK'
      <3>1. Allowance' = Allowance /\ Allowance \in Nat
        BY <1>1, MemoryConsts DEF Allowance, MemoryInv, TablesOK
      <3>2. seen.attempts + 1 <= Allowance
        BY <1>2, <1>4, <3>1 DEF RunRow
      <3>3. ASSUME NEW q \in Runs
            PROVE  /\ run'[q].attempts <= Allowance'
                   /\ run'[q].st = "queued" => run'[q].attempts < Allowance'
                   /\ run'[q].st = "failed" => run'[q].attempts >= MaxAttempts
                   /\ run'[q].cand \subseteq Known'
        <4>1. CASE q = r
          BY <1>8, <1>9, <2>1, <2>6, <3>1, <3>2, <4>1
        <4>2. CASE q # r
          BY <2>1, <2>6, <3>1, <4>2 DEF MemoryInv, AttemptsOK
        <4>3. QED
          BY <4>1, <4>2
      <3>4. worker'[w].pc \notin Before
        BY <2>2, <2>3 DEF Before
      <3>5. QED
        BY <3>3, <3>4 DEF AttemptsOK
    <2>11. ChainOK' /\ Latest' = Latest /\ NextVersion' = NextVersion
      <3>1. \A q \in Runs : run[q].st = "completed" => run'[q].st = "completed"
        BY <1>2, <2>1
      <3>2. QED
        BY <1>1, <3>1, ChainStays DEF MemoryInv, TablesOK
    <2>12. WorkerOK(w)'
      <3>1. run[r].cand \subseteq Facts
        BY <1>3 DEF RunRow
      <3>2. run'[r].st = "running" /\ run'[r].base = Latest' /\ run'[r].version = NextVersion'
            /\ \A f \in run'[r].cand : fact'[f].by = NoRun
        BY <1>2, <1>6, <1>8, <1>12, <2>1, <2>5, <2>11, <3>1
      <3>3. \A f \in worker[w].held : f \in Known' /\ fact'[f].by = NoRun
        BY <1>2, <1>3, <2>5, <2>6 DEF WorkerRow
      <3>4. QED
        BY <1>2, <2>2, <2>3, <2>6, <3>2, <3>3 DEF WorkerOK, IsNext
    <2>13. WorkersOK'
      BY <1>1, <2>3, <2>6, <2>12, OthersAreDown, WorkerMoves DEF MemoryInv
    <2>14. QED
      BY <2>7, <2>8, <2>9, <2>10, <2>11, <2>13 DEF MemoryInv
  <1>13. QED
    BY <1>1, <1>10, <1>11, <1>12

\* checks what the model answered,
LEMMA CheckKeeps ==
    ASSUME MemoryInv, NEW w \in Workers, NEW claims \in Drafts(worker[w].next.evid),
           Check(w, claims)
    PROVE  MemoryInv'
  <1> DEFINE r == worker[w].run
             row == run[r]
             parent == IF row.base = NoRun THEN "none" ELSE module[row.base].st
             going == [worker[w] EXCEPT !.pc = "commit", !.seen = row, !.claims = claims,
                                        !.parent = parent]
             ending == [Idle("releasing") EXCEPT !.run = r, !.seen = row,
                                                 !.held = Holding({r})]
  <1>1. /\ worker[w].pc = "draft"
        /\ UNCHANGED <<fact, run, module, feedback, restarts, dbFailures>>
    BY DEF Check
  <1>2. PICK new \in {Idle("idle"), ending, going} : worker' = [worker EXCEPT ![w] = new]
    BY DEF Check
  <1>3. /\ r \in Runs /\ row.st = "running" /\ row.base = Latest
        /\ row.version = NextVersion /\ \A f \in row.cand : fact[f].by = NoRun
        /\ \A f \in worker[w].held : f \in Known /\ fact[f].by = NoRun
    BY <1>1 DEF MemoryInv, WorkersOK, WorkerOK, IsNext
  <1>4. worker[w] \in WorkerRow /\ row \in RunRow
    BY <1>3 DEF MemoryInv, TablesOK
  <1>5. row.cand \subseteq Known
    BY <1>3 DEF MemoryInv, AttemptsOK
  <1>6. /\ Holding({r}) \in SUBSET Facts
        /\ \A f \in Holding({r}) : f \in Known /\ fact[f].by = NoRun
    BY <1>3, HeldIsKnown DEF MemoryInv
  <1>7. /\ going \in WorkerRow /\ going.pc = "commit" /\ going.run = r
        /\ going.seen = row /\ going.parent = parent /\ going.held = worker[w].held
    <2>1. claims \in SUBSET SUBSET Facts
      <3>1. worker[w].next.evid \in SUBSET Facts
        BY <1>4 DEF WorkerRow, RunRow
      <3>2. QED
        BY <3>1 DEF Drafts
    <2>2. parent \in ModuleStatus
      BY <1>4 DEF RunRow, MemoryInv, TablesOK, ModuleRow, ModuleStatus
    <2>3. QED
      BY <1>4, <2>1, <2>2 DEF WorkerRow, Pcs
  <1>8. /\ ending \in WorkerRow /\ ending.pc = "releasing" /\ ending.run = r
        /\ ending.seen = row /\ ending.held = Holding({r})
    <2>1. Idle("releasing") \in WorkerRow /\ Idle("releasing").pc = "releasing"
      BY ConstantRows DEF Pcs, Idle
    <2>2. QED
      BY <1>3, <1>4, <1>6, <2>1 DEF WorkerRow
  <1>9. /\ Idle("idle") \in WorkerRow /\ Idle("idle").pc = "idle"
        /\ Idle("idle").seen.cand = {} /\ Idle("idle").held = {}
    BY ConstantRows DEF Pcs, Idle, NullRun
  <1> HIDE DEF going, ending
  <1>10. /\ worker' \in [Workers -> WorkerRow] /\ worker'[w] = new
         /\ \A v \in Workers \ {w} : worker'[v] = worker[v]
    BY <1>2, <1>7, <1>8, <1>9 DEF MemoryInv, TablesOK
  <1>11. /\ Known' = Known /\ Latest' = Latest /\ NextVersion' = NextVersion
    BY <1>1 DEF Known, Latest, NextVersion, Modules
  <1>12. WorkerOK(w)'
    <2>1. CASE new = Idle("idle")
      BY <1>9, <1>10, <2>1 DEF WorkerOK
    <2>2. CASE new = ending
      <3>1. worker'[w].run = r /\ worker'[w].seen = row /\ worker'[w].held = Holding({r})
            /\ worker'[w].pc = "releasing"
        BY <1>8, <1>10, <2>2
      <3>2. \A f \in Facts : fact'[f].holder = r => f \in Holding({r})
        BY <1>1 DEF Holding
      <3>3. QED
        BY <1>1, <1>3, <1>5, <1>6, <1>11, <3>1, <3>2 DEF WorkerOK
    <2>3. CASE new = going
      BY <1>1, <1>3, <1>5, <1>7, <1>10, <1>11, <2>3 DEF WorkerOK, IsNext
    <2>4. QED
      BY <1>2, <2>1, <2>2, <2>3
  <1>13. worker[w].pc # "down" /\ worker'[w].pc \notin Before
    BY <1>1, <1>2, <1>7, <1>8, <1>9, <1>10 DEF Before
  <1>14. QED
    BY <1>1, <1>10, <1>12, <1>13, OnlyWorkerMoves

\* releases the run and what it holds,
LEMMA ReleaseKeeps ==
    ASSUME MemoryInv, NEW w \in Workers, Release(w)
    PROVE  MemoryInv'
  <1> DEFINE r == worker[w].run
             row == run[r]
             st == IF Retry(row) THEN "queued" ELSE "failed"
             over == [row EXCEPT !.st = st, !.due = row.due /\ ~Retry(row)]
  <1>1. /\ worker[w].pc = "releasing" /\ Rest(w) /\ fact' = Freed(worker[w].held)
        /\ UNCHANGED <<module, feedback, restarts, dbFailures>>
    BY DEF Release
  <1>2. r \in Runs /\ row.st = "running" /\ worker[w].seen = row
    BY <1>1 DEF MemoryInv, WorkersOK, WorkerOK
  <1>3. row \in RunRow
    BY <1>2 DEF MemoryInv, TablesOK
  <1>4. row.attempts <= Allowance /\ row.cand \subseteq Known
    BY <1>2 DEF MemoryInv, AttemptsOK
  <1>5. run' = [run EXCEPT ![r] = over]
    <2>1. run' = [run EXCEPT ![r].st = st, ![r].due = @ /\ ~Retry(row)]
      BY <1>2 DEF Release
    <2>2. QED
      BY <1>2, <2>1 DEF MemoryInv, TablesOK
  <1>6. /\ over \in RunRow /\ over.st = st /\ over.cand = row.cand
        /\ over.attempts = row.attempts
    <2>1. (row.due /\ ~Retry(row)) \in BOOLEAN
      OBVIOUS
    <2>2. st \in RunStatus
      BY DEF RunStatus
    <2>3. QED
      BY <1>3, <2>1, <2>2 DEF RunRow
  <1>7. /\ st = "queued" => row.attempts < Allowance
        /\ st = "failed" => row.attempts >= MaxAttempts
    <2>1. row.attempts \in Nat /\ restarts \in Nat
      BY <1>3 DEF RunRow, MemoryInv, TablesOK
    <2>2. QED
      BY <2>1, MemoryConsts DEF Retry, Allowance
  <1>8. st \in {"queued", "failed", "stale"}
    OBVIOUS
  <1> HIDE DEF over, st
  <1>9. QED
    BY <1>1, <1>2, <1>4, <1>5, <1>6, <1>7, <1>8, EndRunKeeps

\* The commit: the module of run r becomes the latest version, and its parent
\* is no longer active.
LEMMA CommitChain ==
    ASSUME MemoryInv, NEW w \in Workers, Commit(w)
    PROVE  /\ module' \in [Runs -> ModuleRow]
           /\ Modules' = Modules \cup {worker[w].run}
           /\ (run'[worker[w].run].st = "completed"
               /\ \A q \in Runs \ {worker[w].run} : run'[q] = run[q]) => ChainOK'
  <1> DEFINE r == worker[w].run
             seen == worker[w].seen
             closed == ClosedParent(worker[w].parent, seen.reason)
             version == [st |-> "active", evid |-> seen.evid, version |-> seen.version,
                         base |-> seen.base, claims |-> worker[w].claims]
             parent == [module[seen.base] EXCEPT
                          !.st = IF closed = worker[w].parent THEN module[seen.base].st
                                 ELSE closed,
                          !.claims = {}]
  <1>1. /\ worker[w].pc = "commit"
        /\ module' = [q \in Runs |->
              CASE q = r         -> version
                [] q = seen.base -> [module[q] EXCEPT
                                         !.st = IF closed = worker[w].parent THEN @ ELSE closed,
                                         !.claims = {}]
                [] OTHER         -> module[q]]
    BY DEF Commit
  <1>2. /\ r \in Runs /\ run[r].st = "running" /\ seen = run[r]
        /\ seen.base = Latest /\ seen.version = NextVersion
        /\ seen.base # NoRun /\ worker[w].parent # "active" =>
                    module[seen.base].st # "active"
    BY <1>1 DEF MemoryInv, WorkersOK, WorkerOK, IsNext
  <1>3. worker[w] \in WorkerRow /\ seen \in RunRow
    BY DEF MemoryInv, TablesOK, WorkerRow
  <1>4. /\ Modules \subseteq Runs /\ r \notin Modules
        /\ \A q \in Modules : module[q] \in ModuleRow /\ module[q].version \in Nat
    BY <1>2 DEF MemoryInv, ChainOK, Modules, TablesOK, ModuleRow
  <1>5. /\ Modules = {} => Latest = NoRun
        /\ Modules # {} => /\ Latest \in Modules
                           /\ \A q \in Modules \ {Latest} :
                                 module[q].version < module[Latest].version
        /\ NextVersion \in Nat
    BY LatestIs DEF MemoryInv
  <1>6. seen.base \in Modules \/ (Modules = {} /\ seen.base = NoRun)
    BY <1>2, <1>5
  <1>7. version \in ModuleRow
    BY <1>3 DEF WorkerRow, RunRow, ModuleRow, ModuleStatus
  <1>8. ASSUME seen.base \in Modules
        PROVE  /\ parent \in ModuleRow /\ parent.st \notin {"none", "active"}
               /\ parent.claims = {}
               /\ parent.version = module[seen.base].version
               /\ parent.base = module[seen.base].base
    <2>1. module[seen.base] \in ModuleRow /\ module[seen.base].st # "none"
          /\ seen.base \in Runs
      BY <1>4, <1>8 DEF Modules
    <2>2. closed \in {"retracted", "superseded", "refined"}
      BY DEF ClosedParent
    <2>3. closed = worker[w].parent => module[seen.base].st # "active"
      BY <1>2, <2>1, <2>2, MemoryConsts
    <2> DEFINE st == IF closed = worker[w].parent THEN module[seen.base].st ELSE closed
    <2>4. st \in ModuleStatus \ {"none", "active"}
      BY <2>1, <2>2, <2>3 DEF ModuleRow, ModuleStatus
    <2> HIDE DEF closed
    <2>5. QED
      BY <2>1, <2>4 DEF ModuleRow
  <1>9. seen.base # r
    BY <1>2, <1>4, <1>6, MemoryConsts
  <1> HIDE DEF version, parent, closed
  <1>10. ASSUME NEW q \in Runs
         PROVE  /\ q = r => module'[q] = version
                /\ q = seen.base => module'[q] = parent
                /\ q # r /\ q # seen.base => module'[q] = module[q]
    BY <1>1, <1>9 DEF parent
  <1>11. module' \in [Runs -> ModuleRow]
    <2> DEFINE Row(q) ==
              CASE q = r         -> version
                [] q = seen.base -> [module[q] EXCEPT
                                         !.st = IF closed = worker[w].parent THEN @ ELSE closed,
                                         !.claims = {}]
                [] OTHER         -> module[q]
    <2>1. \A q \in Runs : module'[q] \in ModuleRow
      <3>1. \A q \in Runs : module[q] \in ModuleRow
        BY DEF MemoryInv, TablesOK
      <3>2. seen.base \in Runs => seen.base \in Modules
        BY <1>6, MemoryConsts
      <3>3. QED
        BY <1>7, <1>8, <1>10, <3>1, <3>2
    <2>2. module' = [q \in Runs |-> Row(q)]
      BY <1>1
    <2> HIDE DEF Row
    <2>3. QED
      BY <2>1, <2>2
  <1>12. version.st = "active" /\ version.version = NextVersion /\ version.base = Latest
    BY <1>2 DEF version
  <1>13. \A q \in Modules : module'[q].st # "none"
         /\ module'[q].version = module[q].version /\ module'[q].base = module[q].base
    BY <1>4, <1>8, <1>10 DEF Modules
  <1>14. Modules' = Modules \cup {r}
    <2>1. \A q \in Runs \ {r} : q \notin Modules => module'[q] = module[q]
      BY <1>6, <1>10, MemoryConsts
    <2>2. QED
      BY <1>2, <1>4, <1>10, <1>12, <1>13, <2>1 DEF Modules
  <1>15. \A q \in Modules : module'[q].version < NextVersion
    <2>1. CASE Modules = {}
      BY <2>1
    <2>2. CASE Modules # {}
      <3>1. Latest \in Modules /\ Latest # NoRun /\ module[Latest].version \in Nat
            /\ NextVersion = module[Latest].version + 1
        BY <1>4, <1>5, <2>2, MemoryConsts DEF NextVersion
      <3>2. QED
        BY <1>4, <1>5, <1>13, <2>2, <3>1
    <2>3. QED
      BY <2>1, <2>2
  <1>16. module'[r].version = NextVersion /\ module'[r].base = Latest
         /\ module'[r].st = "active"
    BY <1>2, <1>10, <1>12
  <1>17. Latest' = r
    <2>1. Modules' \subseteq Runs /\ r \in Modules'
      BY <1>2, <1>4, <1>14
    <2>2. \A q \in Modules' : module'[q].version \in Nat
      BY <1>5, <1>4, <1>13, <1>14, <1>16
    <2>3. \A q \in Modules' \ {r} : module'[q].version < module'[r].version
      BY <1>14, <1>15, <1>16
    <2>4. QED
      BY <2>1, <2>2, <2>3, LatestBecomes
  <1>18. OneChain'
    <2>1. ASSUME NEW q \in Modules'
          PROVE  /\ module'[q].version = IF module'[q].base = NoRun THEN 1
                                         ELSE module'[module'[q].base].version + 1
                 /\ \A x \in Modules' \ {q} : module'[x].version # module'[q].version
                 /\ module'[q].st = "active" \/ module'[q].claims # {} => q = r
      <3>1. CASE q = r
        <4>1. module'[q].version = IF module'[q].base = NoRun THEN 1
                                   ELSE module'[module'[q].base].version + 1
          BY <1>5, <1>13, <1>16, <3>1, MemoryConsts DEF NextVersion
        <4>2. \A x \in Modules : module'[x].version # NextVersion
          BY <1>4, <1>5, <1>13, <1>15
        <4>3. QED
          BY <1>14, <1>16, <3>1, <4>1, <4>2
      <3>2. CASE q \in Modules
        <4>1. /\ module[q].version = IF module[q].base = NoRun THEN 1
                                     ELSE module[module[q].base].version + 1
              /\ \A x \in Modules \ {q} : module[x].version # module[q].version
              /\ module[q].st = "active" \/ module[q].claims # {} => q = Latest
          BY <3>2 DEF MemoryInv, ChainOK, OneChain
        <4>2. module[q].base = NoRun \/ module[q].base \in Modules
          BY <3>2 DEF MemoryInv, ChainOK
        <4>3. module'[q].version = IF module'[q].base = NoRun THEN 1
                                   ELSE module'[module'[q].base].version + 1
          BY <1>13, <3>2, <4>1, <4>2
        <4>4. \A x \in Modules' \ {q} : module'[x].version # module'[q].version
          BY <1>4, <1>5, <1>13, <1>14, <1>15, <1>16, <3>2, <4>1
        <4>5. ~(module'[q].st = "active" \/ module'[q].claims # {})
          <5>1. CASE q = Latest
            BY <1>2, <1>4, <1>8, <1>10, <3>2, <5>1
          <5>2. CASE q # Latest
            BY <1>2, <1>4, <1>10, <3>2, <4>1, <5>2
          <5>3. QED
            BY <5>1, <5>2
        <4>6. QED
          BY <4>3, <4>4, <4>5
      <3>3. QED
        BY <1>14, <3>1, <3>2
    <2>2. QED
      BY <1>17, <2>1 DEF OneChain
  <1>19. ASSUME run'[r].st = "completed", \A q \in Runs \ {r} : run'[q] = run[q]
         PROVE  ChainOK'
    <2>1. \A q \in Modules' : /\ run'[q].st = "completed"
                               /\ module'[q].base \in Modules' \cup {NoRun}
      BY <1>4, <1>5, <1>13, <1>14, <1>16, <1>19 DEF MemoryInv, ChainOK
    <2>2. \E x \in Modules' : \A q \in Modules' \ {x} :
             module'[q].version < module'[x].version
      BY <1>14, <1>15, <1>16
    <2>3. QED
      BY <1>18, <2>1, <2>2 DEF ChainOK
  <1>20. QED
    BY <1>11, <1>14, <1>19

\* and commits: the one step that adds to the chain and consumes facts.
LEMMA CommitKeeps ==
    ASSUME MemoryInv, NEW w \in Workers, Commit(w)
    PROVE  MemoryInv'
  <1> DEFINE r == worker[w].run
             seen == worker[w].seen
             Row(f) == [fact[f] EXCEPT !.use = "consumed", !.by = r, !.holder = NoRun]
             done == [run[r] EXCEPT !.st = "completed"]
  <1>1. /\ worker[w].pc = "commit" /\ Rest(w)
        /\ UNCHANGED <<feedback, restarts, dbFailures>>
        /\ fact' = [f \in Facts |-> IF f \in Consumed(seen) THEN Row(f) ELSE fact[f]]
    BY DEF Commit
  <1>2. /\ r \in Runs /\ run[r].st = "running" /\ seen = run[r]
        /\ \A f \in seen.cand : fact[f].by = NoRun
    BY <1>1 DEF MemoryInv, WorkersOK, WorkerOK, IsNext
  <1>3. run[r] \in RunRow /\ run \in [Runs -> RunRow]
    BY <1>2 DEF MemoryInv, TablesOK
  <1>4. run' = [run EXCEPT ![r] = done]
    BY <1>3 DEF Commit
  <1>5. /\ done \in RunRow /\ done.st = "completed" /\ done.cand = run[r].cand
        /\ done.evid = run[r].evid /\ done.attempts = run[r].attempts
    BY <1>3 DEF RunRow, RunStatus
  <1> HIDE DEF done
  <1>6. /\ run' \in [Runs -> RunRow] /\ run'[r] = done
        /\ \A q \in Runs \ {r} : run'[q] = run[q]
        /\ Born' = Born
    BY <1>2, <1>4, <1>5, OwnRowMoves DEF MemoryInv
  <1>7. /\ worker' \in [Workers -> WorkerRow]
        /\ worker'[w].pc = "idle" /\ WorkerOK(w)'
        /\ \A v \in Workers \ {w} : worker'[v] = worker[v] /\ worker[v].pc = "down"
    BY <1>1, RestMoves
  <1>8. /\ module' \in [Runs -> ModuleRow] /\ ChainOK'
    BY <1>5, <1>6, CommitChain
  <1>9. \A f \in Facts : /\ fact[f] \in FactRow /\ Row(f) \in FactRow
                         /\ Row(f).use = "consumed" /\ Row(f).holder = NoRun
                         /\ Row(f).by = r /\ Row(f).kind = fact[f].kind
    BY <1>2 DEF MemoryInv, TablesOK, FactRow
  <1> HIDE DEF Row
  <1>10. /\ fact' \in [Facts -> FactRow]
         /\ \A f \in Facts : fact'[f].kind = fact[f].kind
         /\ \A f \in Facts : f \in Consumed(seen) => /\ fact'[f].use = "consumed"
                                                     /\ fact'[f].holder = NoRun
         /\ \A f \in Facts \ Consumed(seen) : fact'[f] = fact[f]
    BY <1>1, <1>9
  <1>11. Known' = Known
    BY <1>10 DEF Known
  <1>12. TablesOK' /\ NumberedOK'
    BY <1>1, <1>6, <1>7, <1>8, <1>10, <1>11 DEF MemoryInv, TablesOK, NumberedOK
  <1>13. Consumed(seen) \subseteq run[r].cand \cap run[r].evid
         /\ run[r].cand \cap run[r].evid \subseteq Consumed(seen)
    BY <1>2 DEF Consumed
  <1>14. run[r].cand \subseteq Known /\ run[r].attempts <= Allowance
    BY <1>2 DEF MemoryInv, AttemptsOK
  <1>15. FactsOK'
    <2>1. ASSUME NEW f \in Facts
          PROVE  /\ fact'[f].holder # NoRun <=> fact'[f].use = "reserved"
                 /\ fact'[f].by # NoRun => fact'[f].use \in {"consumed", "excluded"}
                 /\ fact'[f].use \in {"eligible", "reserved"} \/ fact'[f].by # NoRun
                    => f \in Known'
      <3>1. CASE f \in Consumed(seen)
        BY <1>10, <1>11, <1>13, <1>14, <3>1
      <3>2. CASE f \notin Consumed(seen)
        BY <1>10, <1>11, <3>2 DEF MemoryInv, FactsOK
      <3>3. QED
        BY <3>1, <3>2
    <2>2. QED
      BY <2>1 DEF FactsOK
  <1>16. ReservedIsHeld'
    <2>1. SUFFICES ASSUME NEW f \in Facts, fact'[f].use = "reserved"
                   PROVE  \/ run'[fact'[f].holder].st = "running"
                          \/ /\ run'[fact'[f].holder].st = "completed"
                             /\ f \notin run'[fact'[f].holder].cand \cap
                                         run'[fact'[f].holder].evid
      BY DEF ReservedIsHeld
    <2>2. fact'[f] = fact[f] /\ f \notin run[r].cand \cap run[r].evid
      BY <1>10, <1>13, <2>1
    <2>3. fact[f].holder \in Runs
      BY <2>1, <2>2 DEF MemoryInv, FactsOK, TablesOK, FactRow
    <2>4. \/ run[fact[f].holder].st = "running"
          \/ /\ run[fact[f].holder].st = "completed"
             /\ f \notin run[fact[f].holder].cand \cap run[fact[f].holder].evid
      BY <2>1, <2>2 DEF MemoryInv, ReservedIsHeld
    <2>5. CASE fact[f].holder = r
      BY <1>5, <1>6, <2>2, <2>5
    <2>6. CASE fact[f].holder # r
      BY <1>6, <2>2, <2>3, <2>4, <2>6
    <2>7. QED
      BY <2>5, <2>6
  <1>17. AttemptsOK'
    <2>1. Allowance' = Allowance
      BY <1>1 DEF Allowance
    <2>2. ASSUME NEW q \in Runs
          PROVE  /\ run'[q].attempts <= Allowance'
                 /\ run'[q].st = "queued" => run'[q].attempts < Allowance'
                 /\ run'[q].st = "failed" => run'[q].attempts >= MaxAttempts
                 /\ run'[q].cand \subseteq Known'
      <3>1. CASE q = r
        BY <1>5, <1>6, <1>11, <1>14, <2>1, <3>1
      <3>2. CASE q # r
        BY <1>6, <1>11, <2>1, <3>2 DEF MemoryInv, AttemptsOK
      <3>3. QED
        BY <3>1, <3>2
    <2>3. QED
      BY <1>7, <2>2 DEF AttemptsOK, Before
  <1>18. WorkersOK'
    BY <1>7, <1>11, WorkerMoves DEF MemoryInv
  <1>19. QED
    BY <1>8, <1>12, <1>15, <1>16, <1>17, <1>18 DEF MemoryInv

-----------------------------------------------------------------------------
(* The theorems *)

\* The invariant is inductive.
LEMMA MemoryInit ==
    ASSUME Init
    PROVE  MemoryInv
  <1>1. /\ \A f \in Facts : fact[f] = NoFact
        /\ \A r \in Runs : run[r] = NullRun /\ module[r] = NullModule
        /\ \A w \in Workers : worker[w] = Idle("down")
        /\ feedback = NoFeedback /\ restarts = 0 /\ dbFailures = 0
    BY DEF Init
  <1>2. TablesOK
    <2>1. Idle("down") \in WorkerRow
      BY ConstantRows DEF Pcs
    <2>2. QED
      BY <2>1, ConstantRows DEF Init, TablesOK
  <1>3. Known = {} /\ Born = {} /\ Modules = {}
    BY <1>1 DEF Known, Born, Modules, NoFact, NullRun, NullModule
  <1>4. 1 .. 0 = {} /\ 0 \in Nat
    OBVIOUS
  <1>5. NumberedOK
    BY <1>3, <1>4 DEF NumberedOK
  <1>6. FactsOK /\ ReservedIsHeld
    BY <1>1 DEF FactsOK, ReservedIsHeld, NoFact
  <1>7. AttemptsOK
    BY <1>1, MemoryConsts DEF AttemptsOK, Allowance, NullRun
  <1>8. ChainOK
    BY <1>3 DEF ChainOK, OneChain
  <1>9. WorkersOK
    BY <1>1 DEF WorkersOK, OneWorker, WorkerOK, Idle, NullRun
  <1>10. QED
    BY <1>2, <1>5, <1>6, <1>7, <1>8, <1>9 DEF MemoryInv

LEMMA MemoryNext ==
    ASSUME MemoryInv, [Next]_vars
    PROVE  MemoryInv'
  <1>1. ASSUME NEW w \in Workers, WorkerStep(w)
        PROVE  MemoryInv'
    BY <1>1, ReconcileReadKeeps, ReconcileWriteKeeps, ReadInputsKeeps, ReserveKeeps,
       CheckKeeps, CommitKeeps, RecoverKeeps, ReleaseKeeps DEF WorkerStep
  <1>2. ASSUME NEW w \in Workers, Start(w) \/ CommitFails(w) \/ Die(w)
        PROVE  MemoryInv'
    BY <1>2, StartKeeps, DieKeeps
  <1>3. CASE Next
    BY <1>1, <1>2, <1>3, RecordEventKeeps, FeedbackReadKeeps, FeedbackWriteKeeps,
       ElapseKeeps DEF Next
  <1>4. CASE UNCHANGED vars
    <2>1. /\ Known' = Known /\ Born' = Born /\ Modules' = Modules /\ Allowance' = Allowance
          /\ Latest' = Latest /\ NextVersion' = NextVersion
      BY <1>4 DEF vars, Known, Born, Modules, Allowance, Latest, NextVersion
    <2>2. TablesOK' /\ NumberedOK' /\ FactsOK' /\ ReservedIsHeld' /\ AttemptsOK' /\ ChainOK'
      BY <1>4, <2>1 DEF vars, MemoryInv, TablesOK, NumberedOK, FactsOK, ReservedIsHeld,
                        AttemptsOK, ChainOK, OneChain
    <2>3. WorkersOK'
      BY <1>4, <2>1, WorkersWait DEF vars, MemoryInv, Waits
    <2>4. QED
      BY <2>2, <2>3 DEF MemoryInv
  <1>5. QED
    BY <1>3, <1>4

LEMMA MemoryInvariant == Spec => []MemoryInv
  <1>1. Init => MemoryInv
    BY MemoryInit
  <1>2. MemoryInv /\ [Next]_vars => MemoryInv'
    BY MemoryNext
  <1>3. QED
    BY <1>1, <1>2, PTL DEF Spec

\* Every row of the queue, the facts and the modules is one that the tables
\* can hold, and nothing but the death of a worker gives a run more attempts
\* than _release_run allows.
THEOREM MemoryTypeCorrect == Spec => []MemoryTypeOK
  <1>1. MemoryInv => MemoryTypeOK
    <2>1. SUFFICES ASSUME MemoryInv PROVE MemoryTypeOK
      OBVIOUS
    <2>2. ASSUME NEW r \in Runs
          PROVE  /\ run[r].st \in RunStatus
                 /\ run[r].cand \cup run[r].evid \subseteq Facts
                 /\ run[r].attempts \in 0 .. MaxAttempts + restarts
                 /\ run[r].st = "failed" => run[r].attempts >= MaxAttempts
                 /\ module[r].st \in ModuleStatus
      <3>1. run[r] \in RunRow /\ module[r] \in ModuleRow /\ restarts \in Nat
        BY <2>1 DEF MemoryInv, TablesOK
      <3>2. run[r].attempts \in Nat /\ run[r].attempts <= MaxAttempts + restarts
        BY <2>1, <3>1 DEF MemoryInv, AttemptsOK, Allowance, RunRow
      <3>3. run[r].attempts \in 0 .. MaxAttempts + restarts
        BY <3>1, <3>2, MemoryConsts
      <3>4. run[r].st = "failed" => run[r].attempts >= MaxAttempts
        BY <2>1 DEF MemoryInv, AttemptsOK
      <3>5. QED
        BY <3>1, <3>3, <3>4 DEF RunRow, ModuleRow
    <2>3. fact \in [Facts -> FactRow]
      BY <2>1 DEF MemoryInv, TablesOK
    <2>4. QED
      BY <2>2, <2>3 DEF MemoryTypeOK, FactRow
  <1>2. QED
    BY <1>1, MemoryInvariant, PTL

\* Reservations are held by runs in progress, up to the facts that a run no
\* longer names, and whatever requests, deaths and refused commits come between
\* the steps of process_synthesis_run the versions form one chain.
THEOREM RunsStaySound == Spec => []RunsAreSound
  <1>1. MemoryInv => RunsAreSound
    BY DEF MemoryInv, ChainOK, RunsAreSound
  <1>2. QED
    BY <1>1, MemoryInvariant, PTL

\* A consumed fact keeps its consumer.
LEMMA ConsumedStays ==
    ASSUME MemoryInv, [Next]_vars, NEW f \in Facts, fact[f].by # NoRun
    PROVE  fact'[f].by = fact[f].by /\ fact'[f].use \in {"consumed", "excluded"}
  <1>1. fact[f].use \in {"consumed", "excluded"} /\ f \in Known /\ fact[f].holder = NoRun
    BY DEF MemoryInv, FactsOK
  <1>2. CASE UNCHANGED fact
    BY <1>1, <1>2
  <1>3. ASSUME NEW S, NEW st \in {"superseded", "retracted"}, NEW k \in Kinds \ {"none"},
               NextFact <= MaxFacts, fact' = WithFact(Invalidated(S, st), k)
        PROVE  fact'[f].by = fact[f].by /\ fact'[f].use \in {"consumed", "excluded"}
    <2>1. \/ fact'[f] = fact[f]
          \/ /\ fact'[f].holder = NoRun /\ fact'[f].use = "excluded"
             /\ fact'[f].by = fact[f].by
          \/ f \notin Known /\ f \in Known' /\ fact'[f] = NewFact(k)
      BY <1>3, RequestFacts DEF MemoryInv
    <2>2. QED
      BY <1>1, <2>1
  <1>4. ASSUME NEW k \in {"note", "goal"}, RecordEvent(k)
        PROVE  fact'[f].by = fact[f].by /\ fact'[f].use \in {"consumed", "excluded"}
    <2>1. k \in Kinds \ {"none"}
      BY DEF Kinds
    <2>2. QED
      BY <1>3, <1>4, <2>1 DEF RecordEvent
  <1>5. CASE FeedbackWrite
    <2>1. feedback.kind \in Kinds \ {"none"}
      BY <1>5 DEF FeedbackWrite, Kinds, MemoryInv, TablesOK, FeedbackRow
    <2>2. QED
      BY <1>3, <1>5, <2>1 DEF FeedbackWrite
  <1>6. ASSUME NEW S, \A g \in S : fact[g].by = NoRun, fact' = Freed(S)
        PROVE  fact'[f].by = fact[f].by /\ fact'[f].use \in {"consumed", "excluded"}
    <2>1. f \notin S
      BY <1>6
    <2>2. fact'[f] = fact[f]
      BY <1>6, <2>1 DEF Freed
    <2>3. QED
      BY <1>1, <2>2
  <1>7. ASSUME NEW w \in Workers, Recover(w)
        PROVE  fact'[f].by = fact[f].by /\ fact'[f].use \in {"consumed", "excluded"}
    <2>1. Broken \in SUBSET Runs
      BY DEF Broken
    <2>2. \A g \in Holding(Broken) : fact[g].by = NoRun
      BY <2>1, HeldIsKnown DEF MemoryInv
    <2>3. \A g \in worker[w].held : fact[g].by = NoRun
      BY DEF MemoryInv, WorkersOK, WorkerOK
    <2>4. QED
      BY <1>6, <1>7, <2>2, <2>3 DEF Recover
  <1>8. ASSUME NEW w \in Workers, Release(w)
        PROVE  fact'[f].by = fact[f].by /\ fact'[f].use \in {"consumed", "excluded"}
    <2>1. \A g \in worker[w].held : fact[g].by = NoRun
      BY DEF MemoryInv, WorkersOK, WorkerOK
    <2>2. QED
      BY <1>6, <1>8, <2>1 DEF Release
  <1>9. ASSUME NEW w \in Workers, Reserve(w)
        PROVE  fact'[f].by = fact[f].by /\ fact'[f].use \in {"consumed", "excluded"}
    <2>1. CASE worker[w].next.st = "stale" \/ f \notin worker[w].seen.cand
      BY <1>1, <1>9, <2>1 DEF Reserve
    <2>2. CASE worker[w].next.st # "stale" /\ f \in worker[w].seen.cand
      BY <1>9, <2>2 DEF Reserve, MemoryInv, WorkersOK, WorkerOK
    <2>3. QED
      BY <2>1, <2>2
  <1>10. ASSUME NEW w \in Workers, Commit(w)
         PROVE  fact'[f].by = fact[f].by /\ fact'[f].use \in {"consumed", "excluded"}
    <2>1. f \notin Consumed(worker[w].seen)
      BY <1>10 DEF Commit, Consumed, MemoryInv, WorkersOK, WorkerOK, IsNext
    <2>2. fact'[f] = fact[f]
      BY <1>10, <2>1 DEF Commit
    <2>3. QED
      BY <1>1, <2>2
  <1>11. CASE UNCHANGED vars
    BY <1>2, <1>11 DEF vars
  <1>12. QED
    BY <1>2, <1>4, <1>5, <1>7, <1>8, <1>9, <1>10, <1>11
       DEF Next, WorkerStep, FeedbackRead, Start, ReconcileRead, ReconcileWrite,
           ReadInputs, Check, CommitFails, Die, Elapse

\* A fact is consumed by one version: no retry, recovery or second run takes
\* what a version has consumed.
THEOREM FactsAreConsumedOnce == Spec => ConsumedOnce
  <1>1. MemoryInv /\ [Next]_vars =>
           [\A f \in Facts : fact[f].by # NoRun =>
               /\ fact'[f].by = fact[f].by
               /\ fact'[f].use \in {"consumed", "excluded"}]_vars
    BY ConsumedStays
  <1>2. QED
    BY <1>1, MemoryInvariant, PTL DEF Spec, ConsumedOnce

=============================================================================
