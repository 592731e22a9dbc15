------------------------ MODULE WorkTaskConversions ------------------------
(***************************************************************************)
(* One work-task conversion of LearnFlow (learnflow_core.                  *)
(* work_task_conversions): a learner's task description is clarified and   *)
(* edited, a background task generates a candidate from it under a lease,  *)
(* and the learner hands the candidate over, to a discussion, to a project *)
(* or through a ticket to the desktop, where it is imported.               *)
(*                                                                         *)
(* A handler that changes the conversion takes the writer's lock with its  *)
(* first statement and reads the row under it: it is one step.  Only the   *)
(* clarification and the generation let go of the database, to call a      *)
(* model, between a read and a write.  A request with an old revision or   *)
(* root hash, or with the number of an action that was answered, changes   *)
(* nothing and has no action here.  The brief's content is the revision    *)
(* that wrote it; the root hash is that of the brief and the candidate.    *)
(***************************************************************************)
EXTENDS Naturals, FiniteSets

CONSTANTS
    MaxRevisions,   \* bound: revisions of the conversion
    MaxGenerations, \* bound: generations
    Messages,       \* clarification messages
    Tickets,        \* desktop tickets
    Modes,          \* project modes whose candidates are generated
    MaxRestarts     \* bound: restarts of the service

ASSUME ConversionAssumption ==
    /\ {MaxRevisions, MaxGenerations, MaxRestarts} \subseteq Nat
    /\ Modes \subseteq {"learning", "design", "draft"}

\* "learning" is a step plan, "design" a compiled experiment or practice and
\* "draft" a domain draft that cannot be materialized.

Generations == 1 .. MaxGenerations

VARIABLES
    revision, brief, state, candidate, generation, \* the conversion's row
    selection, project, session,                   \* its handoff
    projects,       \* how many projects handoffs have created
    imports,        \* how often a candidate has been put into a project
    ticket,
    task,           \* what each run_generation has read
    message,        \* what each add_message has read
    restarts

draft == <<revision, brief, state, candidate, generation>>
target == <<selection, project, session, projects, imports>>
vars == <<draft, target, ticket, task, message, restarts>>

NoCandidate == [gen |-> 0, brief |-> 0, mode |-> "none"]
NoGeneration == [id |-> 0, st |-> "none", mode |-> "none", base |-> 0, lapsed |-> FALSE]
NoSelection == [action |-> "none", project |-> "none", steps |-> "none"]
NoTicket == [st |-> "none", brief |-> 0, gen |-> 0, selection |-> NoSelection]
NoTask == [pc |-> "none", brief |-> 0]
NoMessage == [pc |-> "new", revision |-> 0, brief |-> 0]

\* What a learner chooses: the discussion or the project, a project of their
\* own or a new one, and the steps of a learning plan.
Selections == [action : {"discuss", "create"}, project : {"none", "own"},
               steps : {"all", "some"}]

\* The brief knows which revision wrote it and whether a field is missing.
Init == /\ revision = 1
        /\ brief = [rev |-> 1, complete |-> FALSE]
        /\ state = "draft"
        /\ candidate = NoCandidate
        /\ generation = NoGeneration
        /\ selection = NoSelection
        /\ project = "none"
        /\ session = "none"
        /\ projects = 0
        /\ imports = 0
        /\ ticket = [t \in Tickets |-> NoTicket]
        /\ task = [g \in Generations |-> NoTask]
        /\ message = [m \in Messages |-> NoMessage]
        /\ restarts = 0

Running == generation.st = "running"

-----------------------------------------------------------------------------
(* The draft *)

\* Mutant: a discussion leaves the draft open.
ProjectOnly == project = "none"
NotHandedOver == project = "none" /\ selection = NoSelection
Editable == NotHandedOver /\ ~Running

\* A new revision of the brief: both ways to write it end alike.
SaveBrief(rev, complete) ==
    /\ revision < MaxRevisions
    /\ revision' = revision + 1
    /\ brief' = [rev |-> rev, complete |-> complete]
    /\ candidate' = NoCandidate
    /\ generation' = NoGeneration
    /\ state' = IF complete THEN "ready" ELSE "needs_clarification"

UpdateBrief(complete) ==
    /\ Editable
    /\ SaveBrief(revision + 1, complete)
    /\ UNCHANGED <<target, ticket, task, message, restarts>>

\* add_message reads the row and lets go of the database ...
MessageRead(m) ==
    /\ message[m].pc = "new"
    /\ Editable
    /\ message' = [message EXCEPT ![m] = [pc |-> "asking", revision |-> revision,
                                          brief |-> brief.rev]]
    /\ UNCHANGED <<draft, target, ticket, task, restarts>>

SameRevision(m) == message[m].revision = revision

\* ... and merges the answer into the brief that it read, or into none.
MessageWrite(m, complete) ==
    /\ message[m].pc = "asking"
    /\ Editable
    /\ SameRevision(m)
    /\ \/ SaveBrief(revision + 1, complete)
       \/ complete = brief.complete /\ SaveBrief(message[m].brief, complete)
    /\ message' = [message EXCEPT ![m].pc = "done"]
    /\ UNCHANGED <<target, ticket, task, restarts>>

MessageRefused(m) ==
    /\ message[m].pc = "asking"
    /\ ~(Editable /\ SameRevision(m))
    /\ message' = [message EXCEPT ![m].pc = "done"]
    /\ UNCHANGED <<draft, target, ticket, task, restarts>>

-----------------------------------------------------------------------------
(* The generation *)

\* Mutant: whoever looks only reports it.
StillRunning == generation
\* Mutant: it gets a status that nothing else knows.
InterruptedUnknown == [generation EXCEPT !.st = "interrupted"]
Interrupted == [generation EXCEPT !.st = "failed"]

\* expire_generation: whoever looks at a conversion whose lease has run out.
Expire ==
    /\ Running
    /\ generation.lapsed
    /\ generation' = Interrupted
    /\ state' = "failed"
    /\ UNCHANGED <<revision, brief, candidate, target, ticket, task, message, restarts>>

Lapse ==
    /\ Running
    /\ ~generation.lapsed
    /\ generation' = [generation EXCEPT !.lapsed = TRUE]
    /\ UNCHANGED <<revision, brief, state, candidate, target, ticket, task, message,
                   restarts>>

\* prepare_generation commits the generation and launch_generation starts its
\* task.  Generations have ids of their own.
Generate(g, mode) ==
    /\ task[g].pc = "none"
    /\ \A h \in Generations : h < g => task[h].pc # "none"
    /\ Editable
    /\ brief.complete
    /\ generation' = [id |-> g, st |-> "running", mode |-> mode, base |-> candidate.gen,
                      lapsed |-> FALSE]
    /\ state' = "generating"
    /\ task' = [task EXCEPT ![g].pc = "launched"]
    /\ UNCHANGED <<revision, brief, candidate, target, ticket, message, restarts>>

\* Mutant: whichever generation is running is completed.
AnyGeneration(g) == Running
Current(g) == Running /\ generation.id = g

\* run_generation reads the brief ...
TaskRead(g) ==
    /\ task[g].pc = "launched"
    /\ task' = [task EXCEPT ![g] = IF Current(g) THEN [pc |-> "producing", brief |-> brief.rev]
                                   ELSE [pc |-> "ended", brief |-> 0]]
    /\ UNCHANGED <<draft, target, ticket, message, restarts>>

\* ... and stores what was produced, if it is still the one that is awaited
\* and the conversion has the root hash that it started from.
TaskStore(g) ==
    /\ task[g].pc = "producing"
    /\ Current(g)
    /\ revision < MaxRevisions
    /\ candidate.gen = generation.base
    /\ candidate' = [gen |-> g, brief |-> task[g].brief, mode |-> generation.mode]
    /\ state' = "generated"
    /\ generation' = [generation EXCEPT !.st = "completed"]
    /\ revision' = revision + 1
    /\ task' = [task EXCEPT ![g].pc = "ended"]
    /\ UNCHANGED <<brief, target, ticket, message, restarts>>

\* The provider, the lease of its calls or the store fails.
TaskFail(g) ==
    /\ task[g].pc \in {"launched", "producing"}
    /\ IF Current(g)
       THEN /\ generation' = [generation EXCEPT !.st = "failed"]
            /\ state' = "failed"
       ELSE UNCHANGED <<generation, state>>
    /\ task' = [task EXCEPT ![g].pc = "ended"]
    /\ UNCHANGED <<revision, brief, candidate, target, ticket, message, restarts>>

-----------------------------------------------------------------------------
(* The handoff *)

\* checked_candidate, and what may be chosen for a candidate of each mode.
Choosable(sel) ==
    /\ state = "generated"
    /\ candidate # NoCandidate
    /\ sel.steps = "some" => candidate.mode = "learning"
    /\ candidate.mode = "draft" => sel.action = "discuss"

\* A discussion may be followed by one project; anything else is final.
Conflict(sel) ==
    /\ selection # NoSelection
    /\ selection # sel
    /\ selection.action # "discuss" \/ sel.action = "discuss"

\* Mutant: the project of an earlier handoff is not looked for.
Forgotten(sel) == FALSE
HasProject(sel) == project # "none" /\ (selection.action # "discuss" \/ sel.action = "discuss")
HasSession(sel) == session # "none" /\ sel.action = "discuss"

\* materialize: the handoff that there is, or the project, its content and
\* the conversation that takes over.
Materialize(sel) ==
    /\ ~Conflict(sel)
    /\ IF HasProject(sel) \/ HasSession(sel)
       THEN UNCHANGED target
       ELSE /\ selection' = sel
            /\ project' = IF sel.project = "own" THEN "own"
                          ELSE IF sel.action = "create" THEN "new" ELSE "none"
            /\ session' = IF project' = "none" THEN "global" ELSE "project"
            /\ projects' = projects + (IF project' = "new" THEN 1 ELSE 0)
            /\ imports' = imports + (IF sel.action = "create" THEN 1 ELSE 0)

\* handoff: on the web, to a discussion or, for a step plan, to a project.
Handoff(sel) ==
    /\ Choosable(sel)
    /\ sel.action = "create" => candidate.mode = "learning"
    /\ Materialize(sel)
    /\ UNCHANGED <<draft, ticket, task, message, restarts>>

\* For a design, a ticket that the desktop redeems.
IssueTicket(t, sel) ==
    /\ ticket[t] = NoTicket
    /\ Choosable(sel)
    /\ candidate.mode = "design"
    /\ sel.action = "create"
    /\ selection # NoSelection /\ selection # sel => selection.action = "discuss"
    /\ ticket' = [ticket EXCEPT ![t] = [st |-> "open", brief |-> brief.rev,
                                        gen |-> candidate.gen, selection |-> sel]]
    /\ UNCHANGED <<draft, target, task, message, restarts>>

SameRoot(t) == ticket[t].brief = brief.rev /\ ticket[t].gen = candidate.gen

\* Redeeming a ticket twice gives the first answer.
ConsumeTicket(t) ==
    /\ ticket[t].st = "open"
    /\ SameRoot(t)
    /\ Choosable(ticket[t].selection)
    /\ Materialize(ticket[t].selection)
    /\ ticket' = [ticket EXCEPT ![t].st = "consumed"]
    /\ UNCHANGED <<draft, task, message, restarts>>

ExpireTicket(t) ==
    /\ ticket[t].st = "open"
    /\ ticket' = [ticket EXCEPT ![t].st = "expired"]
    /\ UNCHANGED <<draft, target, task, message, restarts>>

-----------------------------------------------------------------------------
\* The service dies with the requests and tasks that it was working on.
Restart ==
    /\ restarts < MaxRestarts
    /\ restarts' = restarts + 1
    /\ task' = [g \in Generations |-> IF task[g].pc = "none" THEN task[g]
                                      ELSE [pc |-> "ended", brief |-> 0]]
    /\ message' = [m \in Messages |-> IF message[m].pc = "new" THEN message[m]
                                      ELSE [message[m] EXCEPT !.pc = "done"]]
    /\ UNCHANGED <<draft, target, ticket>>

Next ==
    \/ \E complete \in BOOLEAN : UpdateBrief(complete)
    \/ \E m \in Messages :
          \/ MessageRead(m) \/ MessageRefused(m)
          \/ \E complete \in BOOLEAN : MessageWrite(m, complete)
    \/ Expire \/ Lapse
    \/ \E g \in Generations :
          \/ TaskRead(g) \/ TaskStore(g) \/ TaskFail(g)
          \/ \E mode \in Modes : Generate(g, mode)
    \/ \E sel \in Selections : Handoff(sel) \/ \E t \in Tickets : IssueTicket(t, sel)
    \/ \E t \in Tickets : ConsumeTicket(t) \/ ExpireTicket(t)
    \/ Restart

Spec == Init /\ [][Next]_vars

\* Time passes, and the page polls a conversion that is being generated.
FairSpec == Spec /\ WF_vars(Lapse) /\ WF_vars(Expire)

-----------------------------------------------------------------------------
(* Properties *)

\* The row, the tickets and what tasks and requests have read.
ConversionTypeOK ==
    /\ revision \in Nat \ {0}
    /\ brief \in [rev : Nat \ {0}, complete : BOOLEAN]
    /\ state \in {"draft", "needs_clarification", "ready", "generating", "generated", "failed"}
    /\ candidate \in [gen : Generations, brief : Nat \ {0}, mode : Modes] \cup {NoCandidate}
    /\ generation \in [id : Generations, st : {"running", "completed", "failed"},
                       mode : Modes, base : Generations \cup {0}, lapsed : BOOLEAN]
                      \cup {NoGeneration}
    /\ selection \in Selections \cup {NoSelection}
    /\ project \in {"none", "own", "new"}
    /\ session \in {"none", "global", "project"}
    /\ projects \in Nat
    /\ imports \in Nat
    /\ ticket \in [Tickets -> [st : {"open", "consumed", "expired"}, brief : Nat \ {0},
                               gen : Generations, selection : Selections] \cup {NoTicket}]
    /\ task \in [Generations -> [pc : {"none", "launched", "producing", "ended"}, brief : Nat]]
    /\ message \in [Messages -> [pc : {"new", "asking", "done"}, revision : Nat, brief : Nat]]
    /\ restarts \in Nat

\* A candidate that can be handed over was made from the brief as it stands,
\* by the generation that the learner asked for last: no late, expired or
\* superseded generation gets its result in.
GeneratedIsCurrent ==
    state = "generated" =>
        /\ candidate # NoCandidate
        /\ candidate.brief = brief.rev
        /\ candidate.gen = generation.id
        /\ generation.st = "completed"

\* However often a conversion is handed over, by the web, by several tickets
\* and after a discussion, it makes one project and fills one.
OneProject ==
    /\ projects <= 1
    /\ imports <= 1
    /\ projects = 1 => project = "new"
    /\ imports = 1 => selection.action = "create" /\ project # "none"

\* A redeemed ticket has imported the version that it shows.
TicketsImport ==
    \A t \in Tickets : ticket[t].st = "consumed" =>
        /\ selection = ticket[t].selection
        /\ imports = 1
        /\ ticket[t].brief = brief.rev
        /\ ticket[t].gen = candidate.gen

\* Both ways to hand over lead to one result.
HandoffsAgree == OneProject /\ TicketsImport

\* What was handed over stays as it was confirmed: no edit, clarification or
\* generation that was under way changes it.
HandedOverIsFixed ==
    [][selection # NoSelection => UNCHANGED draft]_vars

\* A clarification is merged into the brief that its model has seen, and no
\* edit made meanwhile is lost.
NoLostEdit ==
    [][\A m \in Messages :
          message[m].pc = "asking" /\ message'[m].pc = "done" /\ revision' # revision
              => message[m].brief = brief.rev]_vars

\* Edits are neither lost nor let in too late.
EditsHold == HandedOverIsFixed /\ NoLostEdit

\* A generation does not keep a conversion closed for ever, whatever becomes
\* of its task.
GenerationsEnd == []<>(~Running)
=============================================================================
