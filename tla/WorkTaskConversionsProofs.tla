--------------------- MODULE WorkTaskConversionsProofs ---------------------
(***************************************************************************)
(* Proofs about WorkTaskConversions, for any number of revisions,          *)
(* generations, messages, tickets and restarts.                            *)
(*                                                                         *)
(* The properties follow from ConversionInv, which adds to them what a     *)
(* handoff has left in its project (TargetInv) and what the readers that   *)
(* let go of the database may still rely on (ReadInv).                     *)
(***************************************************************************)
EXTENDS WorkTaskConversions, TLAPS

\* Only a generated conversion has been handed over.
DraftInv ==
    /\ GeneratedIsCurrent
    /\ selection # NoSelection => state = "generated"

\* What each kind of handoff has left behind.
TargetInv ==
    /\ selection = NoSelection =>
          project = "none" /\ session = "none" /\ projects = 0 /\ imports = 0
    /\ selection.action = "discuss" =>
          project # "new" /\ session # "none" /\ projects = 0 /\ imports = 0
    /\ selection.action = "create" =>
          /\ project # "none" /\ imports = 1
          /\ projects = IF project = "new" THEN 1 ELSE 0

\* Tickets are for imports.
TicketInv ==
    /\ TicketsImport
    /\ \A t \in Tickets : ticket[t] # NoTicket => ticket[t].selection.action = "create"

\* What was read before a model was called is still what the row says, as long
\* as the check at the write passes.
ReadInv ==
    /\ \A g \in Generations :
          task[g].pc = "producing" /\ Current(g) => task[g].brief = brief.rev
    /\ \A m \in Messages :
          message[m].pc = "asking" =>
             /\ message[m].revision <= revision
             /\ message[m].revision = revision => message[m].brief = brief.rev

ConversionInv ==
    ConversionTypeOK /\ DraftInv /\ TargetInv /\ TicketInv /\ ReadInv

-----------------------------------------------------------------------------
(* Lemmas *)

LEMMA InvInit == Init => ConversionInv
  BY ConversionAssumption
     DEF Init, ConversionInv, ConversionTypeOK, DraftInv, GeneratedIsCurrent, TargetInv,
         TicketInv, TicketsImport, ReadInv, NoCandidate, NoGeneration, NoSelection,
         NoTicket, NoTask, NoMessage, Selections, Current, Running

\* A new revision of the brief is well typed and closes what was going on.
LEMMA SaveBriefRow ==
    ASSUME ConversionTypeOK, NEW rev \in Nat \ {0}, NEW complete \in BOOLEAN,
           SaveBrief(rev, complete)
    PROVE  /\ revision' \in Nat \ {0} /\ revision' = revision + 1
           /\ brief' \in [rev : Nat \ {0}, complete : BOOLEAN] /\ brief'.rev = rev
           /\ state' \in {"ready", "needs_clarification"}
           /\ candidate' = NoCandidate /\ generation' = NoGeneration
  BY DEF ConversionTypeOK, SaveBrief

\* What a handoff does to its target, and that after an import it does nothing.
LEMMA MaterializeTarget ==
    ASSUME ConversionTypeOK, TargetInv, NEW sel \in Selections, Materialize(sel)
    PROVE  /\ selection' \in Selections
           /\ project' \in {"none", "own", "new"} /\ session' \in {"none", "global", "project"}
           /\ projects' \in Nat /\ imports' \in Nat
           /\ TargetInv'
           /\ selection.action = "create" => UNCHANGED target
           /\ sel.action = "create" => selection' = sel /\ imports' = 1
  <1>1. sel.action \in {"discuss", "create"} /\ sel.project \in {"none", "own"}
    BY DEF Selections
  <1>2. selection = NoSelection \/ selection.action \in {"discuss", "create"}
    BY DEF ConversionTypeOK, Selections
  <1>3. NoSelection.action = "none"
    BY DEF NoSelection
  <1>4. CASE HasProject(sel) \/ HasSession(sel)
    <2>1. UNCHANGED target
      BY <1>4 DEF Materialize
    <2>2. selection # NoSelection
      BY <1>4 DEF HasProject, HasSession, TargetInv
    <2>3. sel.action = "create" => selection = sel
      BY <1>1, <1>2, <1>4, <2>2 DEF Materialize, Conflict, HasProject, HasSession
    <2>4. QED
      BY <1>2, <2>1, <2>2, <2>3 DEF target, ConversionTypeOK, TargetInv
  <1>5. CASE ~(HasProject(sel) \/ HasSession(sel))
    <2>1. /\ selection' = sel
          /\ project' = IF sel.project = "own" THEN "own"
                        ELSE IF sel.action = "create" THEN "new" ELSE "none"
          /\ session' = IF project' = "none" THEN "global" ELSE "project"
          /\ projects' = projects + (IF project' = "new" THEN 1 ELSE 0)
          /\ imports' = imports + (IF sel.action = "create" THEN 1 ELSE 0)
      BY <1>5 DEF Materialize
    <2>2. selection.action # "create"
      <3> SUFFICES ASSUME selection.action = "create" PROVE FALSE
        OBVIOUS
      <3>1. project # "none"
        BY DEF TargetInv
      <3>2. HasProject(sel)
        BY <3>1 DEF HasProject
      <3>3. QED
        BY <3>2, <1>5
    <2>3. projects = 0 /\ imports = 0
      BY <1>2, <2>2 DEF TargetInv
    <2>4. TargetInv'
      BY <1>1, <1>3, <2>1, <2>3 DEF TargetInv
    <2>5. QED
      BY <1>1, <2>1, <2>2, <2>3, <2>4
  <1>6. QED
    BY <1>4, <1>5

-----------------------------------------------------------------------------
(* Type correctness *)

\* A running generation is one of the rows, not the null that a new brief leaves.
LEMMA RunningRow ==
    ASSUME ConversionTypeOK, Running
    PROVE  generation \in [id : Generations, st : {"running", "completed", "failed"},
                           mode : Modes, base : Generations \cup {0}, lapsed : BOOLEAN]
  BY DEF Running, NoGeneration, ConversionTypeOK

LEMMA TypeNext == ConversionInv /\ [Next]_vars => ConversionTypeOK'
  <1> SUFFICES ASSUME ConversionInv, [Next]_vars PROVE ConversionTypeOK'
    OBVIOUS
  <1> USE DEF ConversionInv
  <1>1. ASSUME NEW complete \in BOOLEAN, UpdateBrief(complete)
        PROVE  ConversionTypeOK'
    <2>1. revision + 1 \in Nat \ {0}
      BY DEF ConversionTypeOK
    <2>2. QED
      BY <1>1, <2>1, SaveBriefRow DEF UpdateBrief, target, ConversionTypeOK
  <1>2. ASSUME NEW m \in Messages, MessageRead(m)
        PROVE  ConversionTypeOK'
    BY <1>2 DEF MessageRead, draft, target, ConversionTypeOK
  <1>3. ASSUME NEW m \in Messages, NEW complete \in BOOLEAN, MessageWrite(m, complete)
        PROVE  ConversionTypeOK'
    <2>1. message[m].brief = brief.rev /\ brief.rev \in Nat \ {0} /\ revision + 1 \in Nat \ {0}
      BY <1>3 DEF MessageWrite, SameRevision, ReadInv, ConversionTypeOK
    <2>2. \E rev \in Nat \ {0} : SaveBrief(rev, complete)
      BY <1>3, <2>1 DEF MessageWrite
    <2>3. PICK rev \in Nat \ {0} : SaveBrief(rev, complete)
      BY <2>2
    <2>4. QED
      BY <1>3, <2>3, SaveBriefRow DEF MessageWrite, target, ConversionTypeOK
  <1>4. ASSUME NEW m \in Messages, MessageRefused(m)
        PROVE  ConversionTypeOK'
    BY <1>4 DEF MessageRefused, draft, target, ConversionTypeOK
  <1>5. CASE Expire
    BY <1>5, RunningRow DEF Expire, Interrupted, target, ConversionTypeOK
  <1>6. CASE Lapse
    BY <1>6, RunningRow DEF Lapse, target, ConversionTypeOK
  <1>7. ASSUME NEW g \in Generations, NEW mode \in Modes, Generate(g, mode)
        PROVE  ConversionTypeOK'
    <2>1. candidate.gen \in Generations \cup {0}
      BY DEF ConversionTypeOK, NoCandidate
    <2>2. QED
      BY <1>7, <2>1 DEF Generate, target, ConversionTypeOK
  <1>8. ASSUME NEW g \in Generations, TaskRead(g)
        PROVE  ConversionTypeOK'
    BY <1>8 DEF TaskRead, draft, target, ConversionTypeOK
  <1>9. ASSUME NEW g \in Generations, TaskStore(g)
        PROVE  ConversionTypeOK'
    <2>1. task[g].brief = brief.rev /\ brief.rev \in Nat \ {0}
      BY <1>9 DEF TaskStore, ReadInv, ConversionTypeOK
    <2>2. QED
      BY <1>9, <2>1, RunningRow DEF TaskStore, Current, target, ConversionTypeOK
  <1>10. ASSUME NEW g \in Generations, TaskFail(g)
         PROVE  ConversionTypeOK'
    <2>1. task' \in [Generations -> [pc : {"none", "launched", "producing", "ended"}, brief : Nat]]
      BY <1>10 DEF TaskFail, ConversionTypeOK
    <2>2. CASE Current(g)
      BY <1>10, <2>1, <2>2, RunningRow DEF TaskFail, Current, target, ConversionTypeOK
    <2>3. CASE ~Current(g)
      BY <1>10, <2>1, <2>3 DEF TaskFail, target, ConversionTypeOK
    <2>4. QED
      BY <2>2, <2>3
  <1>11. ASSUME NEW sel \in Selections, Handoff(sel)
         PROVE  ConversionTypeOK'
    BY <1>11, MaterializeTarget DEF Handoff, draft, ConversionTypeOK
  <1>12. ASSUME NEW sel \in Selections, NEW t \in Tickets, IssueTicket(t, sel)
         PROVE  ConversionTypeOK'
    BY <1>12 DEF IssueTicket, Choosable, draft, target, ConversionTypeOK
  <1>13. ASSUME NEW t \in Tickets, ConsumeTicket(t)
         PROVE  ConversionTypeOK'
    <2>1. ticket[t].selection \in Selections
      BY <1>13 DEF ConsumeTicket, NoTicket, ConversionTypeOK
    <2>2. QED
      BY <1>13, <2>1, MaterializeTarget DEF ConsumeTicket, draft, NoTicket, ConversionTypeOK
  <1>14. ASSUME NEW t \in Tickets, ExpireTicket(t)
         PROVE  ConversionTypeOK'
    BY <1>14 DEF ExpireTicket, draft, target, NoTicket, ConversionTypeOK
  <1>15. CASE Restart
    BY <1>15 DEF Restart, draft, target, ConversionTypeOK
  <1>16. CASE UNCHANGED vars
    BY <1>16 DEF vars, draft, target, ConversionTypeOK
  <1>17. QED
    BY <1>1, <1>2, <1>3, <1>4, <1>5, <1>6, <1>7, <1>8, <1>9, <1>10, <1>11, <1>12, <1>13,
       <1>14, <1>15, <1>16 DEF Next

-----------------------------------------------------------------------------
(* What was handed over, and how *)

\* A conversion that was handed over is generated and nothing is running, so
\* that only what leaves the draft alone is enabled.
LEMMA HandedOver ==
    ASSUME ConversionInv, [Next]_vars, selection # NoSelection
    PROVE  UNCHANGED draft
  <1>1. state = "generated" /\ ~Running
    BY DEF ConversionInv, DraftInv, GeneratedIsCurrent, Running
  <1>2. QED
    BY <1>1 DEF Next, UpdateBrief, MessageRead, MessageWrite, MessageRefused, Editable,
                NotHandedOver, Expire, Lapse, Generate, TaskRead, TaskStore, TaskFail, Current,
                Handoff, IssueTicket, ConsumeTicket, ExpireTicket, Restart, draft, vars

LEMMA DraftNext == ConversionInv /\ [Next]_vars => DraftInv'
  <1> SUFFICES ASSUME ConversionInv, [Next]_vars PROVE DraftInv'
    OBVIOUS
  <1>1. CASE selection # NoSelection
    BY <1>1, HandedOver DEF ConversionInv, DraftInv, GeneratedIsCurrent, draft
  <1>2. CASE selection = NoSelection /\ UNCHANGED <<draft, selection>>
    BY <1>2 DEF ConversionInv, DraftInv, GeneratedIsCurrent, draft
  <1>3. ASSUME NEW complete \in BOOLEAN, UpdateBrief(complete)
        PROVE  DraftInv'
    <2>1. revision + 1 \in Nat \ {0}
      BY DEF ConversionInv, ConversionTypeOK
    <2>2. QED
      BY <1>3, <2>1, SaveBriefRow
         DEF UpdateBrief, Editable, NotHandedOver, target, ConversionInv, DraftInv, GeneratedIsCurrent
  <1>4. ASSUME NEW m \in Messages, NEW complete \in BOOLEAN, MessageWrite(m, complete)
        PROVE  DraftInv'
    BY <1>4 DEF MessageWrite, SaveBrief, Editable, NotHandedOver, target, DraftInv,
                GeneratedIsCurrent
  <1>5. CASE Expire
    BY <1>2, <1>5 DEF Expire, target, DraftInv, GeneratedIsCurrent, ConversionInv, Running
  <1>6. CASE Lapse
    BY <1>6 DEF Lapse, target, DraftInv, GeneratedIsCurrent, ConversionInv, Running
  <1>7. ASSUME NEW g \in Generations, NEW mode \in Modes, Generate(g, mode)
        PROVE  DraftInv'
    BY <1>7 DEF Generate, Editable, NotHandedOver, target, DraftInv, GeneratedIsCurrent
  <1>8. ASSUME NEW g \in Generations, TaskStore(g)
        PROVE  DraftInv'
    <2>1. /\ candidate' = [gen |-> g, brief |-> brief.rev, mode |-> generation.mode]
          /\ generation' = [generation EXCEPT !.st = "completed"]
          /\ generation.id = g /\ brief' = brief /\ state' = "generated"
      BY <1>8 DEF TaskStore, Current, ConversionInv, ReadInv
    <2>2. generation \in [id : Generations, st : {"running", "completed", "failed"},
                         mode : Modes, base : Generations \cup {0}, lapsed : BOOLEAN]
      BY <1>8, RunningRow DEF TaskStore, Current, ConversionInv
    <2>3. g # 0
      BY ConversionAssumption DEF Generations
    <2>4. QED
      BY <2>1, <2>2, <2>3 DEF DraftInv, GeneratedIsCurrent, NoCandidate
  <1>9. ASSUME NEW g \in Generations, TaskFail(g)
        PROVE  DraftInv'
    BY <1>9 DEF TaskFail, Current, Running, target, DraftInv, GeneratedIsCurrent, ConversionInv
  <1>10. ASSUME NEW sel \in Selections, Handoff(sel)
         PROVE  DraftInv'
    BY <1>10 DEF Handoff, Choosable, draft, DraftInv, GeneratedIsCurrent, ConversionInv
  <1>11. ASSUME NEW t \in Tickets, ConsumeTicket(t)
         PROVE  DraftInv'
    BY <1>11 DEF ConsumeTicket, Choosable, draft, DraftInv, GeneratedIsCurrent, ConversionInv
  <1>12. QED
    BY <1>1, <1>2, <1>3, <1>4, <1>5, <1>6, <1>7, <1>8, <1>9, <1>10, <1>11
       DEF Next, MessageRead, MessageRefused, TaskRead, IssueTicket, ExpireTicket, Restart,
           vars, draft, target

LEMMA TargetNext == ConversionInv /\ [Next]_vars => TargetInv'
  <1> SUFFICES ASSUME ConversionInv, [Next]_vars PROVE TargetInv'
    OBVIOUS
  <1>1. ASSUME NEW sel \in Selections, Handoff(sel)
        PROVE  TargetInv'
    BY <1>1, MaterializeTarget DEF Handoff, ConversionInv
  <1>2. ASSUME NEW t \in Tickets, ConsumeTicket(t)
        PROVE  TargetInv'
    <2>1. ticket[t].selection \in Selections
      BY <1>2 DEF ConsumeTicket, NoTicket, ConversionInv, ConversionTypeOK
    <2>2. QED
      BY <1>2, <2>1, MaterializeTarget DEF ConsumeTicket, ConversionInv
  <1>3. CASE UNCHANGED target
    BY <1>3 DEF target, ConversionInv, TargetInv
  <1>4. QED
    BY <1>1, <1>2, <1>3
       DEF Next, UpdateBrief, MessageRead, MessageWrite, MessageRefused, Expire, Lapse,
           Generate, TaskRead, TaskStore, TaskFail, IssueTicket, ExpireTicket, Restart, vars

\* After an import, every further handoff finds it.
LEMMA Imported ==
    ASSUME ConversionInv, [Next]_vars, selection.action = "create"
    PROVE  UNCHANGED <<draft, target>>
  <1>1. selection # NoSelection
    BY DEF NoSelection
  <1>2. UNCHANGED draft
    BY <1>1, HandedOver
  <1>3. ASSUME NEW sel \in Selections, Handoff(sel)
        PROVE  UNCHANGED target
    BY <1>3, MaterializeTarget DEF Handoff, ConversionInv
  <1>4. ASSUME NEW t \in Tickets, ConsumeTicket(t)
        PROVE  UNCHANGED target
    <2>1. ticket[t].selection \in Selections
      BY <1>4 DEF ConsumeTicket, NoTicket, ConversionInv, ConversionTypeOK
    <2>2. QED
      BY <1>4, <2>1, MaterializeTarget DEF ConsumeTicket, ConversionInv
  <1>5. QED
    BY <1>2, <1>3, <1>4
       DEF Next, UpdateBrief, MessageRead, MessageWrite, MessageRefused, Expire, Lapse,
           Generate, TaskRead, TaskStore, TaskFail, IssueTicket, ExpireTicket, Restart, vars

\* A redeemed ticket stays true, and a new one is redeemed by its own import.
LEMMA TicketNext == ConversionInv /\ [Next]_vars => TicketInv'
  <1> SUFFICES ASSUME ConversionInv, [Next]_vars PROVE TicketInv'
    OBVIOUS
  <1>1. ASSUME NEW t \in Tickets, ticket[t].st = "consumed"
        PROVE  /\ selection = ticket[t].selection /\ imports = 1
               /\ ticket[t].brief = brief.rev /\ ticket[t].gen = candidate.gen
               /\ UNCHANGED <<draft, target>>
    <2>1. ticket[t] # NoTicket
      BY <1>1 DEF NoTicket
    <2>2. /\ selection = ticket[t].selection /\ imports = 1
          /\ ticket[t].brief = brief.rev /\ ticket[t].gen = candidate.gen
          /\ selection.action = "create"
      BY <1>1, <2>1 DEF ConversionInv, TicketInv, TicketsImport
    <2>3. QED
      BY <2>2, Imported
  <1>2. ASSUME NEW u \in Tickets, ConsumeTicket(u)
        PROVE  TicketInv'
    <2>1. /\ ticket[u] # NoTicket /\ ticket[u].selection \in Selections
          /\ ticket[u].selection.action = "create"
          /\ ticket[u].brief = brief.rev /\ ticket[u].gen = candidate.gen
      BY <1>2 DEF ConsumeTicket, SameRoot, NoTicket, ConversionInv, ConversionTypeOK, TicketInv
    <2>2. /\ selection' = ticket[u].selection /\ imports' = 1 /\ UNCHANGED draft
          /\ ticket' = [ticket EXCEPT ![u].st = "consumed"]
      BY <1>2, <2>1, MaterializeTarget DEF ConsumeTicket, ConversionInv
    <2>3. ticket \in [Tickets -> [st : {"open", "consumed", "expired"}, brief : Nat \ {0},
                               gen : Generations, selection : Selections] \cup {NoTicket}]
      BY DEF ConversionInv, ConversionTypeOK
    <2>4. \A t \in Tickets :
             /\ ticket'[t].selection = ticket[t].selection
             /\ ticket'[t].brief = ticket[t].brief /\ ticket'[t].gen = ticket[t].gen
             /\ t # u => ticket'[t] = ticket[t]
      BY <2>2, <2>3, <2>1 DEF NoTicket
    <2>5. TicketsImport'
      BY <1>1, <2>1, <2>2, <2>4 DEF TicketsImport, draft, target
    <2>6. QED
      BY <2>1, <2>4, <2>5 DEF TicketInv, ConversionInv
  <1>3. ASSUME NEW u \in Tickets, NEW sel \in Selections, IssueTicket(u, sel)
        PROVE  TicketInv'
    <2>1. /\ ticket' = [ticket EXCEPT ![u] = [st |-> "open", brief |-> brief.rev,
                                             gen |-> candidate.gen, selection |-> sel]]
          /\ sel.action = "create"
      BY <1>3 DEF IssueTicket
    <2>2. ticket \in [Tickets -> [st : {"open", "consumed", "expired"}, brief : Nat \ {0},
                               gen : Generations, selection : Selections] \cup {NoTicket}]
      BY DEF ConversionInv, ConversionTypeOK
    <2>3. \A t \in Tickets : t # u => ticket'[t] = ticket[t]
      BY <2>1, <2>2
    <2>4. ticket'[u].st = "open" /\ ticket'[u].selection = sel
      BY <2>1, <2>2
    <2>5. QED
      BY <1>1, <2>1, <2>3, <2>4 DEF TicketInv, TicketsImport, ConversionInv, draft, target
  <1>4. ASSUME NEW u \in Tickets, ExpireTicket(u)
        PROVE  TicketInv'
    <2>1. ticket \in [Tickets -> [st : {"open", "consumed", "expired"}, brief : Nat \ {0},
                               gen : Generations, selection : Selections] \cup {NoTicket}]
      BY DEF ConversionInv, ConversionTypeOK
    <2>2. /\ \A t \in Tickets : t # u => ticket'[t] = ticket[t]
          /\ ticket'[u].st = "expired" /\ ticket'[u].selection = ticket[u].selection
          /\ ticket[u] # NoTicket
      BY <1>4, <2>1 DEF ExpireTicket, NoTicket
    <2>3. QED
      BY <1>1, <2>2 DEF TicketInv, TicketsImport, ConversionInv, draft, target
  <1>5. CASE UNCHANGED ticket
    BY <1>1, <1>5 DEF TicketInv, TicketsImport, ConversionInv, draft, target
  <1>6. QED
    BY <1>2, <1>3, <1>4, <1>5
       DEF Next, UpdateBrief, MessageRead, MessageWrite, MessageRefused, Expire, Lapse,
           Generate, TaskRead, TaskStore, TaskFail, Handoff, Restart, vars

-----------------------------------------------------------------------------
(* What readers may rely on *)

\* Only the three writes move the revision, and all move it forward; the
\* brief moves with it and stops every generation.
LEMMA BriefMoves ==
    ASSUME ConversionInv, [Next]_vars
    PROVE  /\ revision' \in Nat /\ revision \in Nat
           /\ UNCHANGED revision \/ revision' = revision + 1
           /\ UNCHANGED brief \/ (revision' = revision + 1 /\ generation' = NoGeneration)
  <1>0. revision \in Nat
    BY DEF ConversionInv, ConversionTypeOK
  <1>1. ASSUME NEW rev, NEW complete \in BOOLEAN, SaveBrief(rev, complete)
        PROVE  revision' = revision + 1 /\ generation' = NoGeneration
    BY <1>1 DEF SaveBrief
  <1>2. ASSUME NEW g \in Generations, TaskStore(g)
        PROVE  revision' = revision + 1 /\ UNCHANGED brief
    BY <1>2 DEF TaskStore
  <1>3. \/ UNCHANGED <<revision, brief>>
        \/ \E rev : \E complete \in BOOLEAN : SaveBrief(rev, complete)
        \/ \E g \in Generations : TaskStore(g)
    <2>1. ASSUME NEW complete \in BOOLEAN, UpdateBrief(complete)
          PROVE  \E rev : \E c \in BOOLEAN : SaveBrief(rev, c)
      BY <2>1 DEF UpdateBrief
    <2>2. ASSUME NEW m \in Messages, NEW complete \in BOOLEAN, MessageWrite(m, complete)
          PROVE  \E rev : \E c \in BOOLEAN : SaveBrief(rev, c)
      BY <2>2 DEF MessageWrite
    <2>3. QED
      BY <2>1, <2>2
         DEF Next, MessageRead, MessageRefused, Expire, Lapse, Generate, TaskRead, TaskFail,
             Handoff, IssueTicket, ConsumeTicket, ExpireTicket, Restart, vars, draft
  <1>4. QED
    BY <1>0, <1>1, <1>2, <1>3

\* A generation that is current now was current before, or has just begun.
LEMMA CurrentStays ==
    ASSUME ConversionInv, [Next]_vars, NEW g \in Generations, Current(g)', task'[g].pc = "producing"
    PROVE  Current(g) /\ UNCHANGED brief
  <1>0. task \in [Generations -> [pc : {"none", "launched", "producing", "ended"}, brief : Nat]]
    BY DEF ConversionInv, ConversionTypeOK
  <1>1. UNCHANGED brief
    BY BriefMoves DEF Current, Running, NoGeneration
  <1>2. ASSUME NEW h \in Generations, NEW mode \in Modes, Generate(h, mode)
        PROVE  FALSE
    <2>1. h = g
      BY <1>2 DEF Generate, Current, Running
    <2>2. task'[g].pc = "launched"
      BY <1>0, <1>2, <2>1 DEF Generate
    <2>3. QED
      BY <2>2
  <1>3. CASE Expire
    BY <1>3 DEF Expire, Interrupted, Current, Running, ConversionInv, ConversionTypeOK
  <1>4. CASE Lapse
    BY <1>4, RunningRow DEF Lapse, Current, Running, ConversionInv
  <1>5. ASSUME NEW h \in Generations, TaskStore(h)
        PROVE  FALSE
    BY <1>5, RunningRow DEF TaskStore, Current, Running, ConversionInv
  <1>6. ASSUME NEW h \in Generations, TaskFail(h)
        PROVE  Current(g)
    BY <1>6, RunningRow DEF TaskFail, Current, Running, ConversionInv
  <1>7. CASE UNCHANGED generation
    BY <1>1, <1>7 DEF Current, Running
  <1>8. CASE generation' = NoGeneration
    BY <1>8 DEF Current, Running, NoGeneration
  <1>9. QED
    BY <1>1, <1>2, <1>3, <1>4, <1>5, <1>6, <1>7, <1>8
       DEF Next, UpdateBrief, MessageRead, MessageWrite, SaveBrief, MessageRefused, TaskRead,
           Handoff, IssueTicket, ConsumeTicket, ExpireTicket, Restart, vars, draft

LEMMA ReadNext == ConversionInv /\ [Next]_vars => ReadInv'
  <1> SUFFICES ASSUME ConversionInv, [Next]_vars PROVE ReadInv'
    OBVIOUS
  <1>0. /\ task \in [Generations -> [pc : {"none", "launched", "producing", "ended"}, brief : Nat]]
        /\ message \in [Messages -> [pc : {"new", "asking", "done"}, revision : Nat, brief : Nat]]
    BY DEF ConversionInv, ConversionTypeOK
  <1>1. ASSUME NEW g \in Generations, task'[g].pc = "producing", Current(g)'
        PROVE  task'[g].brief = brief'.rev
    <2>1. Current(g) /\ UNCHANGED brief
      BY <1>1, CurrentStays
    <2>2. ASSUME NEW h \in Generations, TaskRead(h)
          PROVE  task'[g].brief = brief.rev
      <3>1. CASE h = g
        BY <1>0, <2>1, <2>2, <3>1 DEF TaskRead
      <3>2. CASE h # g
        BY <1>0, <1>1, <2>1, <2>2, <3>2 DEF TaskRead, ConversionInv, ReadInv
      <3>3. QED
        BY <3>1, <3>2
    <2>3. CASE task'[g] = task[g]
      BY <1>1, <2>1, <2>3 DEF ConversionInv, ReadInv
    <2>4. (\E h \in Generations : TaskRead(h)) \/ task'[g] = task[g]
      <3>1. ASSUME NEW h \in Generations, NEW mode \in Modes, Generate(h, mode)
            PROVE  task'[g] = task[g]
        BY <1>0, <1>1, <3>1 DEF Generate
      <3>2. ASSUME NEW h \in Generations, TaskStore(h) \/ TaskFail(h)
            PROVE  task'[g] = task[g]
        BY <1>0, <1>1, <3>2 DEF TaskStore, TaskFail
      <3>3. CASE Restart
        BY <1>0, <1>1, <3>3 DEF Restart
      <3>4. QED
        BY <3>1, <3>2, <3>3
           DEF Next, UpdateBrief, MessageRead, MessageWrite, MessageRefused, Expire, Lapse,
               Handoff, IssueTicket, ConsumeTicket, ExpireTicket, vars
    <2>5. QED
      BY <2>1, <2>2, <2>3, <2>4
  <1>2. ASSUME NEW m \in Messages, message'[m].pc = "asking"
        PROVE  /\ message'[m].revision <= revision'
               /\ message'[m].revision = revision' => message'[m].brief = brief'.rev
    <2>1. ASSUME NEW n \in Messages, MessageRead(n)
          PROVE  \/ message'[m] = message[m]
                 \/ /\ message'[m].revision = revision /\ message'[m].brief = brief.rev
                    /\ UNCHANGED <<revision, brief>>
      BY <1>0, <2>1 DEF MessageRead, draft
    <2>2. \/ message'[m] = message[m]
          \/ /\ message'[m].revision = revision /\ message'[m].brief = brief.rev
             /\ UNCHANGED <<revision, brief>>
      <3>1. ASSUME NEW n \in Messages,
                   MessageRefused(n) \/ \E complete \in BOOLEAN : MessageWrite(n, complete)
            PROVE  message'[m] = message[m]
        BY <1>0, <1>2, <3>1 DEF MessageRefused, MessageWrite
      <3>2. CASE Restart
        BY <1>0, <1>2, <3>2 DEF Restart
      <3>3. QED
        BY <2>1, <3>1, <3>2
           DEF Next, UpdateBrief, Expire, Lapse, Generate, TaskRead, TaskStore, TaskFail,
               Handoff, IssueTicket, ConsumeTicket, ExpireTicket, vars
    <2>3. CASE message'[m] = message[m]
      <3>1. /\ message[m].revision \in Nat /\ message[m].revision <= revision
            /\ message[m].revision = revision => message[m].brief = brief.rev
        BY <1>0, <1>2, <2>3 DEF ConversionInv, ReadInv
      <3>2. QED
        BY <2>3, <3>1, BriefMoves
    <2>4. QED
      BY <2>2, <2>3, BriefMoves
  <1>3. QED
    BY <1>1, <1>2 DEF ReadInv

-----------------------------------------------------------------------------
(* Theorems *)

\* The inductive invariant.
THEOREM Inductive == Spec => []ConversionInv
  <1>1. ConversionInv /\ [Next]_vars => ConversionInv'
    BY TypeNext, DraftNext, TargetNext, TicketNext, ReadNext DEF ConversionInv
  <1>2. QED
    BY InvInit, <1>1, PTL DEF Spec

\* Every reachable state of a conversion is well typed.
THEOREM ConversionTypeCorrect == Spec => []ConversionTypeOK
  <1>1. ConversionInv => ConversionTypeOK
    BY DEF ConversionInv
  <1>2. QED
    BY <1>1, Inductive, PTL

\* A candidate that can be handed over is the one the learner asked for last.
THEOREM CandidateIsCurrent == Spec => []GeneratedIsCurrent
  <1>1. ConversionInv => GeneratedIsCurrent
    BY DEF ConversionInv, DraftInv
  <1>2. QED
    BY <1>1, Inductive, PTL

\* All handoffs together make one project and one import, and every redeemed
\* ticket names it.
THEOREM HandoffsCorrect == Spec => []HandoffsAgree
  <1>1. ConversionInv => HandoffsAgree
    <2> SUFFICES ASSUME ConversionInv PROVE OneProject
      BY DEF HandoffsAgree, ConversionInv, TicketInv
    <2>1. selection = NoSelection \/ selection.action \in {"discuss", "create"}
      BY DEF ConversionInv, ConversionTypeOK, Selections
    <2>2. QED
      BY <2>1 DEF OneProject, ConversionInv, TargetInv
  <1>2. QED
    BY <1>1, Inductive, PTL

\* What was handed over is fixed.
THEOREM HandoverIsFixed == Spec => HandedOverIsFixed
  <1>1. ConversionInv /\ [Next]_vars => [selection # NoSelection => UNCHANGED draft]_vars
    BY HandedOver
  <1>2. QED
    BY <1>1, Inductive, PTL DEF Spec, HandedOverIsFixed

\* A clarification is merged into the brief that its model has seen.
THEOREM ClarificationKeepsEdits == Spec => NoLostEdit
  <1>1. ConversionInv /\ [Next]_vars
          => [\A m \in Messages :
                message[m].pc = "asking" /\ message'[m].pc = "done" /\ revision' # revision
                    => message[m].brief = brief.rev]_vars
    <2> SUFFICES ASSUME ConversionInv, Next, NEW m \in Messages, message[m].pc = "asking",
                        message'[m].pc = "done", revision' # revision
                 PROVE  message[m].brief = brief.rev
      OBVIOUS
    <2>0. message \in [Messages -> [pc : {"new", "asking", "done"}, revision : Nat, brief : Nat]]
      BY DEF ConversionInv, ConversionTypeOK
    <2>1. ASSUME NEW n \in Messages, NEW complete \in BOOLEAN, MessageWrite(n, complete)
          PROVE  n = m /\ SameRevision(m)
      BY <2>0, <2>1 DEF MessageWrite
    <2>2. ASSUME UNCHANGED message
          PROVE  FALSE
      BY <2>2
    <2>3. \E n \in Messages, complete \in BOOLEAN : MessageWrite(n, complete)
      BY <2>2
         DEF Next, UpdateBrief, MessageRead, MessageRefused, Expire, Lapse, Generate,
             TaskRead, TaskStore, TaskFail, Handoff, IssueTicket, ConsumeTicket,
             ExpireTicket, Restart, draft
    <2>4. SameRevision(m)
      BY <2>1, <2>3
    <2>5. QED
      BY <2>4 DEF SameRevision, ConversionInv, ReadInv
  <1>2. QED
    BY <1>1, Inductive, PTL DEF Spec, NoLostEdit

\* Both together.
THEOREM EditsAreKept == Spec => EditsHold
  BY HandoverIsFixed, ClarificationKeepsEdits, PTL DEF EditsHold
=============================================================================
