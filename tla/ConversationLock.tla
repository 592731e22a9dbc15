-------------------------- MODULE ConversationLock --------------------------
(***************************************************************************)
(* What the leased job table promises to a conversation, without rows,     *)
(* owners, versions or batches: a lock that expires.  One job at a time    *)
(* holds a conversation; another one may take it only once it is free or   *)
(* its lease has expired; only the holder publishes a result, once; and a  *)
(* job that is closed neither holds nor publishes again.                   *)
(***************************************************************************)
CONSTANTS Jobs, Conversations, ConvOf, NoJob

VARIABLES
    holder,         \* the job that holds each conversation, or NoJob
    fresh,          \* the conversations whose holder's lease is live
    closed,         \* jobs that completed or were cancelled
    published       \* jobs whose result is visible

lockVars == <<holder, fresh, closed, published>>

LockInit == /\ holder = [c \in Conversations |-> NoJob]
            /\ fresh = {}
            /\ closed = {}
            /\ published = {}

\* A free or expired conversation is taken, also by the job that had it.
Take(c, j) == /\ ConvOf[j] = c /\ j \notin closed
              /\ c \notin fresh
              /\ holder' = [holder EXCEPT ![c] = j]
              /\ fresh' = fresh \cup {c}
              /\ UNCHANGED <<closed, published>>

\* The holder renews a lease that a slow writer saw in time.
Renew(c) == /\ holder[c] # NoJob
            /\ fresh' = fresh \cup {c}
            /\ UNCHANGED <<holder, closed, published>>

Expire(c) == /\ c \in fresh
             /\ fresh' = fresh \ {c}
             /\ UNCHANGED <<holder, closed, published>>

Publish(c) == /\ holder[c] # NoJob
              /\ holder[c] \notin published
              /\ published' = published \cup {holder[c]}
              /\ UNCHANGED <<holder, fresh, closed>>

\* The conversations of C are freed, and the jobs of J closed with them.
Free(C, J) == /\ holder' = [c \in Conversations |->
                              IF c \in C THEN NoJob ELSE holder[c]]
              /\ fresh' = fresh \ C
              /\ \A c \in Conversations \ C : holder[c] \notin J
              /\ closed' = closed \cup J
              /\ UNCHANGED published

LockNext ==
    \/ \E c \in Conversations :
         Renew(c) \/ Expire(c) \/ Publish(c) \/ \E j \in Jobs : Take(c, j)
    \/ \E C \in SUBSET Conversations, J \in SUBSET Jobs : Free(C, J)

LockSpec == LockInit /\ [][LockNext]_lockVars
=============================================================================
