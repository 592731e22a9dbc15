----------------------------- MODULE MCRoleJobs -----------------------------
(***************************************************************************)
(* Instance of RoleJobs for TLC: the jobs of one conversation and the      *)
(* executors that serve them.                                              *)
(***************************************************************************)
EXTENDS RoleJobs, TLC
CONSTANTS j1, j2, c1, e1, e2

OneConversation == [j \in Jobs |-> c1]

ExecutorSymmetry == Permutations(Executors)

\* Bound: jobs are cancelled, the project deleted, the mode switched and the head
\* moved away from the conversation while there is only one job.
\* RoleDispatch_two has all but the last with two.
IncidentsAlone ==
    (\/ project.deleted
     \/ \E c \in Conversations :
            conv[c].mode = "explanation" \/ conv[c].version # project.head
     \/ \E j \in Jobs : job[j].status = "cancelled")
        => \E j \in Jobs : job[j].status = "absent"
=============================================================================
