--------------------------- MODULE MCRoleDispatch ---------------------------
(***************************************************************************)
(* Instance of RoleDispatch for TLC: jobs of one conversation.             *)
(***************************************************************************)
EXTENDS RoleDispatch, TLC
CONSTANTS j1, j2, c1, e1, e2

OneConversation == [j \in Jobs |-> c1]
ExecutorSymmetry == Permutations(Executors)
=============================================================================
