--------------------------- MODULE MCIterationRuns ---------------------------
(***************************************************************************)
(* Instance of IterationRuns for TLC: one conversation and its jobs.       *)
(***************************************************************************)
EXTENDS IterationRuns, TLC
CONSTANTS j1, j2, c1, e1, e2

OneConversation == [j \in Jobs |-> c1]
ExecutorSymmetry == Permutations(Executors)
=============================================================================
