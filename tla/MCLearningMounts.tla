-------------------------- MODULE MCLearningMounts --------------------------
(***************************************************************************)
(* Instances of LearningMounts for TLC: the job u1 of the user and r1,     *)
(* which repairs the mount of u1; s1 would repair the mount of r1.         *)
(***************************************************************************)
EXTENDS LearningMounts, TLC
CONSTANTS u1, r1, s1, e1, e2

ExecutorSymmetry == Permutations(Executors)
OneRepair == u1 :> r1
RepairOfRepair == u1 :> r1 @@ r1 :> s1
=============================================================================
