-------------------------- MODULE MCMemorySynthesis --------------------------
(***************************************************************************)
(* Instance of MemorySynthesis for TLC: one subject and its two workers.   *)
(***************************************************************************)
EXTENDS MemorySynthesis, TLC
CONSTANTS w1, w2
=============================================================================
