--------------------------- MODULE MCLocalAgentRuns ---------------------------
(***************************************************************************)
(* Instance of LocalAgentRuns for TLC.                                     *)
(***************************************************************************)
EXTENDS LocalAgentRuns, TLC
CONSTANTS q1, q2
=============================================================================
