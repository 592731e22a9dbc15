-------------------------- MODULE MCBackgroundTasks --------------------------
(***************************************************************************)
(* Instance of BackgroundTasks for TLC: two requests and one edit.         *)
(***************************************************************************)
EXTENDS BackgroundTasks
CONSTANTS t1, t2, e1
=============================================================================
