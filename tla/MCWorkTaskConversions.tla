------------------------ MODULE MCWorkTaskConversions ------------------------
(***************************************************************************)
(* Instance of WorkTaskConversions for TLC: one conversion.                *)
(***************************************************************************)
EXTENDS WorkTaskConversions, TLC
CONSTANTS m1, t1, t2
=============================================================================
