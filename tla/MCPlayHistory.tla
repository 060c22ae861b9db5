--------------------------- MODULE MCPlayHistory ---------------------------
(***************************************************************************)
(* Instances of PlayHistory.                                               *)
(***************************************************************************)
EXTENDS PlayHistory
=============================================================================
