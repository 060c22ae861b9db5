---------------------------- MODULE MCQueuePages ----------------------------
(***************************************************************************)
(* Instances of QueuePages.                                                *)
(***************************************************************************)
EXTENDS QueuePages
=============================================================================
