---------------------------- MODULE MCScheduler -----------------------------
(***************************************************************************)
(* Scheduler on a small instance.                                          *)
(***************************************************************************)
EXTENDS Scheduler
=============================================================================
