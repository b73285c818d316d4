---------------------------- MODULE MCScheduler ----------------------------
(***************************************************************************)
(* An instance of the scheduler: two requests fill a batch, two iterators  *)
(* overlap.                                                                *)
(***************************************************************************)
EXTENDS Scheduler

MCKinds == {"single", "batch"}
MCFaults == {"node", "notsent"}
=============================================================================
