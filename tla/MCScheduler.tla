---------------------------- MODULE MCScheduler ----------------------------
(***************************************************************************)
(* Instances of Scheduler for TLC.  MCScheduler_coop: three workers, tasks *)
(* that only yield and create.  MCScheduler_hold: one worker, tasks that   *)
(* also gather and await.  MCScheduler_race: two workers and gather (the   *)
(* same happens with Operations = {"await"}).                              *)
(***************************************************************************)
EXTENDS Scheduler
=============================================================================
