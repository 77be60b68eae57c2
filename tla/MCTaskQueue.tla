---------------------------- MODULE MCTaskQueue ----------------------------
(***************************************************************************)
(* Instances of TaskQueue for TLC.  MCTaskQueue_threads: a master thread   *)
(* and three workers use the queue as the program does.                    *)
(***************************************************************************)
EXTENDS TaskQueue
=============================================================================
