---------------------------- MODULE MCLifecycle ----------------------------
(***************************************************************************)
(* The instance of Lifecycle for TLC: a call of pcaio() with one or two    *)
(* workers, which ends by itself or is ended by SIGINT at any moment.      *)
(***************************************************************************)
EXTENDS Lifecycle
=============================================================================
