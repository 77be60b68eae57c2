------------------------------ MODULE MCModIO -------------------------------
(***************************************************************************)
(* Instances of ModIO for TLC: what three tasks may do.                     *)
(***************************************************************************)
EXTENDS ModIO, TLC

CONSTANTS t1, t2, t3, w1, w2

Program(a, b, c) == t1 :> a @@ t2 :> b @@ t3 :> c

(* A pipe with competing readers or writers, with a sleeper beside them,   *)
(* and a listening socket with competing acceptors or clients.             *)
Mixed ==
    { Program("producer", "consumer", "consumer"),
      Program("producer", "producer", "consumer"),
      Program("producer", "consumer", "sleeper"),
      Program("acceptor", "acceptor", "client"),
      Program("acceptor", "client", "client") }

(* The pipe with competing readers.                                        *)
Readers == { Program("producer", "consumer", "consumer") }

Sleeps == <<2, 1>>
=============================================================================
