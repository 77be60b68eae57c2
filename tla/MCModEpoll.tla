----------------------------- MODULE MCModEpoll -----------------------------
(***************************************************************************)
(* Instances of ModEpoll for TLC: descriptors of their own, and shared     *)
(* ones.                                                                   *)
(***************************************************************************)
EXTENDS ModEpoll

CONSTANTS t1, t2, t3, f1, f2, f3

FdsOf2 == t1 :> {f1} @@ t2 :> {f2, f3}
FdsOf3 == t1 :> {f1} @@ t2 :> {f1, f2} @@ t3 :> {f2}
=============================================================================
