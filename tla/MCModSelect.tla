---------------------------- MODULE MCModSelect -----------------------------
(***************************************************************************)
(* Instances of ModSelect for TLC: a ring with room for every task, and    *)
(* one that two tasks fill.                                                *)
(***************************************************************************)
EXTENDS ModSelect

CONSTANTS t1, t2, t3

FdsOf2 == t1 :> {0} @@ t2 :> {1}
FdsOf3 == t1 :> {0} @@ t2 :> {0} @@ t3 :> {MaxFileNo}
=============================================================================
