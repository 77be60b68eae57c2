---------------------------- MODULE MCLinkedList ----------------------------
(***************************************************************************)
(* The instance of LinkedList for TLC.  Elements and workers are           *)
(* interchangeable.                                                        *)
(***************************************************************************)
EXTENDS LinkedList, TLC

CONSTANTS m, w1, w2, v1, v2, v3, v4

Symmetry == Permutations(Items) \cup Permutations(Threads \ {Master})
=============================================================================
