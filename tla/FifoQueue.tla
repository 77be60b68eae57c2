----------------------------- MODULE FifoQueue -----------------------------
(***************************************************************************)
(* What the callers of src/include/pcaio/queueT.c rely on: a queue shared  *)
(* by threads in which an item is in one place at a time (waiting in the   *)
(* queue, held by the thread that took it, or nowhere), and which hands    *)
(* the items out in the order they were put in.                            *)
(***************************************************************************)
EXTENDS Naturals, Sequences

CONSTANTS Items, Threads, NoItem,
          MaxBatch   \* BOUND on the items put at once by PutAll

VARIABLES items,   \* the items waiting, oldest first
          got      \* got[th]: the item thread th took and still works on

vars == <<items, got>>

Queued == { items[i] : i \in 1..Len(items) }
Taken  == { got[th] : th \in Threads } \ {NoItem}

(* A put hands the item over: the thread that had taken it has it no more. *)
HandOver(th, v) ==
    got' = [got EXCEPT ![th] = IF got[th] = v THEN NoItem ELSE got[th]]

Init == items = <<>> /\ got = [th \in Threads |-> NoItem]

Put(th, v) ==
    /\ v \notin Queued
    /\ v \in Taken => got[th] = v
    /\ items' = Append(items, v)
    /\ HandOver(th, v)

PutAll(vs) ==
    /\ \A i, j \in 1..Len(vs) : i # j => vs[i] # vs[j]
    /\ \A i \in 1..Len(vs) : vs[i] \notin Queued \cup Taken
    /\ items' = items \o vs
    /\ UNCHANGED got

Take(th) ==
    /\ items # <<>>
    /\ got[th] = NoItem
    /\ got' = [got EXCEPT ![th] = Head(items)]
    /\ items' = Tail(items)

Drop(th) ==
    /\ got[th] # NoItem
    /\ got' = [got EXCEPT ![th] = NoItem]
    /\ UNCHANGED items

Next ==
    \/ \E th \in Threads : Take(th) \/ Drop(th) \/ \E v \in Items : Put(th, v)
    \/ \E vs \in UNION { [1..n -> Items] : n \in 1..MaxBatch } : PutAll(vs)

Spec == Init /\ [][Next]_vars
=============================================================================
