-------------------------------- MODULE Ring --------------------------------
(***************************************************************************)
(* The ring of src/include/pcaio/ringT.c: 2^bits slots, of which one stays *)
(* free to tell a full ring from an empty one.  The mutexes headx and      *)
(* tailx make Pushed and Popped atomic, each against itself; the tests     *)
(* IsFull and IsEmpty are made before the mutex is taken, so a push or a   *)
(* pop is two steps of a module that uses the ring.                        *)
(***************************************************************************)
EXTENDS Integers, Sequences

(* ring_init; null stands for a slot that will not be read before the next *)
(* write to it.                                                            *)
NewRing(bits, null) ==
    [head |-> 0, tail |-> 0, mask |-> 2^bits - 1,
     backend |-> [i \in 0..2^bits - 1 |-> null]]

(* & r->mask, of a number that may be negative.                            *)
Masked(r, i) == i % (r.mask + 1)

Used(r)    == Masked(r, r.tail - r.head)
Avail(r)   == Masked(r, r.head - r.tail - 1)
IsEmpty(r) == Used(r) = 0
IsFull(r)  == Avail(r) = 0

(* The critical section of ring_push.                                      *)
Pushed(r, e) ==
    [r EXCEPT !.backend[r.tail] = e, !.tail = Masked(r, r.tail + 1)]

Oldest(r) == r.backend[r.head]

(* The critical section of ring_pop.                                       *)
Popped(r, null) ==
    [r EXCEPT !.backend[r.head] = null, !.head = Masked(r, r.head + 1)]

(* What the ring holds, oldest first.                                      *)
Window(r) == [i \in 1..Used(r) |-> r.backend[Masked(r, r.head + i - 1)]]
=============================================================================
