----------------------------- MODULE TaskQueue -----------------------------
(***************************************************************************)
(* src/include/pcaio/queueT.c, instantiated by the scheduler as taskqueue: *)
(* an intrusive singly linked FIFO with a mutex and a condition variable.  *)
(* A critical section is one step, because the mutex makes it one.  What   *)
(* the code does outside the mutex, the two reads of the guard of push, is *)
(* a step per read.                                                        *)
(*                                                                         *)
(* The threads are the workers, which take an item, work on it, and then   *)
(* put it back or leave it to a module, and other threads (the master      *)
(* thread), which only push.                                               *)
(***************************************************************************)
EXTENDS Naturals, Sequences, Functions

CONSTANTS
    Items,         \* the elements (tasks) that can be in the queue
    Threads,       \* the threads that use the queue
    Workers,       \* those that pop, always with QWAIT (worker.c)
    NoItem,        \* NULL
    MaxBatch       \* BOUND on the length of the array given to pushall

ASSUME QueueAssumption ==
    /\ NoItem \notin Items
    /\ Workers \subseteq Threads
    /\ MaxBatch \in Nat \ {0}

VARIABLES
    head, tail,    \* q->head, q->tail
    next,          \* next[v] = v->queue_next
    count,         \* q->count
    pc,            \* where each thread is in queue_push or queue_pop
    arg,           \* the item a thread is pushing
    got,           \* the item a worker popped and still works on
    started,       \* pushall was called (pcaio.c:211), the workers run
    refused,       \* history: some queue_push has returned -1
    contents       \* history: the items put and not taken, in order

vars == <<head, tail, next, count, pc, arg, got, started, refused, contents>>

OrNull == Items \cup {NoItem}

Queued  == Range(contents)
Waiting == { th \in Threads : pc[th] = "wait" }
Handled == { got[th] : th \in Threads } \cup { arg[th] : th \in Threads }
Free    == Items \ (Queued \cup Handled)

(* The callers' part of the contract, which no test of the code enforces:   *)
(* a worker pushes while it has an item, that one or one that nobody has;  *)
(* another thread pushes what nobody has.  The scheduler keeps to it as    *)
(* long as a task has one place (OnePlace of Scheduler).  In the race of   *)
(* sched_race it does not: there two threads may push the same task.       *)
MayPush(th, v) ==
    /\ th \in Workers => got[th] # NoItem
    /\ v = got[th] \/ v \in Free

TypeOK ==
    /\ head \in OrNull /\ tail \in OrNull
    /\ next \in [Items -> OrNull]
    /\ count \in Nat
    /\ pc \in [Threads -> {"idle", "tail", "lock", "wait", "woken"}]
    /\ arg \in [Threads -> OrNull]
    /\ got \in [Threads -> OrNull]
    /\ started \in BOOLEAN /\ refused \in BOOLEAN
    /\ contents \in Seq(Items)

Init ==
    /\ head = NoItem /\ tail = NoItem
    /\ next = [v \in Items |-> NoItem]
    /\ count = 0
    /\ pc = [th \in Threads |-> "idle"]
    /\ arg = [th \in Threads |-> NoItem]
    /\ got = [th \in Threads |-> NoItem]
    /\ started = FALSE /\ refused = FALSE
    /\ contents = <<>>
-----------------------------------------------------------------------------
(* queue_push, first read of the guard: v->next.  When it is set the call  *)
(* returns -1.                                                             *)
PushGuardNext(th, v) ==
    /\ started
    /\ pc[th] = "idle"
    /\ MayPush(th, v)
    /\ IF next[v] # NoItem
         THEN refused' = TRUE /\ UNCHANGED <<pc, arg>>
         ELSE /\ pc' = [pc EXCEPT ![th] = "tail"]
              /\ arg' = [arg EXCEPT ![th] = v]
              /\ UNCHANGED refused
    /\ UNCHANGED <<head, tail, next, count, got, started, contents>>

(* queue_push, second read of the guard: v == q->tail, still unlocked.     *)
PushGuardTail(th) ==
    /\ pc[th] = "tail"
    /\ IF arg[th] = tail
         THEN /\ pc' = [pc EXCEPT ![th] = "idle"]
              /\ arg' = [arg EXCEPT ![th] = NoItem]
              /\ refused' = TRUE
         ELSE /\ pc' = [pc EXCEPT ![th] = "lock"]
              /\ UNCHANGED <<arg, refused>>
    /\ UNCHANGED <<head, tail, next, count, got, started, contents>>

(* Mutant of Signal: no signal is sent.                                    *)
SignalForgotten(th) == pc' = [pc EXCEPT ![th] = "idle"]

(* pthread_cond_signal: one of the waiting threads, if any, will run.      *)
Signal(th) ==
    IF Waiting = {} THEN pc' = [pc EXCEPT ![th] = "idle"]
    ELSE \E w \in Waiting : pc' = [pc EXCEPT ![th] = "idle", ![w] = "woken"]

(* Mutant of Linked: the old tail is not linked to the item.               *)
LinkedNowhere(v) == [next EXCEPT ![v] = NoItem]

(* v->next = NULL comes after tail->next = v.                              *)
Linked(v) ==
    IF tail = NoItem THEN [next EXCEPT ![v] = NoItem]
    ELSE [next EXCEPT ![tail] = v, ![v] = NoItem]

(* Mutant of HeadWith: the new item becomes the head of any queue.         *)
HeadAlways(v) == v

HeadWith(v) == IF tail = NoItem THEN v ELSE head

(* Mutant of Grown: an array is counted as one item.                       *)
GrownByOne(n) == count + 1

Grown(n) == count + n

(* The critical section of queue_push.                                     *)
Push(th) ==
    /\ pc[th] = "lock"
    /\ LET v == arg[th] IN
         /\ head' = HeadWith(v)
         /\ tail' = v
         /\ next' = Linked(v)
         /\ count' = Grown(1)
         /\ got' = [got EXCEPT ![th] = IF got[th] = v THEN NoItem ELSE got[th]]
         /\ contents' = Append(contents, v)
    /\ Signal(th)
    /\ arg' = [arg EXCEPT ![th] = NoItem]
    /\ UNCHANGED <<started, refused>>

Arrays == UNION { { vs \in [1..n -> Items] : IsInjective(vs) } : n \in 1..MaxBatch }

(* The chain pushall threads through q->tail: when the queue is not empty  *)
(* it starts at the old tail, and vs[1] is not part of it.                 *)
Chain(vs) == IF tail = NoItem THEN vs ELSE <<tail>> \o Tail(vs)

(* queue_pushall: pcaio() calls it once, before any worker exists, so its  *)
(* unlocked guard is one step with its critical section.                   *)
PushAll(th, vs) ==
    /\ pc[th] = "idle"
    /\ ~started
    /\ Range(vs) \subseteq Free
    /\ \A i \in 1..Len(vs) : next[vs[i]] = NoItem /\ vs[i] # tail
    /\ LET chain == Chain(vs)
           n     == Len(chain) IN
         /\ head' = HeadWith(vs[1])
         /\ tail' = chain[n]
         /\ next' = [v \in Items |->
                       IF \E i \in 1..n : chain[i] = v
                         THEN LET i == CHOOSE i \in 1..n : chain[i] = v
                              IN  IF i = n THEN NoItem ELSE chain[i + 1]
                         ELSE next[v]]
    /\ count' = Grown(Len(vs))
    /\ contents' = contents \o vs
    /\ started' = TRUE
    /\ pc' = [w \in Threads |-> IF w \in Waiting THEN "woken" ELSE pc[w]]
    /\ UNCHANGED <<arg, got, refused>>

(* Mutant of Unlinked: the popped item keeps its next pointer.             *)
UnlinkedNot(v) == next

Unlinked(v) == [next EXCEPT ![v] = NoItem]

(* Mutant of EmptiedTail: q->head alone is reset.                          *)
TailKept == tail

(* q->tail after the last item was popped.                                 *)
EmptiedTail == NoItem

(* queue_pop with QWAIT: the calling or woken worker has the mutex and     *)
(* finds an item.                                                          *)
Pop(th) ==
    /\ started
    /\ th \in Workers
    /\ got[th] = NoItem
    /\ pc[th] \in {"idle", "woken"}
    /\ head # NoItem
    /\ IF next[head] = NoItem
         THEN /\ head' = NoItem
              /\ tail' = EmptiedTail
              /\ UNCHANGED next
         ELSE /\ head' = next[head]
              /\ next' = Unlinked(head)
              /\ UNCHANGED tail
    /\ count' = count - 1
    /\ got' = [got EXCEPT ![th] = head]
    /\ contents' = Tail(contents)
    /\ pc' = [pc EXCEPT ![th] = "idle"]
    /\ UNCHANGED <<arg, started, refused>>

(* queue_pop with QWAIT on an empty queue: pthread_cond_wait gives the     *)
(* mutex back and waits in one step, and the while loop tests again.       *)
PopWait(th) ==
    /\ started
    /\ th \in Workers
    /\ got[th] = NoItem
    /\ pc[th] \in {"idle", "woken"}
    /\ head = NoItem
    /\ pc' = [pc EXCEPT ![th] = "wait"]
    /\ UNCHANGED <<head, tail, next, count, arg, got, started, refused, contents>>

(* POSIX lets a wait on a condition return without a signal.               *)
SpuriousWake(th) ==
    /\ pc[th] = "wait"
    /\ pc' = [pc EXCEPT ![th] = "woken"]
    /\ UNCHANGED <<head, tail, next, count, arg, got, started, refused, contents>>

(* The worker will not push its item: it freed the task (worker.c:79), or  *)
(* the task went to a module or a gather, which may push it from then on,  *)
(* even while the worker is still on its way back to worker.c:86.          *)
Release(th) ==
    /\ pc[th] = "idle"
    /\ got[th] # NoItem
    /\ got' = [got EXCEPT ![th] = NoItem]
    /\ UNCHANGED <<head, tail, next, count, pc, arg, started, refused, contents>>

PushStep(th) ==
    \/ \E v \in Items : PushGuardNext(th, v)
    \/ PushGuardTail(th)
    \/ Push(th)

WorkerStep(th) == PushStep(th) \/ Pop(th) \/ PopWait(th) \/ Release(th)

Next ==
    \/ \E th \in Threads : WorkerStep(th) \/ SpuriousWake(th)
    \/ \E th \in Threads, vs \in Arrays : PushAll(th, vs)

Spec == Init /\ [][Next]_vars

(* A worker never stops between two steps of its loop, and a thread that   *)
(* entered queue_push leaves it.  Nothing makes the master thread push.    *)
FairSpec ==
    /\ Spec
    /\ \A th \in Workers : WF_vars(WorkerStep(th))
    /\ \A th \in Threads : WF_vars(PushGuardTail(th) \/ Push(th))
-----------------------------------------------------------------------------
(* The linked list is the queue: q->head, q->tail, the next pointers and   *)
(* q->count describe exactly the items put and not yet taken, and an item  *)
(* outside the queue has a NULL next.  So the guard of queue_push, which   *)
(* looks at the item and at q->tail only, refuses exactly what is queued.  *)
Represents ==
    /\ count = Len(contents)
    /\ head = IF contents = <<>> THEN NoItem ELSE contents[1]
    /\ tail = IF contents = <<>> THEN NoItem ELSE contents[Len(contents)]
    /\ \A i \in 1..Len(contents) :
         next[contents[i]] = IF i = Len(contents) THEN NoItem ELSE contents[i + 1]
    /\ \A v \in Items \ Queued : next[v] = NoItem

(* No push is refused: the two fields the guard reads, at two moments and  *)
(* outside the mutex, while others push and pop, never make an item that   *)
(* is not in the queue look as if it was.  A push that is refused would    *)
(* end a worker (worker.c:94) or lose the task (pcaio.c:73, gather.c:70).  *)
NoPushRefused == ~refused

(* No wakeup is lost: a worker does not sleep on the condition variable    *)
(* while an item waits and every other worker sleeps too.  (One signal per *)
(* push is enough although the woken worker may lose the item to another.) *)
NoLostWakeup ==
    (contents # <<>> /\ \A w \in Workers : got[w] = NoItem)
      => \E w \in Workers : pc[w] # "wait"

(* An item that was put is taken, whatever other items are put meanwhile:  *)
(* the queue starves nobody.                                               *)
Served == \A v \in Items : v \in Queued ~> v \notin Queued

(* The pointer structure, its guards outside the mutex and its condition   *)
(* variable implement the queue of FifoQueue.                              *)
Fifo == INSTANCE FifoQueue WITH items <- contents

FifoSpec == Fifo!Spec
=============================================================================
