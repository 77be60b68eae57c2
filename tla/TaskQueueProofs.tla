-------------------------- MODULE TaskQueueProofs --------------------------
(***************************************************************************)
(* Proofs about TaskQueue, for any number of threads and items: the linked *)
(* list represents the queue, the guard of push that is read outside the   *)
(* mutex refuses nobody, and the whole implements FifoQueue.               *)
(***************************************************************************)
EXTENDS TaskQueue, QueueLemmas

Pushing == { th \in Threads : pc[th] \in {"tail", "lock"} }

(* The item of a thread that is in queue_push stays out of the queue, and  *)
(* is no other thread's.                                                   *)
KeptOut ==
    \A th \in Pushing :
      /\ arg[th] \notin Queued
      /\ \A o \in Threads \ {th} : arg[o] # arg[th] /\ got[o] # arg[th]

(* Each item is at one place: once in the queue, or with the thread that   *)
(* popped it; and a thread that is in queue_push has its item to itself.   *)
OneOwner ==
    /\ \A i, j \in 1..Len(contents) : contents[i] = contents[j] => i = j
    /\ \A th \in Threads : th \in Pushing <=> arg[th] # NoItem
    /\ \A th \in Threads : got[th] # NoItem =>
         /\ got[th] \notin Queued
         /\ \A o \in Threads \ {th} : got[o] # got[th]

(* Before pushall the queue is empty and nobody has begun to use it.       *)
NotStarted ==
    ~started => contents = <<>> /\ \A th \in Threads : arg[th] = NoItem /\ got[th] = NoItem

IInv == TypeOK /\ Represents /\ KeptOut /\ OneOwner /\ NotStarted /\ NoPushRefused
-----------------------------------------------------------------------------
(* The queue is right when it is created.                                  *)
LEMMA InitIInv == ASSUME QueueAssumption, Init PROVE IInv
<1>1. contents \in Seq(Items) /\ Len(contents) = 0 /\ Queued = {} /\ Pushing = {}
  BY DEF Init, Queued, Pushing, Range
<1>2. TypeOK
  BY <1>1 DEF Init, TypeOK, OrNull
<1>3. Represents
  BY <1>1 DEF Init, Represents
<1>4. KeptOut /\ OneOwner /\ NotStarted /\ NoPushRefused
  BY <1>1 DEF Init, KeptOut, OneOwner, NotStarted, NoPushRefused
<1> QED  BY <1>2, <1>3, <1>4 DEF IInv

(* The steps of the guard of queue_push keep the invariant: the first read *)
(* finds an item that is not in the queue, and it stays out of it.         *)
LEMMA GuardStepIInv ==
    ASSUME QueueAssumption, IInv, NEW th \in Threads,
           (\E v \in Items : PushGuardNext(th, v)) \/ PushGuardTail(th)
    PROVE  IInv'
<1> USE DEF OrNull
<1>1. CASE \E v \in Items : PushGuardNext(th, v)
  <2>1. PICK v \in Items : PushGuardNext(th, v)
    BY <1>1
  <2>2. /\ v \notin Queued /\ arg[th] = NoItem
        /\ \A o \in Threads \ {th} : arg[o] # v /\ got[o] # v
    BY <2>1 DEF IInv, OneOwner, TypeOK, PushGuardNext, MayPush, Free, Handled, Pushing,
                QueueAssumption, KeptOut
  <2>8. next[v] = NoItem
    BY <2>2 DEF IInv, Represents
  <2>3. Queued' = Queued /\ Pushing' = Pushing \cup {th}
    BY <2>1, <2>8 DEF PushGuardNext, Queued, Pushing, IInv, TypeOK
  <2>9. NoPushRefused'
    BY <2>1, <2>8 DEF PushGuardNext, IInv, NoPushRefused
  <2>4. TypeOK' /\ Represents'
    BY <2>1, <2>3, <2>8 DEF PushGuardNext, IInv, TypeOK, Represents
  <2>5. /\ arg' = [arg EXCEPT ![th] = v] /\ got' = got
        /\ arg \in [Threads -> Items \cup {NoItem}] /\ Pushing \subseteq Threads
    BY <2>1, <2>8 DEF PushGuardNext, IInv, TypeOK, Pushing
  <2>6. KeptOut'
    <3> SUFFICES ASSUME NEW p \in Pushing \cup {th}
                 PROVE  /\ arg'[p] \notin Queued
                        /\ \A o \in Threads \ {p} : arg'[o] # arg'[p] /\ got[o] # arg'[p]
      BY <2>5, <2>3 DEF KeptOut
    <3>1. CASE p = th
      BY <3>1, <2>2, <2>5
    <3>2. CASE p # th
      BY <3>2, <2>2, <2>5 DEF IInv, KeptOut
    <3> QED  BY <3>1, <3>2
  <2>7. OneOwner' /\ NotStarted'
    BY <2>1, <2>2, <2>3, <2>8 DEF PushGuardNext, IInv, TypeOK, OneOwner, NotStarted, QueueAssumption
  <2> QED  BY <2>4, <2>6, <2>7, <2>9 DEF IInv
<1>2. CASE PushGuardTail(th)
  <2>1. Queued' = Queued /\ Pushing' \subseteq Pushing
    BY <1>2 DEF PushGuardTail, Queued, Pushing, IInv, TypeOK
  <2>2. TypeOK' /\ Represents'
    BY <1>2, <2>1 DEF PushGuardTail, IInv, TypeOK, Represents
  <2>3. KeptOut'
    BY <1>2, <2>1 DEF PushGuardTail, IInv, TypeOK, KeptOut, OneOwner, Pushing, QueueAssumption
  <2>4. OneOwner' /\ NotStarted'
    BY <1>2, <2>1 DEF PushGuardTail, IInv, TypeOK, OneOwner, NotStarted, QueueAssumption, Pushing
  <2>5. arg[th] # tail
    <3>1. arg[th] \notin Queued /\ arg[th] # NoItem
      BY <1>2 DEF PushGuardTail, IInv, KeptOut, OneOwner, Pushing
    <3>2. tail # NoItem => tail \in Queued
      <4>1. contents \in Seq(Items)
        BY DEF IInv, TypeOK
      <4> QED  BY <4>1 DEF IInv, Represents, Queued, Range
    <3> QED  BY <3>1, <3>2
  <2>6. NoPushRefused'
    BY <1>2, <2>5 DEF PushGuardTail, IInv, NoPushRefused
  <2> QED  BY <2>2, <2>3, <2>4, <2>6 DEF IInv
<1> QED  BY <1>1, <1>2

(* The critical section of queue_push links the item behind the old tail.  *)
LEMMA PushIInv ==
    ASSUME QueueAssumption, IInv, NEW th \in Threads, Push(th)
    PROVE  IInv'
<1> DEFINE v == arg[th]
           n == Len(contents)
<1>1. /\ v \in Items /\ v # NoItem /\ v \notin Queued /\ th \in Pushing
      /\ \A o \in Threads \ {th} : arg[o] # v /\ got[o] # v
  BY DEF Push, IInv, TypeOK, OrNull, OneOwner, KeptOut, Pushing
<1>2. /\ contents \in Seq(Items) /\ n \in Nat
      /\ contents' = Append(contents, v) /\ contents' \in Seq(Items) /\ Len(contents') = n + 1
      /\ \A i \in 1..n : contents'[i] = contents[i] /\ contents[i] \in Queued
      /\ contents'[n + 1] = v
      /\ Queued' = Queued \cup {v}
  <2>1. contents \in Seq(Items) /\ contents' = Append(contents, v)
    BY DEF Push, IInv, TypeOK
  <2>2. \A i \in 1..n : contents[i] \in Queued
    BY <2>1 DEF Queued, Range
  <2> QED  BY <2>1, <2>2, <1>1, AppendedRange DEF Queued
<1>3. /\ head' = IF n = 0 THEN v ELSE head
      /\ tail' = v
      /\ next' = IF n = 0 THEN [next EXCEPT ![v] = NoItem]
                 ELSE [next EXCEPT ![contents[n]] = v, ![v] = NoItem]
      /\ count' = n + 1
      /\ head = IF n = 0 THEN NoItem ELSE contents[1]
      /\ n # 0 => contents[n] \in Queued
      /\ next \in [Items -> OrNull]
  <2>1. /\ count = n
        /\ head = IF n = 0 THEN NoItem ELSE contents[1]
        /\ tail = IF n = 0 THEN NoItem ELSE contents[n]
        /\ n # 0 => contents[n] \in Queued
    BY <1>2 DEF IInv, Represents
  <2>2. tail = NoItem <=> n = 0
    BY <2>1, <1>2 DEF QueueAssumption
  <2> QED  BY <2>1, <2>2 DEF Push, HeadWith, Linked, Grown, IInv, TypeOK
<1>4. /\ arg' = [arg EXCEPT ![th] = NoItem]
      /\ got' = [got EXCEPT ![th] = IF got[th] = v THEN NoItem ELSE got[th]]
      /\ started' = started /\ refused' = refused
      /\ arg \in [Threads -> OrNull] /\ got \in [Threads -> OrNull]
  BY DEF Push, IInv, TypeOK
<1>5. pc' \in [Threads -> {"idle", "tail", "lock", "wait", "woken"}] /\ Pushing' = Pushing \ {th}
  <2>1. CASE pc' = [pc EXCEPT ![th] = "idle"]
    BY <2>1 DEF IInv, TypeOK, Pushing
  <2>2. CASE \E w \in Waiting : pc' = [pc EXCEPT ![th] = "idle", ![w] = "woken"]
    BY <2>2 DEF IInv, TypeOK, Pushing, Waiting
  <2> QED  BY <2>1, <2>2 DEF Push, Signal
<1>6. TypeOK'
  <2>1. head' \in OrNull /\ tail' \in OrNull
    BY <1>1, <1>3 DEF OrNull, IInv, TypeOK
  <2>2. next' \in [Items -> OrNull]
    BY <1>1, <1>3 DEF OrNull
  <2>3. arg' \in [Threads -> OrNull] /\ got' \in [Threads -> OrNull]
    BY <1>4 DEF OrNull
  <2>4. count' \in Nat /\ started' \in BOOLEAN /\ refused' \in BOOLEAN
    BY <1>2, <1>3, <1>4 DEF IInv, TypeOK
  <2> QED  BY <2>1, <2>2, <2>3, <2>4, <1>2, <1>5 DEF TypeOK, OrNull
<1>7. Represents'
  <2>1. head' = contents'[1] /\ tail' = contents'[n + 1] /\ contents' # <<>>
    BY <1>2, <1>3
  <2>2. ASSUME NEW i \in 1..(n + 1)
        PROVE  next'[contents'[i]] = IF i = n + 1 THEN NoItem ELSE contents'[i + 1]
    <3>1. CASE i = n + 1
      BY <3>1, <1>1, <1>2, <1>3
    <3>2. CASE i = n
      BY <3>2, <1>1, <1>2, <1>3
    <3>3. CASE i \in 1..(n - 1)
      <4>1. contents[i] \in Queued /\ contents[i] # contents[n] /\ contents'[i] = contents[i]
            /\ contents'[i + 1] = contents[i + 1] /\ n # 0 /\ contents[i] \in Items
        BY <3>3, <1>2 DEF IInv, OneOwner
      <4>2. next[contents[i]] = contents[i + 1]
        BY <3>3, <1>2 DEF IInv, Represents
      <4> QED  BY <4>1, <4>2, <3>3, <1>1, <1>2, <1>3
    <3> QED  BY <3>1, <3>2, <3>3, <1>2
  <2>3. ASSUME NEW x \in Items \ Queued' PROVE next'[x] = NoItem
    BY <2>3, <1>1, <1>2, <1>3 DEF IInv, Represents
  <2>4. count' = Len(contents') /\ Len(contents') = n + 1
    BY <1>2, <1>3
  <2> HIDE DEF n, v
  <2> QED  BY <2>1, <2>2, <2>3, <2>4 DEF Represents
<1>8. KeptOut'
  <2> SUFFICES ASSUME NEW p \in Pushing \ {th}
               PROVE  /\ arg'[p] \notin Queued'
                      /\ \A o \in Threads \ {p} : arg'[o] # arg'[p] /\ got'[o] # arg'[p]
    BY <1>5 DEF KeptOut
  <2>1. /\ p \in Threads /\ arg'[p] = arg[p] /\ arg[p] # v /\ arg[p] # NoItem
        /\ arg[p] \notin Queued
        /\ \A o \in Threads \ {p} : arg[o] # arg[p] /\ got[o] # arg[p]
    BY <1>1, <1>4 DEF IInv, KeptOut, OneOwner, Pushing
  <2>2. \A o \in Threads \ {p} : arg'[o] \in {arg[o], NoItem} /\ got'[o] \in {got[o], NoItem}
    BY <1>4
  <2> QED  BY <2>1, <2>2, <1>2
<1>9. OneOwner'
  <2>1. \A i, j \in 1..(n + 1) : contents'[i] = contents'[j] => i = j
    BY <1>1, <1>2 DEF IInv, OneOwner
  <2>2. \A p \in Threads : p \in Pushing' <=> arg'[p] # NoItem
    BY <1>4, <1>5 DEF IInv, OneOwner
  <2>3. \A p \in Threads : got'[p] # NoItem =>
          got'[p] \notin Queued' /\ \A o \in Threads \ {p} : got'[o] # got'[p]
    BY <1>1, <1>2, <1>4 DEF IInv, OneOwner, OrNull
  <2> QED  BY <2>1, <2>2, <2>3, <1>2 DEF OneOwner
<1>10. NotStarted'
  BY <1>1, <1>4 DEF IInv, NotStarted, OneOwner
<1>11. NoPushRefused'
  BY DEF Push, IInv, NoPushRefused
<1> QED  BY <1>6, <1>7, <1>8, <1>9, <1>10, <1>11 DEF IInv

(* The array of queue_pushall becomes the queue, which was empty: this is  *)
(* where the proof needs that pushall is called first.                     *)
LEMMA PushAllIInv ==
    ASSUME QueueAssumption, IInv, NEW th \in Threads, NEW vs \in Arrays,
           PushAll(th, vs)
    PROVE  IInv'
<1> DEFINE n == Len(vs)
<1>1. /\ n \in Nat \ {0} /\ vs \in [1..n -> Items] /\ vs \in Seq(Items)
      /\ \A i, j \in 1..n : vs[i] = vs[j] => i = j
      /\ \A i \in 1..n : vs[i] \in Range(vs)
      /\ \A x \in Range(vs) : \E i \in 1..n : x = vs[i]
  <2>1. PICK m \in 1..MaxBatch : vs \in [1..m -> Items] /\ IsInjective(vs)
    BY DEF Arrays
  <2>2. m \in Nat \ {0}
    BY DEF QueueAssumption
  <2>3. n = m /\ vs \in Seq(Items)
    BY <2>1, <2>2
  <2>4. DOMAIN vs = 1..n
    BY <2>1, <2>3
  <2> QED  BY <2>1, <2>2, <2>3, <2>4 DEF IsInjective, Range
<1>2. /\ ~started /\ contents = <<>> /\ Queued = {} /\ tail = NoItem /\ Pushing = {}
      /\ \A p \in Threads : arg[p] = NoItem /\ got[p] = NoItem
  <2>1. ~started /\ contents = <<>> /\ \A p \in Threads : arg[p] = NoItem /\ got[p] = NoItem
    BY DEF PushAll, IInv, NotStarted
  <2>2. Pushing = {}
    BY <2>1 DEF IInv, OneOwner, Pushing
  <2>3. Queued = {} /\ tail = NoItem
    BY <2>1 DEF IInv, Represents, Queued, Range
  <2> QED  BY <2>1, <2>2, <2>3
<1>3. contents' = vs /\ Queued' = Range(vs) /\ started'
  <2>1. contents' = contents \o vs /\ started'
    BY DEF PushAll
  <2>2. contents' = vs
    BY <2>1, <1>1, <1>2
  <2> QED  BY <2>1, <2>2 DEF Queued
<1>4. /\ head' = vs[1] /\ tail' = vs[n] /\ count' = n
      /\ next \in [Items -> OrNull]
      /\ next' = [x \in Items |->
                   IF \E i \in 1..n : vs[i] = x
                     THEN LET i == CHOOSE i \in 1..n : vs[i] = x
                          IN  IF i = n THEN NoItem ELSE vs[i + 1]
                     ELSE next[x]]
  <2>1. Chain(vs) = vs /\ HeadWith(vs[1]) = vs[1] /\ count = 0
    BY <1>2 DEF Chain, HeadWith, IInv, Represents
  <2> QED  BY <2>1, <1>1 DEF PushAll, Grown, IInv, TypeOK
<1>5. \A i \in 1..n : next'[vs[i]] = IF i = n THEN NoItem ELSE vs[i + 1]
  <2> SUFFICES ASSUME NEW i \in 1..n
               PROVE  next'[vs[i]] = IF i = n THEN NoItem ELSE vs[i + 1]
    OBVIOUS
  <2>1. (CHOOSE j \in 1..n : vs[j] = vs[i]) = i
    BY <1>1
  <2>2. vs[i] \in Items
    BY <1>1
  <2> QED  BY <2>1, <2>2, <1>4
<1>6. \A x \in Items \ Range(vs) : next'[x] = NoItem
  BY <1>1, <1>2, <1>4 DEF IInv, Represents
<1>7. /\ arg' = arg /\ got' = got /\ Pushing' = {}
      /\ pc' \in [Threads -> {"idle", "tail", "lock", "wait", "woken"}]
  BY <1>2 DEF PushAll, IInv, TypeOK, Pushing
<1>8. TypeOK'
  <2>1. next' \in [Items -> OrNull]
    <3>1. ASSUME NEW x \in Items PROVE next'[x] \in OrNull
      <4>1. CASE x \in Range(vs)
        <5>1. PICK i \in 1..n : x = vs[i]
          BY <4>1, <1>1
        <5> QED  BY <5>1, <1>5, <1>1 DEF OrNull
      <4>2. CASE x \notin Range(vs)
        BY <4>2, <1>6 DEF OrNull
      <4> QED  BY <4>1, <4>2
    <3> QED  BY <3>1, <1>4
  <2>2. head' \in OrNull /\ tail' \in OrNull
    BY <1>1, <1>4 DEF OrNull
  <2>3. refused' \in BOOLEAN
    BY DEF PushAll, IInv, TypeOK
  <2> QED  BY <2>1, <2>2, <2>3, <1>1, <1>3, <1>4, <1>7 DEF TypeOK, IInv, OrNull
<1>9. Represents'
  BY <1>1, <1>3, <1>4, <1>5, <1>6 DEF Represents
<1>10. KeptOut' /\ OneOwner' /\ NotStarted'
  BY <1>1, <1>2, <1>3, <1>7 DEF KeptOut, OneOwner, NotStarted
<1>11. NoPushRefused'
  BY DEF PushAll, IInv, NoPushRefused
<1> QED  BY <1>8, <1>9, <1>10, <1>11 DEF IInv

(* queue_pop unlinks the oldest item.                                      *)
LEMMA PopIInv ==
    ASSUME QueueAssumption, IInv, NEW th \in Threads, Pop(th)
    PROVE  IInv'
<1> DEFINE n == Len(contents)
<1>1. /\ contents \in Seq(Items) /\ contents # <<>> /\ n \in Nat \ {0}
      /\ head = contents[1] /\ head \in Items /\ head \in Queued
      /\ tail = contents[n] /\ count = n
      /\ next \in [Items -> OrNull]
      /\ \A i \in 1..n : contents[i] \in Items
      /\ \A i \in 1..n : next[contents[i]] = IF i = n THEN NoItem ELSE contents[i + 1]
      /\ \A i, j \in 1..n : contents[i] = contents[j] => i = j
  <2>1. contents \in Seq(Items) /\ contents # <<>>
    BY DEF IInv, TypeOK, Represents, Pop
  <2> QED  BY <2>1 DEF IInv, TypeOK, Represents, OneOwner, Queued, Range
<1>2. /\ contents' = Tail(contents) /\ contents' \in Seq(Items) /\ Len(contents') = n - 1
      /\ \A i \in 1..(n - 1) : contents'[i] = contents[i + 1]
      /\ Queued' = Queued \ {head}
  BY <1>1, TailRange DEF Pop, Queued
<1>3. /\ head' = IF n = 1 THEN NoItem ELSE contents[2]
      /\ tail' = IF n = 1 THEN NoItem ELSE tail
      /\ next' = [next EXCEPT ![head] = NoItem]
      /\ count' = n - 1
  <2>1. CASE n = 1
    <3>1. next[head] = NoItem /\ next = [next EXCEPT ![head] = NoItem]
      BY <2>1, <1>1
    <3> QED  BY <2>1, <3>1, <1>1 DEF Pop, EmptiedTail
  <2>2. CASE n # 1
    <3>1. next[head] = contents[2] /\ next[head] # NoItem
      BY <2>2, <1>1 DEF QueueAssumption
    <3> QED  BY <2>2, <3>1, <1>1 DEF Pop, Unlinked
  <2> QED  BY <2>1, <2>2
<1>4. /\ got' = [got EXCEPT ![th] = head] /\ arg' = arg /\ started' = started /\ started
      /\ got \in [Threads -> OrNull] /\ got[th] = NoItem /\ arg \in [Threads -> OrNull]
      /\ Pushing' = Pushing
      /\ pc' \in [Threads -> {"idle", "tail", "lock", "wait", "woken"}]
  BY DEF Pop, IInv, TypeOK, Pushing
<1>5. TypeOK'
  <2>1. head' \in OrNull /\ tail' \in OrNull /\ next' \in [Items -> OrNull]
    BY <1>1, <1>3 DEF OrNull
  <2>2. got' \in [Threads -> OrNull] /\ count' \in Nat
    BY <1>1, <1>3, <1>4 DEF OrNull
  <2>3. started' \in BOOLEAN /\ refused' \in BOOLEAN
    BY DEF Pop, IInv, TypeOK
  <2> QED  BY <2>1, <2>2, <2>3, <1>2, <1>4 DEF TypeOK, OrNull
<1>6. Represents'
  <2>1. /\ contents' = <<>> <=> n = 1
        /\ head' = IF n = 1 THEN NoItem ELSE contents'[1]
        /\ tail' = IF n = 1 THEN NoItem ELSE contents'[n - 1]
    <3>1. contents' \in Seq(Items) /\ Len(contents') = n - 1 /\ n \in Nat
      BY <1>1, <1>2
    <3>2. contents' = <<>> <=> n = 1
      <4>1. contents' = <<>> <=> Len(contents') = 0
        BY <3>1, EmptySeq
      <4>2. Len(contents') = 0 <=> n = 1
        BY <3>1
      <4> QED  BY <4>1, <4>2
    <3>3. CASE n = 1
      BY <3>3, <3>2, <1>3
    <3>4. CASE n # 1
      <4> HIDE DEF n
      <4>1. 1 \in 1..(n - 1) /\ n - 1 \in 1..(n - 1) /\ (n - 1) + 1 = n /\ 1 + 1 = 2
        BY <3>1, <3>4, <1>1
      <4>2. contents'[1] = contents[2] /\ contents'[n - 1] = contents[n]
        BY <4>1, <1>2
      <4> QED  BY <4>2, <3>2, <3>4, <1>1, <1>3
    <3> QED  BY <3>3, <3>4
  <2>2. \A i \in 1..(n - 1) :
          next'[contents'[i]] = IF i = n - 1 THEN NoItem ELSE contents'[i + 1]
    BY <1>1, <1>2, <1>3
  <2>3. \A x \in Items \ Queued' : next'[x] = NoItem
    BY <1>1, <1>2, <1>3 DEF IInv, Represents
  <2>4. count' = Len(contents') /\ Len(contents') = n - 1
    BY <1>2, <1>3
  <2> HIDE DEF n
  <2> QED  BY <2>1, <2>2, <2>3, <2>4 DEF Represents
<1>7. KeptOut'
  <2> SUFFICES ASSUME NEW p \in Pushing
               PROVE  /\ arg[p] \notin Queued'
                      /\ \A o \in Threads \ {p} : arg[o] # arg[p] /\ got'[o] # arg[p]
    BY <1>4 DEF KeptOut
  <2>1. arg[p] \notin Queued /\ \A o \in Threads \ {p} : arg[o] # arg[p] /\ got[o] # arg[p]
    BY DEF IInv, KeptOut
  <2>2. \A o \in Threads \ {p} : got'[o] \in {got[o], head}
    BY <1>4
  <2> QED  BY <2>1, <2>2, <1>1, <1>2
<1>8. OneOwner'
  <2>1. \A i, j \in 1..(n - 1) : contents'[i] = contents'[j] => i = j
    BY <1>1, <1>2
  <2>2. ASSUME NEW p \in Threads, got'[p] # NoItem
        PROVE  got'[p] \notin Queued' /\ \A o \in Threads \ {p} : got'[o] # got'[p]
    <3>1. \A o \in Threads : got[o] # head
      BY <1>1 DEF IInv, OneOwner, QueueAssumption
    <3>2. CASE p = th
      BY <3>1, <3>2, <1>2, <1>4
    <3>3. CASE p # th
      <4>1. got'[p] = got[p] /\ got[p] \notin Queued /\ \A o \in Threads \ {p} : got[o] # got[p]
        BY <2>2, <3>3, <1>4 DEF IInv, OneOwner
      <4> QED  BY <4>1, <3>1, <1>2, <1>4
    <3> QED  BY <3>2, <3>3
  <2> QED  BY <2>1, <2>2, <1>2, <1>4 DEF IInv, OneOwner
<1>9. NotStarted'
  BY <1>4 DEF NotStarted
<1>10. NoPushRefused'
  BY DEF Pop, IInv, NoPushRefused
<1> QED  BY <1>5, <1>6, <1>7, <1>8, <1>9, <1>10 DEF IInv

(* The steps that touch neither the list nor what it holds.                *)
LEMMA OtherIInv ==
    ASSUME QueueAssumption, IInv, NEW th \in Threads,
           PopWait(th) \/ SpuriousWake(th) \/ Release(th)
    PROVE  IInv'
<1>1. CASE PopWait(th) \/ SpuriousWake(th)
  <2>1. Queued' = Queued /\ Pushing' = Pushing /\ UNCHANGED <<head, tail, next, count, arg, got, started, refused, contents>>
    BY <1>1 DEF PopWait, SpuriousWake, Queued, Pushing, IInv, TypeOK
  <2>2. pc' \in [Threads -> {"idle", "tail", "lock", "wait", "woken"}]
    BY <1>1 DEF PopWait, SpuriousWake, IInv, TypeOK
  <2>3. TypeOK' /\ Represents'
    BY <2>1, <2>2 DEF IInv, TypeOK, Represents
  <2>4. KeptOut' /\ OneOwner' /\ NotStarted' /\ NoPushRefused'
    BY <1>1, <2>1 DEF PopWait, SpuriousWake, IInv, KeptOut, OneOwner, NotStarted, NoPushRefused
  <2> QED  BY <2>3, <2>4 DEF IInv
<1>2. CASE Release(th)
  <2>1. /\ Queued' = Queued /\ Pushing' = Pushing
        /\ UNCHANGED <<head, tail, next, count, pc, arg, started, refused, contents>>
        /\ got' = [got EXCEPT ![th] = NoItem] /\ got \in [Threads -> OrNull]
    BY <1>2 DEF Release, Queued, Pushing, IInv, TypeOK
  <2>2. TypeOK' /\ Represents'
    BY <2>1 DEF IInv, TypeOK, Represents, OrNull
  <2>3. \A p \in Threads : got'[p] \in {got[p], NoItem}
    BY <2>1
  <2>4. KeptOut'
    <3> SUFFICES ASSUME NEW p \in Pushing
                 PROVE  /\ arg[p] \notin Queued
                        /\ \A o \in Threads \ {p} : arg[o] # arg[p] /\ got'[o] # arg[p]
      BY <2>1 DEF KeptOut
    <3>1. arg[p] # NoItem /\ p \in Threads
      BY DEF IInv, OneOwner, Pushing
    <3> QED  BY <3>1, <2>3 DEF IInv, KeptOut
  <2>5. OneOwner' /\ NotStarted' /\ NoPushRefused'
    BY <1>2, <2>1, <2>3 DEF Release, IInv, OneOwner, NotStarted, NoPushRefused
  <2> QED  BY <2>2, <2>4, <2>5 DEF IInv
<1> QED  BY <1>1, <1>2

(* Every step keeps the invariant.                                         *)
LEMMA NextIInv == ASSUME QueueAssumption, IInv, [Next]_vars PROVE IInv'
<1>1. CASE UNCHANGED vars
  BY <1>1 DEF vars, IInv, TypeOK, Represents, KeptOut, OneOwner, NotStarted, NoPushRefused, Queued, Pushing
<1>2. ASSUME NEW th \in Threads, WorkerStep(th) \/ SpuriousWake(th) PROVE IInv'
  <2>1. CASE PushStep(th)
    BY <2>1, GuardStepIInv, PushIInv DEF PushStep
  <2>2. CASE Pop(th)
    BY <2>2, PopIInv
  <2>3. CASE PopWait(th) \/ SpuriousWake(th) \/ Release(th)
    BY <2>3, OtherIInv
  <2> QED  BY <1>2, <2>1, <2>2, <2>3 DEF WorkerStep
<1>3. ASSUME NEW th \in Threads, NEW vs \in Arrays, PushAll(th, vs) PROVE IInv'
  BY <1>3, PushAllIInv
<1> QED  BY <1>1, <1>2, <1>3 DEF Next

(* The inductive invariant holds in every reachable state.                 *)
LEMMA Inductive == Spec => []IInv
<1>1. Init => IInv
  BY QueueAssumption, InitIInv
<1>2. IInv /\ [Next]_vars => IInv'
  BY QueueAssumption, NextIInv
<1> QED  BY <1>1, <1>2, PTL DEF Spec
-----------------------------------------------------------------------------
(* The variables of the queue keep their types.                            *)
THEOREM TypeCorrect == Spec => []TypeOK
<1>1. IInv => TypeOK
  BY DEF IInv
<1> QED  BY <1>1, Inductive, PTL

(* For any number of threads and items, the head, the tail, the next       *)
(* pointers and the count of queueT.c describe exactly what was put and    *)
(* not yet taken, in order.                                                *)
THEOREM ListRepresentsQueue == Spec => []Represents
<1>1. IInv => Represents
  BY DEF IInv
<1> QED  BY <1>1, Inductive, PTL

(* For any number of threads and items, the guard of queue_push, read      *)
(* without the mutex, refuses no item that is not in the queue: next and   *)
(* tail never look as if it was, whatever other threads push and pop.      *)
THEOREM PushSucceeds == Spec => []NoPushRefused
<1>1. IInv => NoPushRefused
  BY DEF IInv
<1> QED  BY <1>1, Inductive, PTL
-----------------------------------------------------------------------------
(* Only workers sleep on the condition variable.                           *)
OnlyWorkersWait == Waiting \subseteq Workers

(* A step of one thread leaves another one awake, but a worker that finds  *)
(* the queue empty; a push to it, or an array, wakes one if none was.      *)
LEMMA SomeoneAwake ==
    ASSUME QueueAssumption, Workers # {}, IInv, OnlyWorkersWait, NoLostWakeup, [Next]_vars
    PROVE  OnlyWorkersWait' /\ NoLostWakeup'
<1> USE DEF OnlyWorkersWait, NoLostWakeup, Waiting
<1>1. pc \in [Threads -> {"idle", "tail", "lock", "wait", "woken"}] /\ Workers \subseteq Threads
  BY DEF IInv, TypeOK, QueueAssumption
<1>2. CASE UNCHANGED vars
  BY <1>2 DEF vars
<1>3. ASSUME NEW th \in Threads, (\E v \in Items : PushGuardNext(th, v)) \/ PushGuardTail(th)
      PROVE  OnlyWorkersWait' /\ NoLostWakeup'
  <2>1. /\ contents' = contents /\ got' = got /\ pc'[th] # "wait"
        /\ \A o \in Threads \ {th} : pc'[o] = pc[o]
    BY <1>1, <1>3 DEF PushGuardNext, PushGuardTail
  <2> QED  BY <1>1, <2>1
<1>4. ASSUME NEW th \in Threads, Push(th) PROVE OnlyWorkersWait' /\ NoLostWakeup'
  <2>1. CASE Waiting = {}
    <3>1. pc' = [pc EXCEPT ![th] = "idle"]
      BY <1>4, <2>1 DEF Push, Signal
    <3>2. \A o \in Threads : pc'[o] # "wait"
      BY <1>1, <2>1, <3>1
    <3> QED  BY <1>1, <3>2
  <2>2. CASE Waiting # {}
    <3>1. PICK w \in Waiting : pc' = [pc EXCEPT ![th] = "idle", ![w] = "woken"]
      BY <1>4, <2>2 DEF Push, Signal
    <3>2. pc'[w] = "woken" /\ w \in Workers
      BY <1>1, <3>1
    <3>3. \A o \in Threads : pc'[o] = "wait" => pc[o] = "wait"
      BY <1>1, <3>1
    <3> QED  BY <3>2, <3>3
  <2> QED  BY <2>1, <2>2
<1>5. ASSUME NEW th \in Threads, NEW vs \in Arrays, PushAll(th, vs)
      PROVE  OnlyWorkersWait' /\ NoLostWakeup'
  <2>1. \A o \in Threads : pc'[o] # "wait"
    BY <1>1, <1>5 DEF PushAll
  <2> QED  BY <1>1, <2>1
<1>6. ASSUME NEW th \in Threads, Pop(th) PROVE OnlyWorkersWait' /\ NoLostWakeup'
  <2>1. th \in Workers /\ got'[th] # NoItem
    BY <1>6 DEF Pop, IInv, TypeOK
  <2>2. \A o \in Threads : pc'[o] = "wait" => pc[o] = "wait"
    BY <1>1, <1>6 DEF Pop
  <2> QED  BY <2>1, <2>2
<1>7. ASSUME NEW th \in Threads, PopWait(th) PROVE OnlyWorkersWait' /\ NoLostWakeup'
  <2>1. contents' = <<>>
    BY <1>7 DEF PopWait, IInv, Represents, TypeOK, QueueAssumption
  <2>2. \A o \in Threads : pc'[o] = "wait" => pc[o] = "wait" \/ o = th
    BY <1>1, <1>7 DEF PopWait
  <2> QED  BY <1>7, <2>1, <2>2 DEF PopWait
<1>8. ASSUME NEW th \in Threads, SpuriousWake(th) PROVE OnlyWorkersWait' /\ NoLostWakeup'
  BY <1>1, <1>8 DEF SpuriousWake
<1>9. ASSUME NEW th \in Threads, Release(th) PROVE OnlyWorkersWait' /\ NoLostWakeup'
  <2>1. pc' = pc /\ contents' = contents /\ pc[th] = "idle" /\ \A o \in Threads \ {th} : got'[o] = got[o]
    BY <1>9 DEF Release, IInv, TypeOK
  <2> QED  BY <1>1, <2>1
<1> QED  BY <1>2, <1>3, <1>4, <1>5, <1>6, <1>7, <1>8, <1>9 DEF Next, WorkerStep, PushStep

(* However many workers there are, one signal per push is enough: they     *)
(* never all sleep while a task is queued and none of them has one.        *)
THEOREM NoWakeupIsLost == ASSUME Workers # {} PROVE Spec => []NoLostWakeup
<1>1. Init => OnlyWorkersWait /\ NoLostWakeup
  BY DEF Init, OnlyWorkersWait, NoLostWakeup, Waiting
<1>2. IInv /\ OnlyWorkersWait /\ NoLostWakeup /\ [Next]_vars => OnlyWorkersWait' /\ NoLostWakeup'
  BY QueueAssumption, SomeoneAwake
<1> QED  BY <1>1, <1>2, Inductive, PTL DEF Spec
-----------------------------------------------------------------------------
(* What the abstract queue calls queued is what this module calls queued.  *)
LEMMA SameQueued == ASSUME IInv PROVE Fifo!Queued = Queued
<1>1. contents \in Seq(Items)
  BY DEF IInv, TypeOK
<1> QED  BY <1>1 DEF Fifo!Queued, Queued, Range

(* An empty list is an empty queue.                                        *)
LEMMA InitMaps == ASSUME Init PROVE Fifo!Init
BY DEF Init, Fifo!Init

(* The critical section of queue_push puts one item.                       *)
LEMMA PushMaps ==
    ASSUME QueueAssumption, IInv, NEW th \in Threads, Push(th)
    PROVE  Fifo!Put(th, arg[th]) /\ arg[th] \in Items
<1>1. /\ arg[th] \in Items /\ arg[th] \notin Queued /\ arg[th] # NoItem
      /\ \A o \in Threads \ {th} : got[o] # arg[th]
  BY DEF Push, IInv, TypeOK, OrNull, OneOwner, KeptOut, Pushing
<1>2. arg[th] \in Fifo!Taken => got[th] = arg[th]
  BY <1>1 DEF Fifo!Taken
<1>3. contents' = Append(contents, arg[th]) /\ Fifo!HandOver(th, arg[th])
  BY DEF Push, Fifo!HandOver
<1> QED  BY <1>1, <1>2, <1>3, SameQueued DEF Fifo!Put

(* queue_pushall puts the whole array at once.                             *)
LEMMA PushAllMaps ==
    ASSUME QueueAssumption, IInv, NEW th \in Threads, NEW vs \in Arrays, PushAll(th, vs)
    PROVE  Fifo!PutAll(vs) /\ vs \in UNION { [1..n -> Items] : n \in 1..MaxBatch }
<1>1. PICK n \in 1..MaxBatch : vs \in [1..n -> Items] /\ IsInjective(vs)
  BY DEF Arrays
<1>2. n \in Nat /\ Len(vs) = n /\ DOMAIN vs = 1..n
  BY <1>1 DEF QueueAssumption
<1>3. \A i, j \in 1..Len(vs) : i # j => vs[i] # vs[j]
  BY <1>1, <1>2 DEF IsInjective
<1>4. ASSUME NEW i \in 1..Len(vs) PROVE vs[i] \notin Queued /\ vs[i] \notin Fifo!Taken
  <2>1. vs[i] \in Free
    BY <1>2 DEF PushAll, Range
  <2> QED  BY <2>1 DEF Free, Handled, Fifo!Taken
<1>5. contents' = contents \o vs /\ UNCHANGED got
  BY DEF PushAll
<1> QED  BY <1>1, <1>3, <1>4, <1>5, SameQueued DEF Fifo!PutAll

(* queue_pop takes the oldest item.                                        *)
LEMMA PopMaps ==
    ASSUME QueueAssumption, IInv, NEW th \in Threads, Pop(th)
    PROVE  Fifo!Take(th)
<1>1. contents \in Seq(Items) /\ contents # <<>> /\ head = contents[1]
  BY DEF Pop, IInv, TypeOK, Represents
<1>2. Head(contents) = head
  BY <1>1
<1> QED  BY <1>1, <1>2 DEF Pop, Fifo!Take

(* Every step of the pointer structure is a step of the abstract queue or  *)
(* none that it sees.                                                      *)
LEMMA NextMaps == ASSUME QueueAssumption, IInv, [Next]_vars PROVE [Fifo!Next]_(Fifo!vars)
<1>1. CASE UNCHANGED vars
  BY <1>1 DEF vars, Fifo!vars
<1>2. ASSUME NEW th \in Threads, WorkerStep(th) \/ SpuriousWake(th)
      PROVE  [Fifo!Next]_(Fifo!vars)
  <2>1. CASE (\E v \in Items : PushGuardNext(th, v)) \/ PushGuardTail(th) \/ PopWait(th) \/ SpuriousWake(th)
    BY <2>1 DEF PushGuardNext, PushGuardTail, PopWait, SpuriousWake, Fifo!vars
  <2>2. CASE Push(th)
    BY <2>2, PushMaps DEF Fifo!Next
  <2>3. CASE Pop(th)
    BY <2>3, PopMaps DEF Fifo!Next
  <2>4. CASE Release(th)
    BY <2>4 DEF Release, Fifo!Drop, Fifo!Next
  <2> QED  BY <1>2, <2>1, <2>2, <2>3, <2>4 DEF WorkerStep, PushStep
<1>3. ASSUME NEW th \in Threads, NEW vs \in Arrays, PushAll(th, vs)
      PROVE  [Fifo!Next]_(Fifo!vars)
  BY <1>3, PushAllMaps DEF Fifo!Next
<1> QED  BY <1>1, <1>2, <1>3 DEF Next

(* For any number of threads and items, queueT.c implements the FIFO queue *)
(* its callers rely on.                                                    *)
THEOREM ImplementsFifo == Spec => FifoSpec
<1>1. Init => Fifo!Init
  BY InitMaps
<1>2. IInv /\ [Next]_vars => [Fifo!Next]_(Fifo!vars)
  BY QueueAssumption, NextMaps
<1> QED  BY <1>1, <1>2, Inductive, PTL DEF Spec, FifoSpec, Fifo!Spec
=============================================================================
