-------------------------- MODULE LinkedListProofs -------------------------
(***************************************************************************)
(* Proofs about LinkedList, for any number of threads and elements: the    *)
(* pointers represent the list, what is tested without the mutex is still  *)
(* good enough under it, and the whole implements OrderedList.             *)
(***************************************************************************)
EXTENDS LinkedList, QueueLemmas

(* A list has no element twice.                                            *)
NoRepeats == \A j, k \in 1..Len(contents) : contents[j] = contents[k] => j = k

(* The thread is busy with an element nobody else may touch: one it        *)
(* appends, and in task.c also one it deletes.                             *)
Owns(th) == pc[th] = "append" \/ (usage = "tasks" /\ pc[th] = "delete")

(* Who is in which call, and with what: only the master deletes and pops   *)
(* events, an element that is appended is not in the list, and a task that *)
(* is deleted is.                                                          *)
Calls ==
    /\ \A th \in Threads :
         /\ pc[th] \in {"append", "delete"} <=> arg[th] # NoItem
         /\ pc[th] = "append" => arg[th] \notin ToSet(contents)
         /\ usage = "events" /\ th = Master => pc[th] # "append"
         /\ usage = "events" /\ th # Master => pc[th] \in {"idle", "append"}
         /\ usage = "tasks" => pc[th] # "pop"
         /\ usage = "tasks" /\ pc[th] = "delete" => arg[th] \in ToSet(contents)
    /\ \A th, o \in Threads : th # o /\ Owns(th) /\ Owns(o) => arg[th] # arg[o]

IInv == Represents /\ NoRepeats /\ Calls /\ PopFinds
-----------------------------------------------------------------------------
(* The list is right when it is created.                                   *)
LEMMA InitIInv == ASSUME ListAssumption, Init PROVE IInv
<1>1. contents \in Seq(Items) /\ Len(contents) = 0 /\ ToSet(contents) = {}
  BY DEF Init, ToSet
<1>2. Cardinality(Items) \in Nat
  BY FS_CardinalityType DEF ListAssumption
<1>3. TypeOK
  <2>1. count \in 0..Cardinality(Items)
    BY <1>2 DEF Init
  <2> QED  BY <1>1, <2>1 DEF Init, TypeOK, OrNull, Answer
<1>4. Represents
  BY <1>1, <1>3 DEF Init, Represents, Linked
<1>5. NoRepeats /\ Calls /\ PopFinds
  BY <1>1 DEF Init, NoRepeats, Calls, Owns, PopFinds
<1> QED  BY <1>4, <1>5 DEF IInv

(* What the invariant says of the list, in the form the proofs use.        *)
LEMMA ListFacts ==
    ASSUME ListAssumption, IInv
    PROVE  /\ contents \in Seq(Items) /\ Len(contents) \in Nat
           /\ ToSet(contents) = Range(contents)
           /\ \A k \in 1..Len(contents) : contents[k] \in Range(contents) /\ contents[k] \in Items
           /\ \A v \in Range(contents) : \E k \in 1..Len(contents) : v = contents[k]
           /\ \A v \in Items : Misplaced(v) <=> v \notin Range(contents)
<1> DEFINE n == Len(contents)
<1>1. contents \in Seq(Items) /\ n \in Nat /\ DOMAIN contents = 1..n
  BY DEF IInv, Represents, TypeOK
<1>2. ToSet(contents) = Range(contents)
  BY ToSetIsRange
<1>3. \A k \in 1..n : contents[k] \in Range(contents) /\ contents[k] \in Items
  BY <1>1 DEF Range
<1>4. \A v \in Range(contents) : \E k \in 1..n : v = contents[k]
  BY <1>1 DEF Range
<1>5. ASSUME NEW v \in Items \ Range(contents) PROVE Misplaced(v)
  <2>1. ~Linked(v)
    BY <1>2, <1>5 DEF IInv, Represents
  <2>2. head # v
    BY <1>1, <1>3, <1>5 DEF IInv, Represents, ListAssumption
  <2> QED  BY <2>1, <2>2 DEF Linked, Misplaced
<1>6. ASSUME NEW k \in 1..n PROVE ~Misplaced(contents[k])
  <2>1. /\ next[contents[k]] = IF k = n THEN NoItem ELSE contents[k + 1]
        /\ prev[contents[k]] = IF k = 1 THEN NoItem ELSE contents[k - 1]
        /\ head = contents[1] /\ tail = contents[n]
    BY <1>1 DEF IInv, Represents
  <2>2. /\ k # n => contents[k + 1] \in Items
        /\ k # 1 => contents[k - 1] \in Items
    <3>1. n \in Nat /\ k \in 1..n
      BY <1>1, <1>6
    <3> HIDE DEF n
    <3>2. (k # n => k + 1 \in 1..n) /\ (k # 1 => k - 1 \in 1..n)
      BY <3>1
    <3> QED  BY <1>3, <3>2
  <2> QED  BY <2>1, <2>2 DEF Misplaced, ListAssumption
<1> QED  BY <1>1, <1>2, <1>3, <1>4, <1>5, <1>6

(* A call that only goes on to the mutex, or fails before it, keeps the    *)
(* list; what it found is still so when it has the mutex.                  *)
LEMMA GuardIInv ==
    ASSUME ListAssumption, IInv, NEW th \in Threads,
           (\E v \in Items : AppendGuard(th, v) \/ DeleteGuard(th, v)) \/ PopGuard(th)
    PROVE  IInv'
<1>1. UNCHANGED <<head, tail, count, prev, next, contents, usage>>
  BY DEF AppendGuard, DeleteGuard, PopGuard, listVars
<1>2. /\ contents \in Seq(Items) /\ ToSet(contents) = Range(contents)
      /\ pc \in [Threads -> {"idle", "append", "delete", "pop"}] /\ arg \in [Threads -> OrNull]
      /\ result \in [Threads -> Answer]
      /\ pc[th] = "idle" /\ usage \in {"events", "tasks"}
  BY ListFacts DEF IInv, Represents, TypeOK, AppendGuard, DeleteGuard, PopGuard, MayAppend, MayDelete, MayPop
<1>3. ToSet(contents)' = ToSet(contents) /\ NoRepeats'
  BY <1>1 DEF IInv, NoRepeats
<1>4. ASSUME NEW c \in {"append", "delete", "pop"}, NEW v \in OrNull, NEW ok \in BOOLEAN,
             Returns(th, c, v, ok)
      PROVE  IInv'
  <2>1. /\ pc' = [pc EXCEPT ![th] = "idle"] /\ arg' = [arg EXCEPT ![th] = NoItem]
        /\ result' \in [Threads -> Answer]
    BY <1>2, <1>4 DEF Returns, Answer
  <2>2. TypeOK'
    BY <1>1, <1>2, <2>1 DEF IInv, Represents, TypeOK, OrNull
  <2>3. Represents'
    BY <1>1, <1>3, <2>2 DEF IInv, Represents, Linked
  <2>4. Calls'
    BY <1>1, <1>2, <1>3, <2>1 DEF IInv, Calls, Owns
  <2>5. PopFinds'
    BY <1>1, <1>2, <2>1 DEF IInv, PopFinds
  <2> QED  BY <1>3, <2>3, <2>4, <2>5 DEF IInv
<1>5. ASSUME NEW v \in OrNull, NEW place \in {"append", "delete", "pop"}, Locks(th, place, v),
             place = "append" => v \in Items /\ MayAppend(th, v),
             place = "delete" => v \in Items /\ MayDelete(th, v),
             place = "pop" => v = NoItem /\ MayPop(th) /\ count # 0
      PROVE  IInv'
  <2>1. /\ pc' = [pc EXCEPT ![th] = place] /\ arg' = [arg EXCEPT ![th] = v]
        /\ result' = result
    BY <1>5 DEF Locks
  <2>2. TypeOK'
    BY <1>1, <1>2, <2>1 DEF IInv, Represents, TypeOK
  <2>3. Represents'
    BY <1>1, <1>3, <2>2 DEF IInv, Represents, Linked
  <2>4. Calls'
    <3>1. ASSUME NEW o \in Threads
          PROVE  /\ pc'[o] \in {"append", "delete"} <=> arg'[o] # NoItem
                 /\ pc'[o] = "append" => arg'[o] \notin ToSet(contents)
                 /\ usage = "events" /\ o = Master => pc'[o] # "append"
                 /\ usage = "events" /\ o # Master => pc'[o] \in {"idle", "append"}
                 /\ usage = "tasks" => pc'[o] # "pop"
                 /\ usage = "tasks" /\ pc'[o] = "delete" => arg'[o] \in ToSet(contents)
      <4>1. CASE o = th
        BY <1>2, <1>5, <2>1, <4>1 DEF MayAppend, MayDelete, MayPop, ListAssumption
      <4>2. CASE o # th
        BY <1>2, <2>1, <4>2 DEF IInv, Calls
      <4> QED  BY <4>1, <4>2
    <3>2. ASSUME NEW o \in Threads, NEW p \in Threads, o # p, Owns(o)', Owns(p)'
          PROVE  arg'[o] # arg'[p]
      <4>1. \A q \in Threads \ {th} : pc'[q] = pc[q] /\ arg'[q] = arg[q]
        BY <1>2, <2>1
      <4>2. Owns(th)' => \A q \in Threads \ {th} : arg[q] # arg'[th]
        BY <1>1, <1>2, <1>5, <2>1 DEF Owns, MayAppend, MayDelete, Untouched
      <4>3. \A q \in Threads \ {th} : Owns(q)' => Owns(q)
        BY <1>1, <4>1 DEF Owns
      <4> QED  BY <3>2, <4>1, <4>2, <4>3 DEF IInv, Calls
    <3> QED  BY <1>1, <1>3, <3>1, <3>2 DEF Calls
  <2>5. PopFinds'
    BY <1>1, <1>2, <1>5, <2>1 DEF IInv, PopFinds, Represents, ListAssumption
  <2> QED  BY <1>3, <2>3, <2>4, <2>5 DEF IInv
<1>6. CASE \E v \in Items : AppendGuard(th, v)
  BY <1>4, <1>5, <1>6 DEF AppendGuard, OrNull
<1>7. CASE \E v \in Items : DeleteGuard(th, v)
  BY <1>4, <1>5, <1>7 DEF DeleteGuard, OrNull
<1>8. CASE PopGuard(th)
  BY <1>4, <1>5, <1>8 DEF PopGuard, OrNull
<1> QED  BY <1>6, <1>7, <1>8

(* The calling thread returns: what the others are busy with is still what *)
(* they may be busy with, if the list lost at most the caller's element or *)
(* its first one, and gained at most the caller's.                         *)
LEMMA ReturnCalls ==
    ASSUME ListAssumption, IInv, NEW th \in Threads, NEW c, NEW v, NEW ok, Returns(th, c, v, ok),
           usage' = usage,
           \A o \in Threads \ {th} :
             /\ pc[o] = "append" => arg[o] \notin ToSet(contents)'
             /\ usage = "tasks" /\ pc[o] = "delete" => arg[o] \in ToSet(contents)'
    PROVE  Calls'
<1>1. /\ pc \in [Threads -> {"idle", "append", "delete", "pop"}] /\ arg \in [Threads -> OrNull]
      /\ pc' = [pc EXCEPT ![th] = "idle"] /\ arg' = [arg EXCEPT ![th] = NoItem]
  BY DEF IInv, Represents, TypeOK, Returns
<1>2. \A o \in Threads \ {th} : pc'[o] = pc[o] /\ arg'[o] = arg[o]
  BY <1>1
<1>3. pc'[th] = "idle" /\ arg'[th] = NoItem
  BY <1>1
<1>4. \A o \in Threads : Owns(o)' => o # th /\ Owns(o)
  BY <1>2, <1>3 DEF Owns
<1> QED  BY <1>2, <1>3, <1>4 DEF IInv, Calls

(* The critical section of list_append links the element behind the tail.  *)
LEMMA AppendIInv ==
    ASSUME ListAssumption, IInv, NEW th \in Threads, AppendLocked(th) PROVE IInv'
<1> DEFINE v == arg[th]
           n == Len(contents)
<1>1. /\ v \in Items /\ v # NoItem /\ v \notin Range(contents) /\ pc[th] = "append"
      /\ Returns(th, "append", v, TRUE) /\ usage' = usage /\ count' = count + 1
      /\ contents' = Append(contents, v)
  <2>1. /\ pc[th] = "append" /\ Returns(th, "append", v, TRUE) /\ usage' = usage /\ count' = count + 1
        /\ contents' = Append(contents, v)
    BY DEF AppendLocked
  <2>2. v # NoItem /\ v \notin ToSet(contents)
    BY <2>1 DEF IInv, Calls
  <2>3. v \in Items
    BY <2>2 DEF IInv, Represents, TypeOK, OrNull
  <2> QED  BY <2>1, <2>2, <2>3, ListFacts
<1>2. /\ contents \in Seq(Items) /\ n \in Nat
      /\ contents' \in Seq(Items) /\ Len(contents') = n + 1
      /\ \A k \in 1..n : contents'[k] = contents[k] /\ contents[k] \in Range(contents)
                         /\ contents[k] \in Items
      /\ contents'[n + 1] = v
      /\ Range(contents') = Range(contents) \cup {v}
      /\ ToSet(contents)' = Range(contents') /\ ToSet(contents) = Range(contents)
  BY <1>1, ListFacts, AppendedRange, ToSetIsRange
<1>3. /\ head = IF n = 0 THEN NoItem ELSE contents[1]
      /\ tail = IF n = 0 THEN NoItem ELSE contents[n]
      /\ n # 0 => tail \in Items /\ tail \in Range(contents)
      /\ tail = NoItem <=> n = 0
      /\ next \in [Items -> OrNull] /\ prev \in [Items -> OrNull]
  BY <1>2 DEF IInv, Represents, TypeOK, ListAssumption
<1>4. /\ head' = contents'[1] /\ tail' = v
      /\ next' = IF n = 0 THEN next ELSE [next EXCEPT ![contents[n]] = v]
      /\ prev' = IF n = 0 THEN prev ELSE [prev EXCEPT ![v] = contents[n]]
  BY <1>2, <1>3 DEF AppendLocked
<1>5. NoRepeats'
  BY <1>1, <1>2 DEF IInv, NoRepeats
<1>6. TypeOK'
  <2>1. count' = n + 1 /\ count' \in 0..Cardinality(Items)
    <3>1. IsInjective(contents')
      BY <1>2, <1>5, NoDuplicates DEF NoRepeats
    <3>2. Len(contents') \in 0..Cardinality(Items)
      BY <1>2, <3>1, NotTooLong DEF ListAssumption
    <3> QED  BY <1>1, <1>2, <3>2 DEF IInv, Represents
  <2>2. head' \in OrNull /\ tail' \in OrNull
    BY <1>1, <1>2, <1>4 DEF OrNull
  <2>3. next' \in [Items -> OrNull] /\ prev' \in [Items -> OrNull]
    BY <1>1, <1>3, <1>4 DEF OrNull
  <2>4. /\ pc' \in [Threads -> {"idle", "append", "delete", "pop"}]
        /\ arg' \in [Threads -> OrNull] /\ result' \in [Threads -> Answer]
    BY <1>1 DEF IInv, Represents, TypeOK, Returns, Answer, OrNull
  <2> QED  BY <1>1, <1>2, <2>1, <2>2, <2>3, <2>4 DEF IInv, Represents, TypeOK
<1>7. next[v] = NoItem /\ prev[v] = NoItem
  BY <1>1, <1>2 DEF IInv, Represents, Linked
<1>8. Represents'
  <2>1. ASSUME NEW k \in 1..(n + 1)
        PROVE  next'[contents'[k]] = IF k = n + 1 THEN NoItem ELSE contents'[k + 1]
    <3>1. CASE k = n + 1
      BY <1>1, <1>2, <1>3, <1>4, <1>7, <3>1
    <3>2. CASE k = n
      BY <1>1, <1>2, <1>3, <1>4, <3>2
    <3>3. CASE k \in 1..(n - 1)
      <4>1. contents[k] # contents[n] /\ next[contents[k]] = contents[k + 1]
            /\ k + 1 \in 1..n /\ n # 0 /\ k \in 1..n /\ k # n + 1
        BY <1>2, <3>3 DEF IInv, NoRepeats, Represents
      <4> QED  BY <1>2, <1>3, <1>4, <4>1
    <3> QED  BY <1>2, <3>1, <3>2, <3>3
  <2>2. ASSUME NEW k \in 1..(n + 1)
        PROVE  prev'[contents'[k]] = IF k = 1 THEN NoItem ELSE contents'[k - 1]
    <3>1. CASE k = n + 1
      BY <1>1, <1>2, <1>3, <1>4, <1>7, <3>1
    <3>2. CASE k \in 1..n
      <4>1. contents[k] # v /\ prev[contents[k]] = IF k = 1 THEN NoItem ELSE contents[k - 1]
        BY <1>1, <1>2, <3>2 DEF IInv, Represents
      <4>2. k # 1 => k - 1 \in 1..n
        BY <1>2, <3>2
      <4> QED  BY <1>2, <1>3, <1>4, <3>2, <4>1, <4>2
    <3> QED  BY <1>2, <3>1, <3>2
  <2>3. ASSUME NEW x \in Items \ Range(contents') PROVE next'[x] = NoItem /\ prev'[x] = NoItem
    <3>1. next[x] = NoItem /\ prev[x] = NoItem /\ x # v /\ x \notin Range(contents)
      BY <1>2, <2>3 DEF IInv, Represents, Linked
    <3> QED  BY <1>2, <1>3, <1>4, <3>1
  <2>4. count' = n + 1 /\ n + 1 # 0
    BY <1>1, <1>2 DEF IInv, Represents
  <2> HIDE DEF n, v
  <2> QED  BY <1>2, <1>4, <1>6, <2>1, <2>2, <2>3, <2>4 DEF Represents, Linked
<1>9. Calls'
  <2>1. ASSUME NEW o \in Threads \ {th}
        PROVE  /\ pc[o] = "append" => arg[o] \notin ToSet(contents)'
               /\ usage = "tasks" /\ pc[o] = "delete" => arg[o] \in ToSet(contents)'
    BY <1>1, <1>2 DEF IInv, Calls, Owns
  <2> QED  BY <1>1, <2>1, ReturnCalls
<1>10. PopFinds'
  BY <1>1, <1>2, <1>4 DEF IInv, Represents, TypeOK, PopFinds, Returns, ListAssumption
<1> QED  BY <1>5, <1>8, <1>9, <1>10 DEF IInv

(* The critical section of list_delete: the element is in the list exactly *)
(* when its pointers and the ends of the list say so, and then its         *)
(* neighbours are joined.                                                  *)
LEMMA DeleteIInv ==
    ASSUME ListAssumption, IInv, NEW th \in Threads, DeleteLocked(th) PROVE IInv'
<1> DEFINE v == arg[th]
           n == Len(contents)
           r == contents'
<1>1. /\ v \in Items /\ pc[th] = "delete" /\ usage' = usage
      /\ usage = "events" => th = Master
  BY DEF DeleteLocked, IInv, Represents, TypeOK, OrNull, Calls
<1>2. CASE Misplaced(v)
  <2>1. /\ Returns(th, "delete", v, FALSE) /\ v \notin Range(contents)
        /\ UNCHANGED <<head, tail, count, prev, next, contents>>
    BY <1>1, <1>2, ListFacts DEF DeleteLocked, listVars
  <2>2. TypeOK'
    BY <1>1, <2>1 DEF IInv, Represents, TypeOK, Returns, Answer, OrNull
  <2>3. Represents' /\ NoRepeats'
    BY <2>1, <2>2 DEF IInv, Represents, Linked, NoRepeats
  <2>4. Calls'
    BY <1>1, <2>1, ReturnCalls DEF IInv, Calls
  <2>5. PopFinds'
    BY <1>1, <2>1 DEF IInv, Represents, TypeOK, PopFinds, Returns
  <2> QED  BY <2>3, <2>4, <2>5 DEF IInv
<1>3. CASE ~Misplaced(v)
  <2>1. /\ contents \in Seq(Items) /\ n \in Nat
        /\ \A j \in 1..n : contents[j] \in Range(contents) /\ contents[j] \in Items
        /\ \A j, m \in 1..n : contents[j] = contents[m] => j = m
        /\ ToSet(contents)' = Range(r) /\ ToSet(contents) = Range(contents)
    BY ListFacts, ToSetIsRange DEF IInv, NoRepeats
  <2>2. PICK k \in 1..n : v = contents[k]
    BY <1>1, <1>3, ListFacts
  <2>3. /\ r \in Seq(Items) /\ Len(r) = n - 1
        /\ \A j \in 1..(n - 1) : r[j] = IF j < k THEN contents[j] ELSE contents[j + 1]
        /\ Range(r) = Range(contents) \ {v}
    BY <1>3, <2>1, <2>2, RemovedAt DEF DeleteLocked
  <2> DEFINE before == IF k = 1 THEN NoItem ELSE contents[k - 1]
             after  == IF k = n THEN NoItem ELSE contents[k + 1]
  <2>4. /\ prev[v] = before /\ next[v] = after
        /\ head = contents[1] /\ tail = contents[n] /\ count = n
        /\ next \in [Items -> OrNull] /\ prev \in [Items -> OrNull]
        /\ head \in Items /\ tail \in Items
    BY <2>1, <2>2 DEF IInv, Represents, TypeOK
  <2>5. /\ k # 1 => k - 1 \in 1..n /\ before = contents[k - 1] /\ before \in Items /\ before # v
        /\ k # n => k + 1 \in 1..n /\ after = contents[k + 1] /\ after \in Items /\ after # v
        /\ before = NoItem <=> k = 1
        /\ after = NoItem <=> k = n
    <3>1. (k # n => k + 1 \in 1..n) /\ (k # 1 => k - 1 \in 1..n) /\ k - 1 # k /\ k + 1 # k
      BY <2>1, <2>2
    <3> QED  BY <2>1, <2>2, <3>1 DEF ListAssumption
  <2>6. /\ head' = (IF k = 1 THEN after ELSE head) /\ tail' = (IF k = n THEN before ELSE tail)
        /\ next' = IF k = 1 THEN [next EXCEPT ![v] = NoItem]
                            ELSE [[next EXCEPT ![before] = after] EXCEPT ![v] = NoItem]
        /\ prev' = IF k = n THEN [prev EXCEPT ![v] = NoItem]
                            ELSE [[prev EXCEPT ![after] = before] EXCEPT ![v] = NoItem]
        /\ count' = n - 1 /\ Returns(th, "delete", v, TRUE)
    <3> HIDE DEF before, after
    <3> QED  BY <1>3, <2>4, <2>5 DEF DeleteLocked, Cleared, Fewer
  <2>7. \A x \in Items :
          /\ next'[x] = IF x = v THEN NoItem ELSE IF k # 1 /\ x = before THEN after ELSE next[x]
          /\ prev'[x] = IF x = v THEN NoItem ELSE IF k # n /\ x = after THEN before ELSE prev[x]
    <3> HIDE DEF before, after
    <3> QED  BY <1>1, <2>4, <2>5, <2>6
  <2>8. NoRepeats'
    BY <2>1, <2>2, <2>3 DEF NoRepeats
  <2>9. TypeOK'
    <3>1. count' \in 0..Cardinality(Items)
      BY SMTT(30), <2>3, <2>6, <2>8, NotTooLong, NoDuplicates DEF ListAssumption, NoRepeats
    <3>2. before \in OrNull /\ after \in OrNull /\ NoItem \in OrNull
      BY <2>5 DEF OrNull
    <3>3. next' \in [Items -> OrNull] /\ prev' \in [Items -> OrNull]
      <4> HIDE DEF before, after
      <4> QED  BY <2>4, <2>6, <3>2
    <3>4. head' \in OrNull /\ tail' \in OrNull
      <4> HIDE DEF before, after
      <4> QED  BY <2>4, <2>6, <3>2 DEF OrNull
    <3>5. /\ pc' \in [Threads -> {"idle", "append", "delete", "pop"}]
          /\ arg' \in [Threads -> OrNull] /\ result' \in [Threads -> Answer]
      BY <1>1, <2>6 DEF IInv, Represents, TypeOK, Returns, Answer, OrNull
    <3> QED  BY <1>1, <2>3, <3>1, <3>3, <3>4, <3>5 DEF IInv, Represents, TypeOK
  <2>10. Represents'
    <3> HIDE DEF before, after
    <3>1. ASSUME NEW j \in 1..(n - 1)
          PROVE  next'[r[j]] = IF j = n - 1 THEN NoItem ELSE r[j + 1]
      <4>1. /\ \A m \in 1..n : next[contents[m]] = IF m = n THEN NoItem ELSE contents[m + 1]
            /\ \A m \in 1..n : m # k => contents[m] # v
            /\ \A m \in 1..n : k # 1 /\ m # k - 1 => contents[m] # before
        BY <2>1, <2>2, <2>5 DEF IInv, Represents
      <4>2. CASE j < k - 1
        <5>1. j \in 1..n /\ j + 1 \in 1..(n - 1) /\ j + 1 < k /\ j # k /\ j # k - 1 /\ j # n
              /\ j # n - 1 /\ k # 1 /\ j < k
          BY <2>1, <4>2
        <5>2. r[j] = contents[j] /\ r[j + 1] = contents[j + 1]
          BY <2>3, <5>1
        <5> QED  BY <2>1, <2>7, <4>1, <5>1, <5>2
      <4>3. CASE j = k - 1
        <5>1. j \in 1..n /\ j < k /\ k # 1 /\ (j = n - 1 <=> k = n) /\ j # k
              /\ (j # n - 1 => j + 1 \in 1..(n - 1)) /\ ~(j + 1 < k) /\ j + 1 = k
          BY <2>1, <2>2, <4>3
        <5>2. r[j] = before /\ (j # n - 1 => r[j + 1] = after)
          BY <2>3, <2>5, <5>1, <4>3
        <5>3. next'[r[j]] = after
          BY <2>5, <2>7, <5>1, <5>2
        <5> QED  BY <2>5, <5>1, <5>2, <5>3
      <4>4. CASE j >= k
        <5>1. j + 1 \in 1..n /\ ~(j < k) /\ j + 1 # k /\ j + 1 # k - 1 /\ (j = n - 1 <=> j + 1 = n)
              /\ (j # n - 1 => j + 1 \in 1..(n - 1)) /\ ~(j + 1 < k)
          BY <2>1, <2>2, <4>4
        <5>2. r[j] = contents[j + 1] /\ (j # n - 1 => r[j + 1] = contents[j + 1 + 1])
          BY <2>3, <5>1
        <5> QED  BY <2>1, <2>7, <4>1, <5>1, <5>2
      <4> QED  BY <2>1, <2>2, <4>2, <4>3, <4>4
    <3>2. ASSUME NEW j \in 1..(n - 1)
          PROVE  prev'[r[j]] = IF j = 1 THEN NoItem ELSE r[j - 1]
      <4>1. /\ \A m \in 1..n : prev[contents[m]] = IF m = 1 THEN NoItem ELSE contents[m - 1]
            /\ \A m \in 1..n : m # k => contents[m] # v
            /\ \A m \in 1..n : k # n /\ m # k + 1 => contents[m] # after
        BY <2>1, <2>2, <2>5 DEF IInv, Represents
      <4>2. CASE j < k
        <5>1. j \in 1..n /\ j # k /\ j # k + 1
              /\ (j # 1 => j - 1 \in 1..(n - 1)) /\ j - 1 < k
          BY <2>1, <2>2, <4>2
        <5>2. r[j] = contents[j] /\ (j # 1 => r[j - 1] = contents[j - 1])
          BY <2>3, <4>2, <5>1
        <5> QED  BY <2>1, <2>7, <4>1, <5>1, <5>2
      <4>3. CASE j = k
        <5>1. k + 1 \in 1..n /\ k # n /\ ~(j < k) /\ (j = 1 <=> k = 1)
              /\ (j # 1 => j - 1 \in 1..(n - 1)) /\ j - 1 < k
          BY <2>1, <2>2, <4>3
        <5>2. r[j] = after /\ (j # 1 => r[j - 1] = before)
          BY <2>3, <2>5, <5>1, <4>3
        <5>3. prev'[r[j]] = before
          BY <2>5, <2>7, <5>1, <5>2
        <5> QED  BY <2>5, <5>1, <5>2, <5>3
      <4>4. CASE j > k
        <5>1. j + 1 \in 1..n /\ ~(j < k) /\ j + 1 # k /\ j + 1 # k + 1 /\ j + 1 # 1 /\ j # 1
              /\ j - 1 \in 1..(n - 1) /\ ~(j - 1 < k) /\ j - 1 + 1 = j /\ j + 1 - 1 = j
          BY <2>1, <2>2, <4>4
        <5>2. r[j] = contents[j + 1] /\ r[j - 1] = contents[j]
          BY <2>3, <5>1
        <5> QED  BY <2>1, <2>7, <4>1, <5>1, <5>2
      <4> QED  BY <2>1, <2>2, <4>2, <4>3, <4>4
    <3>3. ASSUME NEW x \in Items \ Range(r) PROVE next'[x] = NoItem /\ prev'[x] = NoItem
      <4>1. CASE x = v
        BY <1>1, <2>7, <4>1
      <4>2. CASE x # v
        <5>1. x \notin Range(contents)
          BY <2>3, <3>3, <4>2
        <5>2. next[x] = NoItem /\ prev[x] = NoItem
          BY <2>1, <5>1 DEF IInv, Represents, Linked
        <5>3. (k # 1 => x # before) /\ (k # n => x # after)
          BY <2>1, <2>5, <5>1
        <5> QED  BY <2>7, <4>2, <5>2, <5>3
      <4> QED  BY <4>1, <4>2
    <3>4. /\ head' = IF n - 1 = 0 THEN NoItem ELSE r[1]
          /\ tail' = IF n - 1 = 0 THEN NoItem ELSE r[n - 1]
      <4>1. CASE n = 1
        <5>1. k = 1 /\ k = n
          BY <2>2, <4>1
        <5> QED  BY <2>5, <2>6, <4>1, <5>1
      <4>2. CASE n # 1
        <5>1. 1 \in 1..(n - 1) /\ n - 1 \in 1..(n - 1) /\ n - 1 # 0 /\ (k = 1 <=> ~(1 < k))
              /\ (k = n <=> n - 1 < k) /\ n - 1 + 1 = n
          <6>1. n \in Nat /\ k \in 1..n /\ n # 1
            BY <2>1, <2>2, <4>2
          <6> HIDE DEF n
          <6> QED  BY <6>1
        <5>2. r[1] = (IF k = 1 THEN contents[2] ELSE contents[1])
              /\ r[n - 1] = (IF k = n THEN contents[n - 1] ELSE contents[n])
          BY <2>3, <5>1
        <5>3. head' = r[1]
          BY <2>4, <2>5, <2>6, <4>2, <5>2
        <5>4. tail' = r[n - 1]
          BY <2>4, <2>5, <2>6, <4>2, <5>2
        <5> QED  BY <5>1, <5>3, <5>4
      <4> QED  BY <4>1, <4>2
    <3>5. Len(r) = n - 1 /\ count' = n - 1
      BY <2>3, <2>6
    <3> HIDE DEF r, n, v
    <3> QED  BY <2>1, <2>9, <3>1, <3>2, <3>3, <3>4, <3>5 DEF Represents, Linked, r
  <2>11. Calls'
    <3>1. ASSUME NEW o \in Threads \ {th}
          PROVE  /\ pc[o] = "append" => arg[o] \notin ToSet(contents)'
                 /\ usage = "tasks" /\ pc[o] = "delete" => arg[o] \in ToSet(contents)'
      BY <1>1, <2>1, <2>3 DEF IInv, Calls, Owns
    <3> QED  BY <1>1, <2>6, <3>1, ReturnCalls
  <2>12. PopFinds'
    <3>1. \A o \in Threads : pc'[o] # "pop"
      BY <1>1, <2>6 DEF IInv, Represents, TypeOK, Calls, Returns
    <3> QED  BY <3>1 DEF PopFinds
  <2> QED  BY <2>8, <2>10, <2>11, <2>12 DEF IInv
<1> QED  BY <1>2, <1>3

(* The critical section of list_pop: only the master pops, so the list is  *)
(* still not empty, and its second element becomes the first.              *)
LEMMA PopIInv ==
    ASSUME ListAssumption, IInv, NEW th \in Threads, PopLocked(th) PROVE IInv'
<1> DEFINE n == Len(contents)
           r == contents'
           v == head
           after == next[head]
<1>1. /\ contents \in Seq(Items) /\ n \in Nat
      /\ \A j \in 1..n : contents[j] \in Range(contents) /\ contents[j] \in Items
      /\ \A j, m \in 1..n : contents[j] = contents[m] => j = m
      /\ ToSet(contents)' = Range(r) /\ ToSet(contents) = Range(contents)
  BY ListFacts, ToSetIsRange DEF IInv, NoRepeats
<1>2. /\ n # 0 /\ v = contents[1] /\ v \in Items /\ contents # <<>>
      /\ after = IF n = 1 THEN NoItem ELSE contents[2]
      /\ prev[v] = NoItem /\ count = n /\ tail = contents[n]
      /\ pc[th] = "pop" /\ usage' = usage /\ usage = "events" /\ th = Master
      /\ next \in [Items -> OrNull] /\ prev \in [Items -> OrNull]
  <2>1. /\ n # 0 /\ v = contents[1] /\ 1 \in 1..n /\ count = n /\ tail = contents[n]
        /\ pc[th] = "pop" /\ usage' = usage
    BY <1>1 DEF PopLocked, IInv, Represents
  <2>2. next[contents[1]] = (IF 1 = n THEN NoItem ELSE contents[1 + 1]) /\ prev[contents[1]] = NoItem
    BY <2>1 DEF IInv, Represents
  <2>3. next \in [Items -> OrNull] /\ prev \in [Items -> OrNull]
    BY DEF IInv, Represents, TypeOK
  <2>4. usage = "events" /\ th = Master
    BY <2>1 DEF IInv, Represents, TypeOK, Calls
  <2> QED  BY <1>1, <2>1, <2>2, <2>3, <2>4
<1>3. /\ n = 1 <=> after = NoItem
      /\ n # 1 => after = contents[2] /\ after \in Items /\ after # v /\ 2 \in 1..n
  <2>1. n # 1 => 2 \in 1..n
    BY <1>1, <1>2
  <2> QED  BY <1>1, <1>2, <2>1 DEF ListAssumption
<1>4. /\ r \in Seq(Items) /\ Len(r) = n - 1
      /\ \A j \in 1..(n - 1) : r[j] = contents[j + 1]
      /\ Range(r) = Range(contents) \ {v}
  <2>1. r = Tail(contents)
    BY DEF PopLocked
  <2> QED  BY <1>1, <1>2, <2>1, TailRange
<1>5. /\ head' = after
      /\ tail' = (IF n = 1 THEN NoItem ELSE tail)
      /\ next' = [next EXCEPT ![v] = NoItem]
      /\ prev' = IF n = 1 THEN prev ELSE [prev EXCEPT ![after] = NoItem]
      /\ count' = n - 1 /\ Returns(th, "pop", v, TRUE)
  BY <1>2, <1>3 DEF PopLocked, Cleared, Fewer
<1> HIDE DEF after, v
<1>6. NoRepeats'
  BY <1>1, <1>4 DEF NoRepeats
<1>7. TypeOK'
  <2>1. count' \in 0..Cardinality(Items)
    BY <1>4, <1>5, <1>6, NotTooLong, NoDuplicates DEF ListAssumption, NoRepeats
  <2>2. head' \in OrNull /\ tail' \in OrNull
    BY <1>1, <1>2, <1>3, <1>5 DEF OrNull
  <2>3. next' \in [Items -> OrNull] /\ prev' \in [Items -> OrNull]
    BY <1>2, <1>3, <1>5 DEF OrNull
  <2>4. /\ pc' \in [Threads -> {"idle", "append", "delete", "pop"}]
        /\ arg' \in [Threads -> OrNull] /\ result' \in [Threads -> Answer]
    BY <1>2, <1>5 DEF IInv, Represents, TypeOK, Returns, Answer, OrNull
  <2> QED  BY <1>2, <1>4, <2>1, <2>2, <2>3, <2>4 DEF IInv, Represents, TypeOK
<1>8. Represents'
  <2>1. ASSUME NEW j \in 1..(n - 1)
        PROVE  /\ next'[r[j]] = IF j = n - 1 THEN NoItem ELSE r[j + 1]
               /\ prev'[r[j]] = IF j = 1 THEN NoItem ELSE r[j - 1]
    <3>1. /\ j + 1 \in 1..n /\ j + 1 # 1 /\ (j = n - 1 <=> j + 1 = n) /\ n # 1
          /\ (j # n - 1 => j + 1 \in 1..(n - 1)) /\ (j # 1 => j - 1 \in 1..(n - 1) /\ j + 1 # 2)
          /\ j - 1 + 1 = j /\ j + 1 - 1 = j
      BY <1>1
    <3>2. /\ r[j] = contents[j + 1]
          /\ j # n - 1 => r[j + 1] = contents[j + 1 + 1]
          /\ j # 1 => r[j - 1] = contents[j]
      BY <1>4, <3>1
    <3>3. /\ next[contents[j + 1]] = (IF j + 1 = n THEN NoItem ELSE contents[j + 1 + 1])
          /\ prev[contents[j + 1]] = contents[j]
      BY <3>1 DEF IInv, Represents
    <3>4. contents[j + 1] # v /\ contents[j + 1] \in Items /\ (j # 1 => contents[j + 1] # after)
      BY <1>1, <1>2, <1>3, <3>1
    <3>5. j = 1 => contents[j + 1] = after
      BY <1>3, <3>1
    <3> QED  BY <1>2, <1>3, <1>5, <3>1, <3>2, <3>3, <3>4, <3>5
  <2>2. ASSUME NEW x \in Items \ Range(r) PROVE next'[x] = NoItem /\ prev'[x] = NoItem
    <3>1. x # v => x \notin Range(contents) /\ next[x] = NoItem /\ prev[x] = NoItem
      BY <1>1, <1>4, <2>2 DEF IInv, Represents, Linked
    <3> QED  BY <1>2, <1>3, <1>5, <2>2, <3>1
  <2>3. /\ head' = IF n - 1 = 0 THEN NoItem ELSE r[1]
        /\ tail' = IF n - 1 = 0 THEN NoItem ELSE r[n - 1]
    <3>1. CASE n = 1
      BY <1>3, <1>5, <3>1
    <3>2. CASE n # 1
      <4>1. 1 \in 1..(n - 1) /\ n - 1 \in 1..(n - 1) /\ n - 1 # 0 /\ n - 1 + 1 = n
        BY <1>1, <1>2, <3>2
      <4> QED  BY <1>2, <1>3, <1>4, <1>5, <3>2, <4>1
    <3> QED  BY <3>1, <3>2
  <2>4. Len(r) = n - 1 /\ count' = n - 1
    BY <1>4, <1>5
  <2> HIDE DEF r, n
  <2> QED  BY <1>1, <1>7, <2>1, <2>2, <2>3, <2>4 DEF Represents, Linked, r
<1>9. Calls'
  <2>1. ASSUME NEW o \in Threads \ {th}
        PROVE  /\ pc[o] = "append" => arg[o] \notin ToSet(contents)'
               /\ usage = "tasks" /\ pc[o] = "delete" => arg[o] \in ToSet(contents)'
    BY <1>1, <1>2, <1>4 DEF IInv, Calls
  <2> QED  BY <1>2, <1>5, <2>1, ReturnCalls
<1>10. PopFinds'
  <2>1. \A o \in Threads : pc'[o] # "pop"
    BY <1>2, <1>5 DEF IInv, Represents, TypeOK, Calls, Returns
  <2> QED  BY <2>1 DEF PopFinds
<1> QED  BY <1>6, <1>8, <1>9, <1>10 DEF IInv

(* Every step of every thread keeps the invariant.                         *)
LEMMA NextIInv == ASSUME ListAssumption, IInv, [Next]_vars PROVE IInv'
<1>1. CASE UNCHANGED vars
  BY <1>1 DEF vars, listVars, IInv, Represents, TypeOK, NoRepeats, Calls, Owns, PopFinds, Linked
<1>2. CASE Next
  BY <1>2, GuardIInv, AppendIInv, DeleteIInv, PopIInv DEF Next
<1> QED  BY <1>1, <1>2

(* The inductive invariant holds of every behaviour.                       *)
THEOREM Inductive == Spec => []IInv
<1>1. Init => IInv
  BY InitIInv, ListAssumption
<1>2. IInv /\ [Next]_vars => IInv'
  BY NextIInv, ListAssumption
<1> QED  BY <1>1, <1>2, PTL DEF Spec

(* Head, tail, the pointers of each element and the count of listT.c       *)
(* describe exactly the elements that are in the list.                     *)
THEOREM PointersRepresentList == Spec => []Represents
<1>1. IInv => Represents
  BY DEF IInv
<1> QED  BY <1>1, Inductive, PTL

(* A pop that found the list not empty before it took the mutex follows a  *)
(* head that is still there.                                               *)
THEOREM PopNeverFollowsNull == Spec => []PopFinds
<1>1. IInv => PopFinds
  BY DEF IInv
<1> QED  BY <1>1, Inductive, PTL
-----------------------------------------------------------------------------
(* Each step of a thread is a call of the abstract list, or invisible to   *)
(* the callers.                                                            *)
LEMMA StepsAreCalls ==
    ASSUME ListAssumption, IInv, [Next]_vars
    PROVE  List!Next \/ UNCHANGED <<contents, result>>
<1>1. /\ contents \in Seq(Items) /\ ToSet(contents) = Range(contents)
      /\ \A v \in Items : Misplaced(v) <=> v \notin Range(contents)
      /\ \A v \in Items \ Range(contents) : ~Linked(v)
      /\ count = Len(contents)
      /\ head = IF Len(contents) = 0 THEN NoItem ELSE contents[1]
  BY ListFacts DEF IInv, Represents
<1>2. count = 0 => contents = <<>> /\ Range(contents) = {}
  <2>1. count = 0 => contents = <<>>
    BY <1>1, EmptySeq
  <2> QED  BY <2>1 DEF Range
<1>10. List!ToSet(contents) = ToSet(contents)
  BY DEF List!ToSet, ToSet
<1>3. ASSUME NEW th \in Threads, NEW v \in Items, AppendGuard(th, v)
      PROVE  UNCHANGED <<contents, result>>
  BY <1>1, <1>3 DEF AppendGuard, MayAppend, Locks
<1>4. ASSUME NEW th \in Threads, AppendLocked(th)
      PROVE  List!Next
  <2>1. arg[th] \in Items /\ arg[th] \notin ToSet(contents)
    BY <1>4 DEF AppendLocked, IInv, Represents, TypeOK, OrNull, Calls
  <2>2. List!Add(th, arg[th])
    BY <1>4, <1>10, <2>1 DEF AppendLocked, Returns, List!Add, List!Answers
  <2> QED  BY <2>1, <2>2 DEF List!Next
<1>5. ASSUME NEW th \in Threads, NEW v \in Items, DeleteGuard(th, v)
      PROVE  List!Next \/ UNCHANGED <<contents, result>>
  <2>1. CASE count = 0
    <3>1. v \notin List!ToSet(contents)
      BY <1>1, <1>2, <1>10, <2>1
    <3>2. List!Take(th, v)
      BY <1>5, <2>1, <3>1 DEF DeleteGuard, Returns, List!Take, List!Answers
    <3> QED  BY <3>2 DEF List!Next
  <2>2. CASE count # 0
    BY <1>5, <2>2 DEF DeleteGuard, Locks
  <2> QED  BY <2>1, <2>2
<1>6. ASSUME NEW th \in Threads, DeleteLocked(th)
      PROVE  List!Next
  <2>1. arg[th] \in Items
    BY <1>6 DEF DeleteLocked, IInv, Represents, TypeOK, OrNull, Calls
  <2>2. CASE Misplaced(arg[th])
    <3>1. arg[th] \notin List!ToSet(contents)
      BY <1>1, <1>10, <2>1, <2>2
    <3>2. List!Take(th, arg[th])
      BY <1>6, <2>2, <3>1 DEF DeleteLocked, listVars, Returns, List!Take, List!Answers
    <3> QED  BY <2>1, <3>2 DEF List!Next
  <2>3. CASE ~Misplaced(arg[th])
    <3>1. PICK k \in 1..Len(contents) : arg[th] = contents[k]
      BY <1>1, <2>1, <2>3, ListFacts
    <3>3. contents' = List!RemoveAt(contents, k)
      BY <1>1, <1>6, <2>3, <3>1, RemovedAt DEF DeleteLocked, IInv, NoRepeats, List!RemoveAt, RemoveAt
    <3>2. List!Take(th, arg[th])
      BY <1>6, <2>3, <3>1, <3>3 DEF DeleteLocked, Returns, List!Take, List!Answers
    <3> QED  BY <2>1, <3>2 DEF List!Next
  <2> QED  BY <2>2, <2>3
<1>7. ASSUME NEW th \in Threads, PopGuard(th)
      PROVE  List!Next \/ UNCHANGED <<contents, result>>
  <2>1. CASE count = 0
    <3>1. List!TakeFirst(th)
      BY <1>2, <1>7, <2>1 DEF PopGuard, Returns, List!TakeFirst, List!Answers
    <3> QED  BY <3>1 DEF List!Next
  <2>2. CASE count # 0
    BY <1>7, <2>2 DEF PopGuard, Locks
  <2> QED  BY <2>1, <2>2
<1>8. ASSUME NEW th \in Threads, PopLocked(th)
      PROVE  List!Next
  <2>1. contents # <<>> /\ head = Head(contents)
    BY <1>1, <1>8 DEF PopLocked
  <2>2. List!TakeFirst(th)
    BY <1>8, <2>1 DEF PopLocked, Returns, List!TakeFirst, List!Answers
  <2> QED  BY <2>2 DEF List!Next
<1>9. CASE UNCHANGED vars
  BY <1>9 DEF vars
<1> QED  BY <1>3, <1>4, <1>5, <1>6, <1>7, <1>8, <1>9 DEF Next

(* listT.c, with its unlocked tests and its pointers, is an ordered list   *)
(* to any number of threads.                                               *)
THEOREM ImplementsList == Spec => ListSpec
<1>1. Init => List!Init
  BY DEF Init, List!Init
<1>2. IInv /\ [Next]_vars => [List!Next]_<<contents, result>>
  BY StepsAreCalls, ListAssumption
<1> QED  BY <1>1, <1>2, Inductive, PTL DEF Spec, ListSpec, List!Spec
=============================================================================
