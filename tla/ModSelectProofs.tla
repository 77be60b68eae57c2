-------------------------- MODULE ModSelectProofs --------------------------
(***************************************************************************)
(* Proofs about ModSelect, for any number of tasks that is smaller than    *)
(* the ring's number of slots: the ring loses nothing and no slot is       *)
(* written twice, no waiting task is forgotten, and the module keeps the   *)
(* contract of await.                                                      *)
(***************************************************************************)
EXTENDS ModSelect, QueueLemmas

Slots == 2^StorageBits(MaxFileNo)

(* Every task may be in the ring at once: one slot stays free.  The first  *)
(* conjunct is a fact of arithmetic, which needs an induction to prove.    *)
Room == StorageBits(MaxFileNo) \in Nat /\ Cardinality(Tasks) < Slots

(* Where tasks and their events are: a registered task is scheduled, in    *)
(* the ring or with _tick, and never at two of these places.               *)
Places ==
    /\ fd \in [Tasks -> Fds \cup {NoTask}]
    /\ IsInjective(queue) /\ IsInjective(contents) /\ IsInjective(swap)
    /\ \A t \in Tasks :
         /\ t \in ToSet(queue) => t \notin ToSet(contents) /\ t \notin ToSet(swap)
         /\ t \in ToSet(queue) => pc[t] \in {"run", "hold", "await"}
         /\ t \in ToSet(contents) => t \notin ToSet(swap)
         /\ t \in ToSet(contents) \cup ToSet(swap) => pc[t] \in {"hold", "await"}
         /\ ~panic /\ pc[t] \in {"hold", "await"} =>
              t \in ToSet(queue) \cup ToSet(contents) \cup ToSet(swap)
         /\ t = running => pc[t] \in {"run", "enter", "hold"} /\ (t \in ToSet(queue) => pc[t] = "hold")
         /\ pc[t] \in {"enter", "hold"} => running = t

(* _tick has nothing in its array when it is not running; it is about to   *)
(* push only what is in it.                                                *)
Ticks ==
    /\ tick = "out" => swap = <<>>
    /\ tick = "push" => swap # <<>>
    /\ panic => tick = "out"

IInv == RingHolds /\ Places /\ Ticks

PcS == {"run", "enter", "hold", "await", "done"}
-----------------------------------------------------------------------------
(* A ring of n slots.                                                      *)
Rings(n, S) == [head : 0..n - 1, tail : 0..n - 1, mask : {n - 1}, backend : [0..n - 1 -> S]]

(* Distances and steps on a ring of n slots.                               *)
LEMMA OneTurn ==
    ASSUME NEW n \in Nat \ {0}, NEW h \in 0..n - 1, NEW t \in 0..n - 1
    PROVE  /\ (t - h) % n = IF h <= t THEN t - h ELSE t - h + n
           /\ (t + 1) % n = IF t + 1 < n THEN t + 1 ELSE 0
           /\ \A i \in 1..n : (h + i - 1) % n = IF h + i - 1 < n THEN h + i - 1 ELSE h + i - 1 - n
<1>1. (t - h) % n = IF h <= t THEN t - h ELSE t - h + n
  OBVIOUS
<1>2. (t + 1) % n = IF t + 1 < n THEN t + 1 ELSE 0
  OBVIOUS
<1>3. ASSUME NEW i \in 1..n
      PROVE  (h + i - 1) % n = IF h + i - 1 < n THEN h + i - 1 ELSE h + i - 1 - n
  OBVIOUS
<1> QED  BY <1>1, <1>2, <1>3

(* How much is in a ring, and in which slots.                              *)
LEMMA RingSlots ==
    ASSUME NEW n \in Nat \ {0}, NEW S, NEW r \in Rings(n, S)
    PROVE  /\ Used(r) = IF r.head <= r.tail THEN r.tail - r.head ELSE r.tail - r.head + n
           /\ Used(r) \in 0..n - 1
           /\ \A i \in 1..n :
                Masked(r, r.head + i - 1) = IF r.head + i - 1 < n THEN r.head + i - 1 ELSE r.head + i - 1 - n
<1>1. /\ r.mask + 1 = n /\ r.head \in 0..n - 1 /\ r.tail \in 0..n - 1
  BY DEF Rings
<1>2. (r.tail - r.head) % n = IF r.head <= r.tail THEN r.tail - r.head ELSE r.tail - r.head + n
  BY <1>1, OneTurn
<1>3. ASSUME NEW i \in 1..n
      PROVE  (r.head + i - 1) % n = IF r.head + i - 1 < n THEN r.head + i - 1 ELSE r.head + i - 1 - n
  BY <1>1, OneTurn
<1> QED  BY <1>1, <1>2, <1>3 DEF Used, Masked

(* Two sequences are the same when their items are.                        *)
LEMMA SameItems ==
    ASSUME NEW S, NEW s \in Seq(S), NEW n \in Nat, NEW f \in [1..n -> S],
           n = Len(s), \A i \in 1..n : f[i] = s[i]
    PROVE  f = s
<1>1. f \in Seq(S) /\ Len(f) = n
  OBVIOUS
<1> QED  BY <1>1, SeqEqual

(* ring_push puts an item after what the ring holds, if a slot would stay  *)
(* free.                                                                   *)
LEMMA PushedLast ==
    ASSUME NEW n \in Nat \ {0}, NEW S, NEW r \in Rings(n, S),
           NEW T, NEW c \in Seq(T), Window(r) = c, Len(c) < n - 1,
           NEW v \in S, v \in T
    PROVE  Pushed(r, v) \in Rings(n, S) /\ Window(Pushed(r, v)) = Append(c, v)
<1>1. PICK h \in 0..n - 1, t \in 0..n - 1 : r.head = h /\ r.tail = t
  BY DEF Rings
<1>2. r.mask + 1 = n /\ r.backend \in [0..n - 1 -> S]
  BY DEF Rings
<1>3. PICK u \in 0..n - 2 : u = Len(c) /\ u = Used(r)
  BY RingSlots DEF Window
<1>4. u = IF h <= t THEN t - h ELSE t - h + n
  BY <1>1, <1>3, RingSlots
<1>5. PICK t1 \in 0..n - 1 : t1 = Masked(r, t + 1) /\ t1 = IF t + 1 < n THEN t + 1 ELSE 0
  <2>1. Masked(r, t + 1) = IF t + 1 < n THEN t + 1 ELSE 0
    BY <1>1, <1>2, OneTurn DEF Masked
  <2> QED  BY <1>1, <2>1
<1> DEFINE p == Pushed(r, v)
           a == Append(c, v)
<1>6. /\ p.head = h /\ p.tail = t1 /\ p.mask = r.mask /\ p.backend = [r.backend EXCEPT ![t] = v]
      /\ p \in Rings(n, S)
  BY <1>1, <1>2, <1>5 DEF Pushed, Rings
<1>7. a \in Seq(T) /\ Len(a) = u + 1 /\ a[u + 1] = v /\ \A i \in 1..u : a[i] = c[i]
  <2>1. /\ Append(c, v) \in Seq(T) /\ Len(Append(c, v)) = Len(c) + 1
        /\ Append(c, v)[Len(c) + 1] = v /\ \A i \in 1..Len(c) : Append(c, v)[i] = c[i]
    BY AppendProperties
  <2> QED  BY <1>3, <2>1
<1> HIDE DEF p, a
<1>8. Used(p) = u + 1
  <2>1. Used(p) = IF h <= t1 THEN t1 - h ELSE t1 - h + n
    BY <1>6, RingSlots
  <2> QED  BY <1>3, <1>4, <1>5, <2>1
<1>9. ASSUME NEW i \in 1..u + 1 PROVE p.backend[Masked(p, h + i - 1)] = a[i]
  <2>1. i \in 1..n
    BY <1>3
  <2>2. PICK k \in 0..n - 1 : k = Masked(r, h + i - 1) /\ k = IF h + i - 1 < n THEN h + i - 1 ELSE h + i - 1 - n
    <3>1. Masked(r, h + i - 1) = IF h + i - 1 < n THEN h + i - 1 ELSE h + i - 1 - n
      BY <1>1, <2>1, RingSlots
    <3> QED  BY <2>1, <3>1
  <2>3. Masked(p, h + i - 1) = k
    BY <1>6, <2>2 DEF Masked
  <2>4. CASE i = u + 1
    <3>1. k = t
      BY <1>1, <1>3, <1>4, <2>2, <2>4
    <3> QED  BY <1>2, <1>6, <1>7, <2>3, <2>4, <3>1
  <2>5. CASE i \in 1..u
    <3>1. k # t
      BY <1>1, <1>3, <1>4, <2>2, <2>5
    <3>2. c[i] = r.backend[k]
      BY <1>1, <1>3, <2>2, <2>5 DEF Window
    <3> QED  BY <1>2, <1>6, <1>7, <2>3, <2>5, <3>1, <3>2
  <2> QED  BY <1>3, <2>4, <2>5
<1>10. Window(p) = a
  <2>1. /\ Window(p) = [i \in 1..u + 1 |-> p.backend[Masked(p, h + i - 1)]]
    BY <1>6, <1>8 DEF Window
  <2>2. \A i \in 1..u + 1 : a[i] \in T
    BY <1>3, <1>7
  <2>3. Window(p) \in [1..u + 1 -> T] /\ \A i \in 1..u + 1 : Window(p)[i] = a[i]
    BY <1>9, <2>1, <2>2
  <2> QED  BY <1>3, <1>7, <2>3, SameItems
<1> QED  BY <1>6, <1>10 DEF p, a

(* ring_pop takes the first of what it holds.                              *)
LEMMA PoppedFirst ==
    ASSUME NEW n \in Nat \ {0}, NEW S, NEW r \in Rings(n, S),
           NEW T, NEW c \in Seq(T), Window(r) = c, ~IsEmpty(r),
           NEW null \in S
    PROVE  /\ Popped(r, null) \in Rings(n, S) /\ Window(Popped(r, null)) = Tail(c)
           /\ c # <<>> /\ Oldest(r) = Head(c)
<1>1. PICK h \in 0..n - 1, t \in 0..n - 1 : r.head = h /\ r.tail = t
  BY DEF Rings
<1>2. r.mask + 1 = n /\ r.backend \in [0..n - 1 -> S]
  BY DEF Rings
<1>3. PICK u \in 1..n - 1 : u = Len(c) /\ u = Used(r)
  BY RingSlots DEF Window, IsEmpty
<1>4. u = IF h <= t THEN t - h ELSE t - h + n
  BY <1>1, <1>3, RingSlots
<1>5. PICK h1 \in 0..n - 1 : h1 = Masked(r, h + 1) /\ h1 = IF h + 1 < n THEN h + 1 ELSE 0
  <2>1. Masked(r, h + 1) = IF h + 1 < n THEN h + 1 ELSE 0
    BY <1>1, <1>2, OneTurn DEF Masked
  <2> QED  BY <1>1, <2>1
<1> DEFINE p == Popped(r, null)
           a == Tail(c)
<1>6. /\ p.head = h1 /\ p.tail = t /\ p.mask = r.mask /\ p.backend = [r.backend EXCEPT ![h] = null]
      /\ p \in Rings(n, S)
  BY <1>1, <1>2, <1>5 DEF Popped, Rings
<1>7. /\ c # <<>> /\ Head(c) = c[1]
      /\ a \in Seq(T) /\ Len(a) = u - 1 /\ \A i \in 1..u - 1 : a[i] = c[i + 1]
  <2>1. c # <<>> /\ Head(c) = c[1]
    <3>1. Len(c) # 0
      BY <1>3
    <3> QED  BY <3>1
  <2> QED  BY <1>3, <2>1, HeadTailProperties
<1> HIDE DEF p, a
<1>8. Used(p) = u - 1
  <2>1. Used(p) = IF h1 <= t THEN t - h1 ELSE t - h1 + n
    BY <1>6, RingSlots
  <2> QED  BY <1>3, <1>4, <1>5, <2>1
<1>9. ASSUME NEW i \in 1..u - 1 PROVE p.backend[Masked(p, h1 + i - 1)] = a[i]
  <2>1. i \in 1..n /\ i + 1 \in 1..n /\ i + 1 \in 1..u /\ h + (i + 1) - 1 = h + i
    BY <1>3
  <2>2. PICK k \in 0..n - 1 : k = Masked(r, h + (i + 1) - 1) /\ k = IF h + i < n THEN h + i ELSE h + i - n
    <3>1. Masked(r, h + (i + 1) - 1) =
            IF h + (i + 1) - 1 < n THEN h + (i + 1) - 1 ELSE h + (i + 1) - 1 - n
      <4>1. \A j \in 1..n : Masked(r, r.head + j - 1) =
              IF r.head + j - 1 < n THEN r.head + j - 1 ELSE r.head + j - 1 - n
        BY RingSlots
      <4> QED  BY <1>1, <2>1, <4>1
    <3> QED  BY <2>1, <3>1
  <2>3. Masked(p, h1 + i - 1) = k
    <3>1. Masked(p, h1 + i - 1) = IF h1 + i - 1 < n THEN h1 + i - 1 ELSE h1 + i - 1 - n
      <4>1. \A j \in 1..n : Masked(p, p.head + j - 1) =
              IF p.head + j - 1 < n THEN p.head + j - 1 ELSE p.head + j - 1 - n
        BY <1>6, RingSlots
      <4> QED  BY <1>6, <2>1, <4>1
    <3> QED  BY SMTT(30), <1>3, <1>5, <2>2, <3>1
  <2>4. k # h
    BY <1>3, <2>2
  <2>5. c[i + 1] = r.backend[k]
    BY <1>1, <1>3, <2>1, <2>2 DEF Window
  <2> QED  BY <1>2, <1>6, <1>7, <2>3, <2>4, <2>5
<1>10. Window(p) = a
  <2>1. Window(p) = [i \in 1..u - 1 |-> p.backend[Masked(p, h1 + i - 1)]]
    BY <1>6, <1>8 DEF Window
  <2>2. \A i \in 1..u - 1 : a[i] \in T
    BY <1>3, <1>7
  <2>3. Window(p) \in [1..u - 1 -> T] /\ \A i \in 1..u - 1 : Window(p)[i] = a[i]
    BY <1>9, <2>1, <2>2
  <2> QED  BY <1>3, <1>7, <2>3, SameItems
<1>11. Oldest(r) = Head(c)
  <2>1. c[1] = r.backend[Masked(r, h + 1 - 1)]
    BY <1>1, <1>3 DEF Window
  <2>2. Masked(r, h + 1 - 1) = h
    BY SMTT(30), <1>1, RingSlots
  <2> QED  BY <1>1, <1>7, <2>1, <2>2 DEF Oldest
<1> QED  BY <1>6, <1>7, <1>10, <1>11 DEF p, a
-----------------------------------------------------------------------------
(* What Room says of the ring of the module.                               *)
LEMMA RoomFacts ==
    ASSUME IoTasksAssumption, Room
    PROVE  Slots \in Nat \ {0} /\ Cardinality(Tasks) \in 0..Slots - 1
<1>1. Cardinality(Tasks) \in Nat
  BY FS_CardinalityType DEF IoTasksAssumption
<1>2. Slots \in Int
  BY DEF Room, Slots
<1> QED  BY <1>1, <1>2 DEF Room

LEMMA RingTyped ==
    TypeOK => events \in Rings(Slots, Tasks \cup {NoTask})
BY DEF TypeOK, Rings, Slots

(* The queues hold tasks.                                                  *)
LEMMA InTasks ==
    TypeOK => ToSet(queue) \subseteq Tasks /\ ToSet(contents) \subseteq Tasks /\ ToSet(swap) \subseteq Tasks
BY DEF TypeOK, TasksOK, ToSet

(* There is a slot for the event of a task that has none in the ring.      *)
LEMMA RoomLeft ==
    ASSUME IoTasksAssumption, Room, IInv, NEW t \in Tasks, t \notin ToSet(contents)
    PROVE  Len(contents) < Slots - 1
<1>1. contents \in Seq(Tasks \ {t})
  <2>1. contents \in [1..Len(contents) -> Tasks] /\ Len(contents) \in Nat
    BY DEF IInv, RingHolds, TypeOK
  <2>2. \A i \in 1..Len(contents) : contents[i] # t
    BY <2>1 DEF ToSet
  <2> QED  BY <2>1, <2>2
<1>2. IsFiniteSet(Tasks \ {t}) /\ Cardinality(Tasks \ {t}) = Cardinality(Tasks) - 1
  BY FS_RemoveElement DEF IoTasksAssumption
<1>3. Len(contents) \in 0..Cardinality(Tasks) - 1
  BY <1>1, <1>2, NotTooLong DEF IInv, Places
<1> QED  BY <1>3, RoomFacts

(* Both pushing threads: the event of t comes last.                        *)
LEMMA PushFacts ==
    ASSUME IoTasksAssumption, Room, IInv, NEW t \in Tasks, t \notin ToSet(contents), Push(t)
    PROVE  /\ events' \in Rings(Slots, Tasks \cup {NoTask}) /\ Window(events)' = contents'
           /\ contents' \in Seq(Tasks) /\ IsInjective(contents')
           /\ ToSet(contents') = ToSet(contents) \cup {t}
<1>1. /\ events \in Rings(Slots, Tasks \cup {NoTask}) /\ contents \in Seq(Tasks)
      /\ Window(events) = contents /\ IsInjective(contents)
  BY RingTyped DEF IInv, RingHolds, TypeOK, Places
<1>2. events' = Pushed(events, t) /\ contents' = Append(contents, t)
  BY DEF Push
<1>3. Pushed(events, t) \in Rings(Slots, Tasks \cup {NoTask}) /\ Window(Pushed(events, t)) = Append(contents, t)
  BY <1>1, RoomLeft, RoomFacts, PushedLast
<1>4. /\ Append(contents, t) \in Seq(Tasks) /\ IsInjective(Append(contents, t))
      /\ ToSet(Append(contents, t)) = ToSet(contents) \cup {t}
  BY <1>1, Appended
<1> QED  BY <1>2, <1>3, <1>4

(* Before the first step all tasks are scheduled and the ring is empty.    *)
LEMMA InitIInv == ASSUME IoTasksAssumption, SelectAssumption, Room, Init PROVE IInv
<1>1. queue \in Seq(Tasks) /\ ToSet(queue) = Tasks /\ IsInjective(queue)
  BY ArrayOfAll DEF IoTasksAssumption, Init, TasksInit
<1>2. /\ contents \in Seq(Tasks) /\ swap \in Seq(Tasks) /\ IsInjective(contents) /\ IsInjective(swap)
      /\ ToSet(contents) = {} /\ ToSet(swap) = {} /\ Len(swap) <= MaxFileNo /\ contents = <<>>
  BY DEF Init, ToSet, IsInjective, SelectAssumption
<1>3. \A t \in Tasks : pc[t] = "run" /\ ~InCall(t) /\ fd[t] = NoTask
  BY DEF Init, TasksInit, InCall
<1>4. /\ events = [head |-> 0, tail |-> 0, mask |-> Slots - 1, backend |-> [i \in 0..Slots - 1 |-> NoTask]]
      /\ Slots \in Nat \ {0}
  BY RoomFacts DEF Init, NewRing, Slots
<1>5. events \in Rings(Slots, Tasks \cup {NoTask})
  BY <1>4 DEF Rings
<1>6. Window(events) = <<>>
  <2>1. events.head = 0 /\ events.tail = 0
    BY <1>4
  <2>2. Used(events) = 0
    BY <1>4, <1>5, <2>1, RingSlots
  <2> QED  BY <2>2 DEF Window
<1>7. TypeOK
  BY <1>1, <1>2, <1>3, <1>5 DEF Init, TasksInit, TypeOK, TasksOK, Rings, Slots
<1>8. Places /\ Ticks
  BY <1>1, <1>2, <1>3 DEF Init, TasksInit, Places, Ticks, IoTasksAssumption
<1> QED  BY <1>2, <1>6, <1>7, <1>8 DEF IInv, RingHolds

(* What the invariant says of the running task.                            *)
LEMMA AtFacts ==
    ASSUME IoTasksAssumption, IInv, NEW t \in Tasks, running = t
    PROVE  /\ pc[t] \in {"run", "enter", "hold"}
           /\ \A u \in Tasks \ {t} : pc[u] \in {"run", "await", "done"}
           /\ pc[t] # "hold" => t \notin ToSet(queue) /\ t \notin ToSet(contents) /\ t \notin ToSet(swap)
BY DEF IInv, Places, RingHolds, TypeOK, TasksOK

(* A step that leaves the ring alone.                                      *)
LEMMA RingKept ==
    ASSUME IInv, UNCHANGED ringVars PROVE Window(events)' = contents'
BY DEF IInv, RingHolds, ringVars, Window, Used, Masked

(* A worker pops a task; a call in it returns.                             *)
LEMMA ResumeIInv ==
    ASSUME IoTasksAssumption, IInv, Resume, UNCHANGED <<ringVars, tickVars>>, ready' \in SUBSET Fds
    PROVE  IInv'
<1>0. Head(queue) \in Tasks
  BY FirstGone DEF Resume, IInv, RingHolds, TypeOK, TasksOK, Places
<1> PICK t \in Tasks : t = Head(queue)
  BY <1>0
<1>1. /\ queue' = Tail(queue) /\ running' = t /\ pc' = [pc EXCEPT ![t] = "run"]
      /\ UNCHANGED <<fd, error, events, contents, tick, swap, rfds, efds, status, panic>>
      /\ running = NoTask
  BY DEF Resume, ringVars, tickVars
<1>2. /\ queue' \in Seq(Tasks) /\ IsInjective(queue') /\ t \in ToSet(queue)
      /\ ToSet(queue') = ToSet(queue) \ {t}
  BY <1>1, FirstGone DEF Resume, IInv, RingHolds, TypeOK, TasksOK, Places
<1>3. pc' \in [Tasks -> PcS] /\ pc'[t] = "run" /\ \A u \in Tasks \ {t} : pc'[u] = pc[u]
  BY <1>1, <1>2 DEF IInv, RingHolds, TypeOK, TasksOK, PcS
<1>4. ~InCall(t)' /\ \A u \in Tasks \ {t} : InCall(u)' <=> InCall(u)
  BY <1>3 DEF InCall
<1>5. TypeOK'
  BY <1>1, <1>2, <1>3, <1>4 DEF IInv, RingHolds, TypeOK, TasksOK, PcS
<1>6. Places'
  BY <1>1, <1>2, <1>3 DEF IInv, Places, IoTasksAssumption
<1>7. Ticks'
  BY <1>1 DEF IInv, Ticks
<1> QED  BY <1>5, <1>6, <1>7, RingKept DEF IInv, RingHolds

(* The running task goes on without the module.                            *)
LEMMA TurnIInv ==
    ASSUME IoTasksAssumption, IInv, NEW t \in Tasks, Relax(t) \/ Finish(t) \/ Hold(t),
           UNCHANGED <<ringVars, ready, tickVars>>
    PROVE  IInv'
<1>1. /\ running = t /\ running' = NoTask
      /\ UNCHANGED <<fd, error, events, contents, ready, tick, swap, rfds, efds, status, panic>>
      /\ pc[t] \in {"run", "hold"}
      /\ pc[t] = "run" => t \notin ToSet(queue) /\ t \notin ToSet(contents) /\ t \notin ToSet(swap)
  BY AtFacts DEF Relax, Finish, Hold, At, ringVars, tickVars
<1>2. /\ queue \in Seq(Tasks) /\ pc \in [Tasks -> PcS] /\ IsInjective(queue)
  BY DEF IInv, RingHolds, TypeOK, TasksOK, PcS, Places
<1>3. CASE Relax(t)
  <2>1. queue' \in Seq(Tasks) /\ IsInjective(queue') /\ ToSet(queue') = ToSet(queue) \cup {t}
        /\ pc' = pc /\ pc[t] = "run"
    BY <1>1, <1>2, <1>3, Appended DEF Relax, Enqueue, At
  <2>2. \A u \in Tasks : InCall(u)' <=> InCall(u)
    BY <2>1 DEF InCall
  <2>3. TypeOK'
    BY <1>1, <2>1, <2>2 DEF IInv, RingHolds, TypeOK, TasksOK
  <2>4. Places'
    BY <1>1, <2>1 DEF IInv, Places, IoTasksAssumption
  <2> QED  BY <1>1, <2>3, <2>4, RingKept DEF IInv, RingHolds, Ticks
<1>4. CASE Finish(t) \/ Hold(t)
  <2>1. /\ queue' = queue /\ pc' \in [Tasks -> PcS] /\ \A u \in Tasks \ {t} : pc'[u] = pc[u]
        /\ pc[t] = "run" => pc'[t] = "done"
        /\ pc[t] = "hold" => pc'[t] = "await"
    BY <1>1, <1>2, <1>4 DEF Finish, Hold, At, PcS
  <2>2. \A u \in Tasks : InCall(u)' <=> InCall(u)
    BY <1>1, <2>1 DEF InCall
  <2>3. TypeOK'
    BY <1>1, <2>1, <2>2 DEF IInv, RingHolds, TypeOK, TasksOK, PcS
  <2>4. Places'
    BY <1>1, <2>1 DEF IInv, Places, IoTasksAssumption
  <2> QED  BY <1>1, <2>3, <2>4, RingKept DEF IInv, RingHolds, Ticks
<1> QED  BY <1>3, <1>4

(* monitorA makes its event, or refuses.                                   *)
LEMMA MonitorIInv ==
    ASSUME IoTasksAssumption, IInv, NEW t \in Tasks, NEW f \in Fds, Monitor(t, f)
    PROVE  IInv'
<1>1. /\ UNCHANGED <<queue, running, events, contents, ready, tick, swap, rfds, efds, status, panic>>
      /\ running = t /\ pc[t] = "run"
  BY DEF Monitor, Enter, At, taskVars, ringVars, tickVars
<1>2. CASE Accepts(f)
  <2>1. /\ pc' = [pc EXCEPT ![t] = "enter"] /\ fd' = [fd EXCEPT ![t] = f]
        /\ error' = [error EXCEPT ![t] = FALSE]
    BY <1>2 DEF Monitor, Enter
  <2>2. /\ t \notin ToSet(queue) /\ t \notin ToSet(contents) /\ t \notin ToSet(swap)
    BY <1>1, AtFacts
  <2>3. /\ pc' \in [Tasks -> PcS] /\ fd' \in [Tasks -> Fds \cup {NoTask}] /\ error' \in [Tasks -> BOOLEAN]
        /\ pc'[t] = "enter" /\ fd'[t] = f
        /\ \A u \in Tasks \ {t} : pc'[u] = pc[u] /\ fd'[u] = fd[u]
    BY <2>1 DEF IInv, RingHolds, TypeOK, TasksOK, Places, PcS
  <2>4. \A u \in Tasks \ {t} : InCall(u)' <=> InCall(u)
    BY <2>3 DEF InCall
  <2>5. TypeOK'
    BY <1>1, <2>3, <2>4 DEF IInv, RingHolds, TypeOK, TasksOK, PcS
  <2>6. Places'
    BY <1>1, <2>2, <2>3 DEF IInv, Places
  <2> QED  BY <1>1, <2>5, <2>6, RingKept DEF IInv, RingHolds, Ticks, ringVars
<1>3. CASE ~Accepts(f)
  <2>1. UNCHANGED <<pc, fd, error>>
    BY <1>3 DEF Monitor, taskVars
  <2>2. \A u \in Tasks : InCall(u)' <=> InCall(u)
    BY <2>1 DEF InCall
  <2>3. TypeOK' /\ Places' /\ Ticks'
    BY <1>1, <2>1, <2>2 DEF IInv, RingHolds, TypeOK, TasksOK, Places, Ticks
  <2> QED  BY <1>1, <2>3, RingKept DEF IInv, RingHolds, ringVars
<1> QED  BY <1>2, <1>3

(* monitorA pushes its event.                                              *)
LEMMA PushEventIInv ==
    ASSUME IoTasksAssumption, Room, IInv, NEW t \in Tasks, PushEvent(t)
    PROVE  IInv'
<1>1. /\ running = t /\ pc[t] = "enter" /\ pc' = [pc EXCEPT ![t] = "hold"] /\ Push(t)
      /\ UNCHANGED <<queue, running, fd, error, ready, tick, swap, rfds, efds, status, panic>>
  BY DEF PushEvent, Register, At, tickVars
<1>2. t \notin ToSet(queue) /\ t \notin ToSet(contents) /\ t \notin ToSet(swap)
  BY <1>1, AtFacts
<1>3. /\ events' \in Rings(Slots, Tasks \cup {NoTask}) /\ Window(events)' = contents'
      /\ contents' \in Seq(Tasks) /\ IsInjective(contents')
      /\ ToSet(contents') = ToSet(contents) \cup {t}
  BY <1>1, <1>2, PushFacts
<1>4. pc' \in [Tasks -> PcS] /\ pc'[t] = "hold" /\ \A u \in Tasks \ {t} : pc'[u] = pc[u]
  BY <1>1 DEF IInv, RingHolds, TypeOK, TasksOK, PcS
<1>5. \A u \in Tasks : InCall(u)' <=> InCall(u)
  BY <1>1, <1>4 DEF InCall
<1>6. TypeOK'
  BY <1>1, <1>3, <1>4, <1>5 DEF IInv, RingHolds, TypeOK, TasksOK, PcS, Rings, Slots
<1>7. Places'
  BY <1>1, <1>2, <1>3, <1>4 DEF IInv, Places
<1> QED  BY <1>1, <1>3, <1>6, <1>7 DEF IInv, RingHolds, Ticks

(* _tick starts, calls select, ends, or a descriptor becomes ready or is   *)
(* drained: no event moves.                                                *)
LEMMA StillIInv ==
    ASSUME IoTasksAssumption, IInv, UNCHANGED <<taskVars, ringVars>>,
           TickStart \/ (\E exceptional \in SUBSET Fds : Select(exceptional)) \/ SelectFailure
             \/ TickEnd \/ (\E t \in Tasks : Drain(t)) \/ (\E f \in Fds : Arrive(f))
    PROVE  IInv'
<1>1. UNCHANGED <<queue, running, pc, fd, error, events, contents>>
  BY DEF taskVars, ringVars
<1>2. swap' = swap
  BY DEF TickStart, Select, SelectFailure, TickEnd, Drain, Arrive, tickVars, IInv, Ticks
<1>3. \A u \in Tasks : InCall(u)' <=> InCall(u)
  BY <1>1 DEF InCall
<1>4. Watched \subseteq Fds /\ Untouched \subseteq Fds
  <2>1. \A i \in 1..Len(swap) : swap[i] \in ToSet(swap) /\ swap[i] \in Tasks
    BY DEF IInv, RingHolds, TypeOK, ToSet
  <2> QED  BY <2>1 DEF IInv, Places, Given, Watched, Untouched, RingHolds, TypeOK, TasksOK, InCall
<1>5. /\ ready' \in SUBSET Fds /\ rfds' \in SUBSET Fds /\ efds' \in SUBSET Fds
      /\ tick' \in {"out", "swap", "select", "scan", "push"}
      /\ status' \in {"again", "panic"} /\ panic' \in BOOLEAN
  BY <1>4 DEF TickStart, Select, SelectFailure, TickEnd, Drain, Arrive, tickVars, IInv, RingHolds, TypeOK
<1>6. TypeOK'
  BY <1>1, <1>2, <1>3, <1>5 DEF IInv, RingHolds, TypeOK, TasksOK
<1>7. Places'
  <2>1. panic => panic'
    BY DEF TickStart, Select, SelectFailure, TickEnd, Drain, Arrive, tickVars, IInv, Ticks
  <2> QED  BY <1>1, <1>2, <2>1 DEF IInv, Places
<1>8. Ticks'
  BY <1>2 DEF TickStart, Select, SelectFailure, TickEnd, Drain, Arrive, tickVars, IInv, Ticks
<1> QED  BY <1>6, <1>7, <1>8, RingKept DEF IInv, RingHolds

(* _tick takes the oldest event out of the ring.                           *)
LEMMA SwapIInv ==
    ASSUME IoTasksAssumption, SelectAssumption, Room, IInv, TickSwap PROVE IInv'
<1>1. /\ UNCHANGED <<queue, running, pc, fd, error, ready, rfds, efds, status, panic>>
      /\ tick = "swap"
  BY DEF TickSwap, taskVars
<1>2. \A u \in Tasks : InCall(u)' <=> InCall(u)
  BY <1>1 DEF InCall
<1>3. CASE Len(swap) >= MaxFileNo \/ IsEmpty(events)
  <2>1. tick' = "select" /\ UNCHANGED <<swap, events, contents>>
    BY <1>3 DEF TickSwap, ringVars
  <2>2. TypeOK' /\ Places' /\ Ticks'
    BY <1>1, <1>2, <2>1 DEF IInv, RingHolds, TypeOK, TasksOK, Places, Ticks
  <2> QED  BY <2>1, <2>2, RingKept DEF IInv, RingHolds, ringVars
<1>4. CASE ~(Len(swap) >= MaxFileNo \/ IsEmpty(events))
  <2>1. /\ events \in Rings(Slots, Tasks \cup {NoTask}) /\ contents \in Seq(Tasks)
        /\ Window(events) = contents /\ IsInjective(contents)
    BY RingTyped DEF IInv, RingHolds, TypeOK, Places
  <2>2. /\ Popped(events, NoTask) \in Rings(Slots, Tasks \cup {NoTask})
        /\ Window(Popped(events, NoTask)) = Tail(contents)
        /\ contents # <<>> /\ Oldest(events) = Head(contents)
    BY SMTT(30), <1>4, <2>1, RoomFacts, PoppedFirst
  <2>3. PICK t \in Tasks : t = Head(contents) /\ t \in ToSet(contents)
    BY <2>1, <2>2, FirstGone
  <2>4. /\ swap' = Append(swap, t) /\ events' = Popped(events, NoTask) /\ contents' = Tail(contents)
        /\ tick' = tick
    BY <1>4, <2>2, <2>3 DEF TickSwap
  <2>5. /\ contents' \in Seq(Tasks) /\ IsInjective(contents') /\ ToSet(contents') = ToSet(contents) \ {t}
    BY <2>1, <2>2, <2>3, <2>4, FirstGone
  <2>6. t \notin ToSet(swap) /\ swap \in Seq(Tasks) /\ IsInjective(swap)
    BY <2>3 DEF IInv, RingHolds, TypeOK, Places
  <2>7. swap' \in Seq(Tasks) /\ IsInjective(swap') /\ ToSet(swap') = ToSet(swap) \cup {t}
    BY <2>4, <2>6, Appended
  <2>8. Len(swap') <= MaxFileNo
    BY <1>4, <2>4, <2>6 DEF SelectAssumption
  <2>9. TypeOK'
    BY <1>1, <1>2, <2>2, <2>4, <2>5, <2>7, <2>8 DEF IInv, RingHolds, TypeOK, TasksOK, Rings, Slots
  <2>10. Places'
    BY <1>1, <2>3, <2>5, <2>6, <2>7 DEF IInv, Places
  <2>11. Ticks' /\ Window(events)' = contents'
    BY <1>1, <2>2, <2>4 DEF IInv, Ticks
  <2> QED  BY <2>9, <2>10, <2>11 DEF IInv, RingHolds
<1> QED  BY <1>3, <1>4

(* The first event in the array of _tick.                                  *)
LEMMA FirstOfSwap ==
    ASSUME IInv, swap # <<>>
    PROVE  \E t \in Tasks :
             /\ t = Head(swap) /\ t \in ToSet(swap)
             /\ t \notin ToSet(queue) /\ t \notin ToSet(contents) /\ pc[t] \in {"hold", "await"}
             /\ Tail(swap) \in Seq(Tasks) /\ IsInjective(Tail(swap))
             /\ ToSet(Tail(swap)) = ToSet(swap) \ {t} /\ Len(Tail(swap)) <= Len(swap)
<1>1. /\ Head(swap) \in Tasks /\ Head(swap) \in ToSet(swap)
      /\ Tail(swap) \in Seq(Tasks) /\ IsInjective(Tail(swap))
      /\ ToSet(Tail(swap)) = ToSet(swap) \ {Head(swap)}
  BY FirstGone DEF IInv, RingHolds, TypeOK, Places
<1>2. Len(Tail(swap)) <= Len(swap)
  BY DEF IInv, RingHolds, TypeOK
<1> QED  BY <1>1, <1>2 DEF IInv, Places

(* _tick wakes a task.                                                     *)
LEMMA WakeIInv ==
    ASSUME IoTasksAssumption, SelectAssumption, IInv, TickWake PROVE IInv'
<1>1. PICK t \in Tasks :
        /\ t = Head(swap) /\ t \in ToSet(swap)
        /\ t \notin ToSet(queue) /\ t \notin ToSet(contents) /\ pc[t] \in {"hold", "await"}
        /\ Tail(swap) \in Seq(Tasks) /\ IsInjective(Tail(swap))
        /\ ToSet(Tail(swap)) = ToSet(swap) \ {t} /\ Len(Tail(swap)) <= Len(swap)
  BY FirstOfSwap DEF TickWake
<1>2. /\ tick = "scan" /\ swap' = Tail(swap) /\ queue' = Append(queue, t)
      /\ error' = [error EXCEPT ![t] = fd[t] \in efds]
      /\ UNCHANGED <<running, pc, fd, events, contents, ready, tick, rfds, efds, status, panic>>
  BY <1>1 DEF TickWake, Enqueue, ringVars
<1>3. queue' \in Seq(Tasks) /\ IsInjective(queue') /\ ToSet(queue') = ToSet(queue) \cup {t}
  BY <1>1, <1>2, Appended DEF IInv, RingHolds, TypeOK, TasksOK, Places
<1>4. \A u \in Tasks : InCall(u)' <=> InCall(u)
  BY <1>2 DEF InCall
<1>5. error' \in [Tasks -> BOOLEAN]
  BY <1>2 DEF IInv, RingHolds, TypeOK, TasksOK
<1>6. Len(swap') <= MaxFileNo
  BY <1>1, <1>2 DEF IInv, RingHolds, TypeOK, SelectAssumption
<1>7. TypeOK'
  BY <1>1, <1>2, <1>3, <1>4, <1>5, <1>6 DEF IInv, RingHolds, TypeOK, TasksOK
<1>8. Places'
  BY <1>1, <1>2, <1>3 DEF IInv, Places
<1> QED  BY <1>2, <1>7, <1>8, RingKept DEF IInv, RingHolds, Ticks, ringVars

(* _tick looks for a free slot.                                            *)
LEMMA TestIInv ==
    ASSUME IoTasksAssumption, SelectAssumption, IInv, TickTest PROVE IInv'
<1>1. /\ UNCHANGED <<queue, running, pc, fd, error, events, contents, ready, rfds, efds, status>>
      /\ tick = "scan" /\ swap # <<>>
  BY DEF TickTest, taskVars, ringVars
<1>2. \A u \in Tasks : InCall(u)' <=> InCall(u)
  BY <1>1 DEF InCall
<1>3. CASE IsFull(events)
  <2>1. tick' = "out" /\ panic' = TRUE /\ swap' = <<>>
    BY <1>3 DEF TickTest
  <2>2. swap' \in Seq(Tasks) /\ IsInjective(swap') /\ ToSet(swap') = {} /\ Len(swap') <= MaxFileNo
    BY <2>1 DEF IsInjective, ToSet, SelectAssumption
  <2>3. TypeOK' /\ Places' /\ Ticks'
    BY <1>1, <1>2, <2>1, <2>2 DEF IInv, RingHolds, TypeOK, TasksOK, Places, Ticks
  <2> QED  BY <1>1, <2>3, RingKept DEF IInv, RingHolds, ringVars
<1>4. CASE ~IsFull(events)
  <2>1. tick' = "push" /\ UNCHANGED <<panic, swap>>
    BY <1>4 DEF TickTest
  <2>2. TypeOK' /\ Places' /\ Ticks'
    BY <1>1, <1>2, <2>1 DEF IInv, RingHolds, TypeOK, TasksOK, Places, Ticks
  <2> QED  BY <1>1, <2>2, RingKept DEF IInv, RingHolds, ringVars
<1> QED  BY <1>3, <1>4

(* _tick pushes an event back: the task may have pushed others meanwhile.  *)
LEMMA PushIInv ==
    ASSUME IoTasksAssumption, SelectAssumption, Room, IInv, TickPush PROVE IInv'
<1>0. swap # <<>>
  BY DEF TickPush, IInv, Ticks
<1>1. PICK t \in Tasks :
        /\ t = Head(swap) /\ t \in ToSet(swap)
        /\ t \notin ToSet(queue) /\ t \notin ToSet(contents) /\ pc[t] \in {"hold", "await"}
        /\ Tail(swap) \in Seq(Tasks) /\ IsInjective(Tail(swap))
        /\ ToSet(Tail(swap)) = ToSet(swap) \ {t} /\ Len(Tail(swap)) <= Len(swap)
  BY <1>0, FirstOfSwap
<1>2. /\ swap' = Tail(swap) /\ tick' = "scan" /\ tick = "push" /\ Push(t)
      /\ UNCHANGED <<queue, running, pc, fd, error, ready, rfds, efds, status, panic>>
  BY <1>1 DEF TickPush, taskVars
<1>3. /\ events' \in Rings(Slots, Tasks \cup {NoTask}) /\ Window(events)' = contents'
      /\ contents' \in Seq(Tasks) /\ IsInjective(contents')
      /\ ToSet(contents') = ToSet(contents) \cup {t}
  BY <1>1, <1>2, PushFacts
<1>4. \A u \in Tasks : InCall(u)' <=> InCall(u)
  BY <1>2 DEF InCall
<1>5. Len(swap') <= MaxFileNo
  BY <1>1, <1>2 DEF IInv, RingHolds, TypeOK, SelectAssumption
<1>6. TypeOK'
  BY <1>1, <1>2, <1>3, <1>4, <1>5 DEF IInv, RingHolds, TypeOK, TasksOK, Rings, Slots
<1>7. Places'
  BY <1>1, <1>2, <1>3 DEF IInv, Places
<1> QED  BY <1>2, <1>3, <1>6, <1>7 DEF IInv, RingHolds, Ticks

(* Every step keeps the invariant.                                         *)
LEMMA NextIInv ==
    ASSUME IoTasksAssumption, SelectAssumption, Room, IInv, [Next]_vars PROVE IInv'
<1>1. CASE UNCHANGED vars
  <2>1. TypeOK' /\ Places' /\ Ticks'
    BY <1>1 DEF vars, taskVars, ringVars, tickVars, IInv, RingHolds, TypeOK, TasksOK, Places, Ticks, InCall
  <2> QED  BY <1>1, <2>1, RingKept DEF vars, IInv, RingHolds
<1>2. CASE WorkerStep
  <2>1. UNCHANGED ready => (ready' \in SUBSET Fds)
    BY DEF IInv, RingHolds, TypeOK
  <2> QED  BY <1>2, <2>1, ResumeIInv, TurnIInv, MonitorIInv, PushEventIInv DEF WorkerStep, Turn
<1>3. CASE TickSwap \/ TickWake \/ TickTest \/ TickPush
  BY <1>3, SwapIInv, WakeIInv, TestIInv, PushIInv
<1>4. CASE TickStart \/ (\E exceptional \in SUBSET Fds : Select(exceptional)) \/ SelectFailure
             \/ TickEnd \/ (\E t \in Tasks : Drain(t)) \/ (\E f \in Fds : Arrive(f))
  <2>1. UNCHANGED <<taskVars, ringVars>>
    BY <1>4 DEF TickStart, Select, SelectFailure, TickEnd, Drain, Arrive
  <2> QED  BY <1>4, <2>1, StillIInv
<1> QED  BY <1>1, <1>2, <1>3, <1>4 DEF Next, TickStep, TickIdle

(* The inductive invariant holds of every behaviour.                       *)
THEOREM Inductive == ASSUME Room PROVE Spec => []IInv
<1>1. Init => IInv
  BY InitIInv, IoTasksAssumption, SelectAssumption
<1>2. IInv /\ [Next]_vars => IInv'
  BY NextIInv, IoTasksAssumption, SelectAssumption
<1> QED  BY <1>1, <1>2, PTL DEF Spec

(* The ring holds what was pushed and not popped, in that order, although  *)
(* monitorA and _tick test for a free slot before they take the mutex.     *)
THEOREM RingIsAQueue == ASSUME Room PROVE Spec => []RingHolds
<1>1. IInv => RingHolds
  BY DEF IInv
<1> QED  BY <1>1, Inductive, PTL

(* Until the module panics a task that sleeps in monitorA is scheduled, in *)
(* the ring or with _tick, and only once.                                  *)
THEOREM NoWaiterIsForgotten == ASSUME Room PROVE Spec => []NoneForgotten
<1>1. ASSUME IInv PROVE NoneForgotten
  <2>1. /\ queue \in Seq(Tasks) /\ contents \in Seq(Tasks) /\ swap \in Seq(Tasks) /\ Window(events) = contents
    BY <1>1 DEF IInv, RingHolds, TypeOK, TasksOK
  <2> DEFINE held == contents \o swap
  <2>2. held \in Seq(Tasks) /\ IsInjective(held) /\ ToSet(held) = ToSet(contents) \cup ToSet(swap)
    <3>1. ToSet(contents) \cap ToSet(swap) = {}
      BY <1>1, InTasks DEF IInv, RingHolds, Places
    <3> QED  BY <1>1, <2>1, <3>1, Joined DEF IInv, Places
  <2> HIDE DEF held
  <2>3. IsInjective(queue \o held) /\ ToSet(queue \o held) = ToSet(queue) \cup ToSet(held)
    <3>1. ToSet(queue) \cap ToSet(held) = {}
      BY <1>1, <2>2, InTasks DEF IInv, RingHolds, Places
    <3> QED  BY <1>1, <2>1, <2>2, <3>1, Joined DEF IInv, Places
  <2>4. \A t \in ToSet(held) : InCall(t)
    BY <1>1, <2>2, InTasks DEF IInv, RingHolds, Places, InCall
  <2>5. ~panic => \A t \in Tasks : pc[t] = "await" => t \in ToSet(queue \o held)
    BY <1>1, <2>2, <2>3 DEF IInv, Places
  <2> QED  BY <2>1, <2>3, <2>4, <2>5 DEF NoneForgotten, held
<1> QED  BY <1>1, Inductive, PTL
-----------------------------------------------------------------------------
(* What the contract of await sees of a task.                              *)
Stays(t) ==
    /\ InCall(t)' <=> InCall(t)
    /\ InCall(t) => (t \in ToSet(queue)' <=> t \in ToSet(queue))
    /\ InCall(t) /\ t \in ToSet(queue) => (error'[t] <=> error[t])

(* A step that changes nothing of it is a stutter.                         *)
LEMMA AllStay == (\A t \in Tasks : Stays(t)) => UNCHANGED Awaits
BY DEF Stays, Awaits

(* A step that changes it for one task moves the call of that task.        *)
LEMMA OneMoves ==
    ASSUME NEW t \in Tasks, \A u \in Tasks \ {t} : Stays(u),
           NEW from, NEW to, Awaits[t] \in from, Awaits'[t] = to
    PROVE  Io!Move(t, from, to)
<1>1. \A u \in Tasks \ {t} : Awaits'[u] = Awaits[u]
  BY DEF Stays, Awaits
<1>2. Awaits' = [Awaits EXCEPT ![t] = to]
  BY <1>1 DEF Awaits
<1> QED  BY <1>2 DEF Io!Move

(* A worker pops a task: its call, if it is in one, returns.               *)
LEMMA ResumeImplements ==
    ASSUME IoTasksAssumption, IInv, Resume PROVE [Io!Next]_Awaits
<1>1. PICK t \in Tasks : t = Head(queue) /\ t \in ToSet(queue)
  BY FirstGone DEF Resume, IInv, RingHolds, TypeOK, TasksOK, Places
<1>2. /\ ToSet(queue') = ToSet(queue) \ {t} /\ pc' = [pc EXCEPT ![t] = "run"] /\ error' = error
  BY <1>1, FirstGone DEF Resume, IInv, RingHolds, TypeOK, TasksOK, Places
<1>3. ~InCall(t)' /\ \A u \in Tasks \ {t} : Stays(u)
  BY <1>2 DEF IInv, RingHolds, TypeOK, TasksOK, InCall, Stays
<1>4. CASE InCall(t)
  <2>1. Awaits[t] \in {"ready", "failed"} /\ Awaits'[t] = "none"
    BY <1>1, <1>3, <1>4 DEF Awaits
  <2> QED  BY <1>3, <2>1, OneMoves DEF Io!Next, Io!Return
<1>5. CASE ~InCall(t)
  BY <1>3, <1>5, AllStay DEF Stays
<1> QED  BY <1>4, <1>5

(* monitorA goes on with its event: the call waits; or it refuses, and the *)
(* contract sees no call.                                                  *)
LEMMA MonitorImplements ==
    ASSUME IoTasksAssumption, IInv, NEW t \in Tasks, NEW f \in Fds, Monitor(t, f)
    PROVE  [Io!Next]_Awaits
<1>1. CASE Accepts(f)
  <2>1. /\ running = t /\ pc[t] = "run" /\ pc' = [pc EXCEPT ![t] = "enter"]
        /\ error' = [error EXCEPT ![t] = FALSE] /\ queue' = queue
    BY <1>1 DEF Monitor, Enter, At
  <2>2. ~InCall(t) /\ t \notin ToSet(queue)
    BY <2>1, AtFacts DEF InCall
  <2>3. InCall(t)' /\ \A u \in Tasks \ {t} : Stays(u)
    BY <2>1 DEF IInv, RingHolds, TypeOK, TasksOK, InCall, Stays
  <2>4. Awaits[t] = "none" /\ Awaits'[t] = "waiting"
    BY <2>1, <2>2, <2>3 DEF Awaits
  <2> QED  BY <2>3, <2>4, OneMoves DEF Io!Next, Io!Await
<1>2. CASE ~Accepts(f)
  BY <1>2, AllStay DEF Monitor, taskVars, Stays, InCall
<1> QED  BY <1>1, <1>2

(* _tick schedules a task with or without IOERR: its call is ready or has  *)
(* failed.                                                                 *)
LEMMA WakeImplements ==
    ASSUME IoTasksAssumption, IInv, TickWake PROVE [Io!Next]_Awaits
<1>1. PICK t \in Tasks : t = Head(swap) /\ t \notin ToSet(queue) /\ pc[t] \in {"hold", "await"}
  BY FirstOfSwap DEF TickWake
<1> DEFINE isErr == fd[t] \in efds
<1>2. InCall(t) /\ pc' = pc /\ queue' = Append(queue, t) /\ error' = [error EXCEPT ![t] = isErr]
  BY <1>1 DEF TickWake, Enqueue, InCall
<1>3. ToSet(queue') = ToSet(queue) \cup {t}
  BY <1>1, <1>2, Appended DEF IInv, RingHolds, TypeOK, TasksOK, Places
<1>4. InCall(t)' /\ error'[t] = isErr /\ \A u \in Tasks \ {t} : Stays(u)
  BY <1>2, <1>3 DEF IInv, RingHolds, TypeOK, TasksOK, InCall, Stays
<1>5. Awaits[t] = "waiting" /\ Awaits'[t] = (IF isErr THEN "failed" ELSE "ready")
  BY <1>1, <1>2, <1>3, <1>4 DEF Awaits
<1> QED  BY <1>4, <1>5, OneMoves DEF Io!Next, Io!Wake, Io!Fail

(* Every step of modselect.c is a step of the contract, or none.           *)
LEMMA StepImplements ==
    ASSUME IoTasksAssumption, IInv, [Next]_vars PROVE [Io!Next]_Awaits
<1>1. CASE UNCHANGED <<queue, pc, error>>
  BY <1>1, AllStay DEF Stays, InCall
<1>2. ASSUME NEW t \in Tasks, Relax(t) \/ Finish(t) \/ Hold(t) \/ PushEvent(t)
      PROVE  [Io!Next]_Awaits
  <2>1. /\ running = t /\ error' = error /\ \A u \in Tasks : u # t => pc'[u] = pc[u]
        /\ InCall(t)' <=> InCall(t)
        /\ Relax(t) => pc' = pc /\ pc[t] = "run" /\ ~InCall(t)
    BY <1>2 DEF Relax, Finish, Hold, PushEvent, Register, At, InCall, IInv, RingHolds, TypeOK, TasksOK
  <2>2. ASSUME NEW u \in Tasks, InCall(u) PROVE u \in ToSet(queue)' <=> u \in ToSet(queue)
    <3>1. CASE Relax(t)
      <4>1. t \notin ToSet(queue) /\ queue' = Append(queue, t) /\ u # t
        BY <2>1, <2>2, <3>1, AtFacts DEF Relax, Enqueue, At
      <4> QED  BY <4>1, Appended DEF IInv, RingHolds, TypeOK, TasksOK, Places
    <3>2. CASE ~Relax(t)
      BY <1>2, <3>2 DEF Finish, Hold, PushEvent, Register
    <3> QED  BY <3>1, <3>2
  <2> QED  BY <2>1, <2>2, AllStay DEF Stays, InCall
<1>3. CASE WorkerStep
  BY <1>2, <1>3, ResumeImplements, MonitorImplements DEF WorkerStep, Turn
<1>4. CASE TickStep
  <2>1. TickStart \/ TickSwap \/ SelectFailure \/ TickTest \/ TickPush \/ TickEnd
          \/ (\E exceptional \in SUBSET Fds : Select(exceptional)) => UNCHANGED <<queue, pc, error>>
    BY DEF TickStart, TickSwap, SelectFailure, TickTest, TickPush, TickEnd, Select, taskVars
  <2> QED  BY <1>1, <1>4, <2>1, WakeImplements DEF TickStep
<1>5. CASE (\E t \in Tasks : Drain(t)) \/ (\E f \in Fds : Arrive(f))
  BY <1>1, <1>5 DEF Drain, Arrive, taskVars
<1> QED  BY <1>1, <1>3, <1>4, <1>5 DEF Next, TickIdle, vars, taskVars

(* modselect.c keeps the contract of await: a call waits, is woken once,   *)
(* as ready or with IOERR, and returns; a refused call is none.            *)
THEOREM KeepsContract == ASSUME Room PROVE Spec => IoSpec
<1>1. Init => Io!Init
  BY DEF Init, TasksInit, Io!Init, Awaits, InCall
<1>2. IInv /\ [Next]_vars => [Io!Next]_Awaits
  BY StepImplements, IoTasksAssumption
<1> QED  BY <1>1, <1>2, Inductive, PTL DEF Spec, IoSpec, Io!Spec
============================================================================
