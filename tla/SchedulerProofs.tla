-------------------------- MODULE SchedulerProofs --------------------------
(***************************************************************************)
(* Proofs about Scheduler for any number of tasks.  The types are kept in  *)
(* every configuration (the definitions and lemmas named Any...); the rest *)
(* holds in the two cases in which nobody resumes a task that another      *)
(* worker has not left:                                                    *)
(*   - any number of workers, when tasks yield, create tasks and end, and  *)
(*     none is held by a gather or a module (the definitions and lemmas    *)
(*     named Unheld...);                                                   *)
(*   - one worker, when tasks also gather and await (Lone...): a held task *)
(*     may be pushed before the worker has landed from it, but only that   *)
(*     worker could pop it.                                                *)
(* The theorems are at the end.                                            *)
(***************************************************************************)
EXTENDS Scheduler, QueueLemmas, FiniteSetTheorems

(* The types, of any tasks on any number of workers: a worker in a         *)
(* termination hook has a gather to tell.                                  *)
AnyInv ==
    /\ TypeOK
    /\ \A w \in Workers : pc[w] \in {"hook", "wake"} => gather[cur[w]] # NoTask
-----------------------------------------------------------------------------
(* A push keeps the queue a sequence of tasks.                             *)
LEMMA EnqueueAny ==
    ASSUME TypeOK, NEW t \in Tasks, Enqueue(t) PROVE queue' \in Seq(Tasks)
BY DEF Enqueue, TypeOK

(* It holds of the roots in the queue.                                     *)
LEMMA AnyInit == ASSUME SchedulerAssumption, Init PROVE AnyInv
<1>1. Cardinality(Roots) \in Nat /\ Roots \subseteq Tasks
  BY FS_Subset, FS_CardinalityType DEF SchedulerAssumption
<1>2. queue \in Seq(Tasks)
  BY <1>1 DEF Init
<1>3. gcount \in [Tasks -> 0..UShort - 1] /\ left \in [Tasks -> 0..MaxLeft]
  BY DEF Init, SchedulerAssumption
<1> QED  BY <1>2, <1>3 DEF Init, AnyInv, TypeOK

(* Every step keeps it.                                                    *)
LEMMA AnyNext == ASSUME SchedulerAssumption, AnyInv, [Next]_vars PROVE AnyInv'
<1> DEFINE Pcs == {"pop", "switch", "run", "spawn", "hold", "hook", "wake", "landed", "dead"}
<1>1. /\ queue \in Seq(Tasks)
      /\ flags \in [Tasks -> SUBSET {"terminated", "noschedule"}]
      /\ life \in [Tasks -> {"unborn", "live", "freed"}]
      /\ gather \in [Tasks -> Tasks \cup {NoTask}] /\ frame \in [Tasks -> SUBSET Tasks]
      /\ gcount \in [Tasks -> 0..UShort - 1] /\ left \in [Tasks -> 0..MaxLeft]
      /\ pc \in [Workers -> Pcs] /\ cur \in [Workers -> Tasks \cup {NoTask}]
      /\ \A w \in Workers : cur[w] = NoTask <=> pc[w] \in {"pop", "dead"}
      /\ NoTask \notin Tasks /\ UShort \in Nat \ {0} /\ MaxLeft \in Nat
  BY DEF AnyInv, TypeOK, SchedulerAssumption
<1>2. ASSUME NEW t \in Tasks, Suspends(t) PROVE left' \in [Tasks -> 0..MaxLeft]
  <2>1. CASE left' = left
    BY <1>1, <2>1
  <2>2. CASE left[t] > 0 /\ left' = [left EXCEPT ![t] = @ - 1]
    <3>1. left[t] - 1 \in 0..MaxLeft
      BY <1>1, <2>2
    <3> QED  BY <1>1, <2>2, <3>1
  <2> QED  BY <1>2, <2>1, <2>2 DEF Suspends
<1>3. \A w \in Workers : pc[w] \notin {"pop", "dead"} => cur[w] \in Tasks
  BY <1>1
<1>4. ASSUME NEW w \in Workers, NEW x \in Pcs \ {"pop", "dead", "hook", "wake"},
             pc[w] \notin {"pop", "dead"}, pc' = [pc EXCEPT ![w] = x],
             UNCHANGED <<cur, gather>>
      PROVE  /\ pc' \in [Workers -> Pcs]
             /\ \A v \in Workers : cur'[v] = NoTask <=> pc'[v] \in {"pop", "dead"}
             /\ \A v \in Workers : pc'[v] \in {"hook", "wake"} => gather'[cur'[v]] # NoTask
  BY <1>1, <1>4 DEF AnyInv
<1>5. ASSUME NEW w \in Workers, Pop(w) PROVE AnyInv'
  <2>1. Head(queue) \in Tasks /\ queue' \in Seq(Tasks)
    BY <1>1, <1>5 DEF Pop
  <2> QED  BY <1>1, <1>5, <2>1 DEF AnyInv, TypeOK, Pop, At, Goto
<1>6. ASSUME NEW w \in Workers, Switch(w) PROVE AnyInv'
  BY <1>1, <1>6 DEF AnyInv, TypeOK, Switch, At, Goto
<1>7. ASSUME NEW w \in Workers, Relax(w) \/ Await(w) PROVE AnyInv'
  <2>1. pc[w] = "run" /\ cur[w] \in Tasks /\ Suspends(cur[w])
    BY <1>3, <1>7 DEF Relax, Await, At
  <2>2. left' \in [Tasks -> 0..MaxLeft]
    BY <1>2, <2>1
  <2>3. /\ \E x \in {"landed", "hold"} : pc' = [pc EXCEPT ![w] = x]
        /\ waiting' \subseteq waiting \cup {cur[w]}
        /\ UNCHANGED <<queue, life, flags, finished, gather, frame, gcount, cur, master>>
    BY <1>7 DEF Relax, Await, Goto
  <2>4. /\ pc' \in [Workers -> Pcs]
        /\ \A v \in Workers : cur'[v] = NoTask <=> pc'[v] \in {"pop", "dead"}
        /\ \A v \in Workers : pc'[v] \in {"hook", "wake"} => gather'[cur'[v]] # NoTask
    BY <1>4, <2>1, <2>3
  <2> QED  BY <2>1, <2>2, <2>3, <2>4 DEF AnyInv, TypeOK
<1>8. ASSUME NEW w \in Workers, Return(w) PROVE AnyInv'
  <2>1. /\ cur[w] \in Tasks /\ pc[w] = "run"
        /\ flags' = [flags EXCEPT ![cur[w]] = @ \cup {"terminated"}]
        /\ finished' = finished \cup {cur[w]}
        /\ pc' = [pc EXCEPT ![w] = IF gather[cur[w]] = NoTask THEN "landed" ELSE "hook"]
        /\ UNCHANGED <<queue, life, gather, frame, gcount, waiting, left, cur, master>>
    BY <1>3, <1>8 DEF Return, At, Goto
  <2>2. TypeOK'
    BY <1>1, <2>1 DEF AnyInv, TypeOK
  <2>3. \A v \in Workers : pc'[v] \in {"hook", "wake"} => gather'[cur'[v]] # NoTask
    BY <1>1, <2>1 DEF AnyInv
  <2> QED  BY <2>1, <2>2, <2>3 DEF AnyInv
<1>9. ASSUME NEW w \in Workers, NEW c \in Tasks, FSchedule(w, c) PROVE AnyInv'
  <2>1. queue' \in Seq(Tasks)
    BY <1>9, EnqueueAny DEF FSchedule, AnyInv
  <2> QED  BY <1>1, <1>9, <2>1 DEF AnyInv, TypeOK, FSchedule
<1>10. ASSUME NEW w \in Workers, NEW cs \in SUBSET Tasks, Gather(w, cs) PROVE AnyInv'
  <2>1. cur[w] \in Tasks /\ left' \in [Tasks -> 0..MaxLeft]
    BY <1>1, <1>2, <1>10 DEF Gather, At
  <2>2. Cardinality(cs) % UShort \in 0..UShort - 1
    <3>1. Cardinality(cs) \in Nat
      BY FS_Subset, FS_CardinalityType DEF SchedulerAssumption
    <3> QED  BY <1>1, <3>1
  <2>3. gcount' \in [Tasks -> 0..UShort - 1]
    BY <1>1, <1>10, <2>2 DEF Gather
  <2>4. life' \in [Tasks -> {"unborn", "live", "freed"}]
    BY <1>1, <1>10 DEF Gather
  <2> QED  BY <1>1, <1>10, <2>1, <2>3, <2>4 DEF AnyInv, TypeOK, Gather, At, Goto
<1>11. ASSUME NEW w \in Workers, Spawn(w) PROVE AnyInv'
  <2>1. PICK c \in Unpushed(cur[w]) :
          /\ gather' = [gather EXCEPT ![c] = cur[w]]
          /\ Enqueue(c)
          /\ \E x \in {"run", "hold", "spawn"} : Goto(w, x)
          /\ frame' = frame \/ frame' = [frame EXCEPT ![cur[w]] = {}]
    BY <1>11 DEF Spawn
  <2>2. cur[w] \in Tasks /\ c \in Tasks
    BY <1>1, <1>11, <2>1 DEF Spawn, At, Unpushed
  <2>3. queue' \in Seq(Tasks)
    BY <2>1, <2>2, EnqueueAny DEF AnyInv
  <2>4. UNCHANGED <<life, flags, finished, gcount, waiting, left, cur, master>>
    BY <1>11 DEF Spawn
  <2>5. pc[w] = "spawn" /\ \E x \in {"run", "hold", "spawn"} : pc' = [pc EXCEPT ![w] = x]
    BY <1>11, <2>1 DEF Spawn, At, Goto
  <2>6. gather' \in [Tasks -> Tasks \cup {NoTask}] /\ frame' \in [Tasks -> SUBSET Tasks]
    BY <1>1, <2>1, <2>2
  <2>7. /\ pc' \in [Workers -> Pcs]
        /\ \A v \in Workers : cur'[v] = NoTask <=> pc'[v] \in {"pop", "dead"}
    BY <1>1, <2>4, <2>5
  <2>8. \A v \in Workers : pc'[v] \in {"hook", "wake"} => gather'[cur'[v]] # NoTask
    BY <1>1, <2>1, <2>2, <2>4, <2>5 DEF AnyInv
  <2>9. TypeOK'
    BY <2>3, <2>4, <2>6, <2>7 DEF AnyInv, TypeOK
  <2> QED  BY <2>8, <2>9 DEF AnyInv
<1>12. ASSUME NEW w \in Workers, Hold(w) \/ Unhold(w) PROVE AnyInv'
  <2> DEFINE t == cur[w]
  <2>1. t \in Tasks /\ flags[t] \subseteq {"terminated", "noschedule"}
    BY <1>1, <1>3, <1>12 DEF Hold, Unhold, At
  <2>2. PICK f \in SUBSET {"terminated", "noschedule"}, x \in {"landed", "pop"} :
          /\ flags' = [flags EXCEPT ![t] = f] /\ ("terminated" \in f => "terminated" \in flags[t])
          /\ pc[w] \in {"hold", "landed"} /\ pc' = [pc EXCEPT ![w] = x]
          /\ x = "landed" => cur' = cur
          /\ x = "pop" => cur' = [cur EXCEPT ![w] = NoTask]
    <3>1. CASE Hold(w)
      BY <2>1, <3>1 DEF Hold, At, Goto
    <3>2. CASE Unhold(w)
      BY <2>1, <3>2 DEF Unhold, Unheld, Lands, At, Goto
    <3> QED  BY <1>12, <3>1, <3>2
  <2>3. UNCHANGED <<queue, life, finished, gather, frame, gcount, waiting, left, master>>
    BY <1>12 DEF Hold, Unhold
  <2>4. flags' \in [Tasks -> SUBSET {"terminated", "noschedule"}]
    BY <1>1, <2>1, <2>2
  <2>5. /\ pc' \in [Workers -> Pcs] /\ cur' \in [Workers -> Tasks \cup {NoTask}]
        /\ \A v \in Workers : cur'[v] = NoTask <=> pc'[v] \in {"pop", "dead"}
    BY <1>1, <2>1, <2>2
  <2>6. \A v \in Workers : pc'[v] \in {"hook", "wake"} => gather'[cur'[v]] # NoTask
    BY <1>1, <2>2, <2>3 DEF AnyInv
  <2>7. TypeOK'
    BY <2>3, <2>4, <2>5 DEF AnyInv, TypeOK
  <2> QED  BY <2>6, <2>7 DEF AnyInv
<1>13. ASSUME NEW w \in Workers, Hook(w) PROVE AnyInv'
  <2>1. PICK p \in Tasks, n \in 0..UShort - 1 :
          p = gather[cur[w]] /\ gcount' = [gcount EXCEPT ![p] = n]
    <3>1. cur[w] \in Tasks /\ gather[cur[w]] \in Tasks
      <4>1. pc[w] = "hook"
        BY <1>13 DEF Hook, At
      <4>2. cur[w] \in Tasks /\ gather[cur[w]] # NoTask
        BY <1>3, <4>1 DEF AnyInv
      <4> QED  BY <1>1, <4>2
    <3>2. (gcount[gather[cur[w]]] - 1) % UShort \in 0..UShort - 1
      BY <1>1, <3>1
    <3> QED  BY <1>13, <3>1, <3>2 DEF Hook
  <2>2. \E x \in {"wake", "landed"} : Goto(w, x)
    BY <1>13 DEF Hook
  <2>3. /\ UNCHANGED <<queue, life, flags, finished, gather, frame, waiting, left, cur, master>>
        /\ pc[w] = "hook"
    BY <1>13 DEF Hook, At
  <2> QED  BY <1>1, <2>1, <2>2, <2>3 DEF AnyInv, TypeOK, Goto
<1>14. ASSUME NEW w \in Workers, Wake(w) PROVE AnyInv'
  <2>1. gather[cur[w]] \in Tasks
    <3>1. pc[w] = "wake"
      BY <1>14 DEF Wake, At
    <3>2. cur[w] \in Tasks /\ gather[cur[w]] # NoTask
      BY <1>3, <3>1 DEF AnyInv
    <3> QED  BY <1>1, <3>2
  <2>2. queue' \in Seq(Tasks)
    BY <1>14, <2>1, EnqueueAny DEF Wake, AnyInv
  <2> QED  BY <1>1, <1>14, <2>2 DEF AnyInv, TypeOK, Wake, At, Goto
<1>15. ASSUME NEW w \in Workers, Free(w) PROVE AnyInv'
  <2>1. /\ cur[w] \in Tasks /\ "terminated" \in flags[cur[w]]
        /\ life' = [life EXCEPT ![cur[w]] = "freed"]
        /\ pc' = [pc EXCEPT ![w] = "pop"] /\ cur' = [cur EXCEPT ![w] = NoTask]
        /\ UNCHANGED <<queue, flags, finished, gather, frame, gcount, waiting, left, master>>
    BY <1>3, <1>15 DEF Free, Lands, At, Goto
  <2>2. life' \in [Tasks -> {"unborn", "live", "freed"}]
    BY <1>1, <2>1
  <2>3. /\ pc' \in [Workers -> Pcs] /\ cur' \in [Workers -> Tasks \cup {NoTask}]
        /\ \A v \in Workers : cur'[v] = NoTask <=> pc'[v] \in {"pop", "dead"}
    BY <1>1, <2>1
  <2>4. \A v \in Workers : pc'[v] \in {"hook", "wake"} => gather'[cur'[v]] # NoTask
    BY <1>1, <2>1 DEF AnyInv
  <2>5. TypeOK'
    BY <2>1, <2>2, <2>3 DEF AnyInv, TypeOK
  <2> QED  BY <2>4, <2>5 DEF AnyInv
<1>16. ASSUME NEW w \in Workers, Repush(w) PROVE AnyInv'
  <2>1. cur[w] \in Tasks
    BY <1>1, <1>16 DEF Repush, At
  <2>2. queue' \in Seq(Tasks)
    BY <1>16, <2>1, EnqueueAny DEF Repush, AnyInv
  <2>3. \E x \in {"dead", "pop"} : pc' = [pc EXCEPT ![w] = x]
    BY <1>16 DEF Repush, Lands, Goto
  <2> QED  BY <1>1, <1>16, <2>2, <2>3 DEF AnyInv, TypeOK, Repush, Lands
<1>17. ASSUME NEW t \in Tasks, ModWake(t) PROVE AnyInv'
  <2>1. queue' \in Seq(Tasks)
    BY <1>17, EnqueueAny DEF ModWake, AnyInv
  <2> QED  BY <1>17, <2>1 DEF AnyInv, TypeOK, ModWake
<1>18. CASE MasterExit \/ Stopped \/ UNCHANGED vars
  BY <1>18 DEF AnyInv, TypeOK, MasterExit, Stopped, vars
<1> QED  BY <1>5, <1>6, <1>7, <1>8, <1>9, <1>10, <1>11, <1>12, <1>13, <1>14, <1>15, <1>16, <1>17, <1>18
            DEF Next, WorkerStep, TaskStep

(* It holds in every reachable state.                                     *)
LEMMA AnyInductive == Spec => []AnyInv
<1>1. Init => AnyInv
  BY SchedulerAssumption, AnyInit
<1>2. AnyInv /\ [Next]_vars => AnyInv'
  BY SchedulerAssumption, AnyNext
<1> QED  BY <1>1, <1>2, PTL DEF Spec
-----------------------------------------------------------------------------
(* No task calls gatherA or an IO call.                                    *)
NothingHolds == Operations \cap {"gather", "await"} = {}

(* What such tasks never touch.                                            *)
NothingHeld ==
    /\ waiting = {}
    /\ \A t \in Tasks : gather[t] = NoTask /\ frame[t] = {} /\ flags[t] \subseteq {"terminated"}
    /\ \A w \in Workers : pc[w] \in {"pop", "switch", "run", "landed"}

(* A task is in one hand: once in the queue, or with one worker.           *)
OneHand ==
    /\ \A i, j \in 1..Len(queue) : queue[i] = queue[j] => i = j
    /\ \A w \in Workers : cur[w] # NoTask =>
         /\ cur[w] \notin Queued
         /\ \A x \in Workers \ {w} : cur[x] # cur[w]
    /\ \A t \in Tasks : life[t] = "live" <=> t \in Queued \/ \E w \in Workers : cur[w] = t

(* The termination flag is set from the end of the task's function until   *)
(* the task is freed, and only then; its status is stored by then.         *)
Flagged ==
    /\ \A t \in Tasks : flags[t] # {} => t \in finished /\ life[t] # "unborn" /\ t \notin Queued
    /\ \A w \in Workers : pc[w] \in {"switch", "run"} => flags[cur[w]] = {}
    /\ \A t \in Tasks : life[t] = "freed" => t \in finished
    /\ \A t \in finished : flags[t] # {}

(* The master leaves its loop when no task is allocated, and none is since.*)
AfterExit == master = "exited" => \A t \in Tasks : life[t] # "live"

UnheldInv == TypeOK /\ NothingHeld /\ OneHand /\ Flagged /\ AfterExit

-----------------------------------------------------------------------------
(* The run queue starts with each root once.                               *)
LEMMA UnheldInit == ASSUME SchedulerAssumption, Init PROVE UnheldInv
<1> DEFINE n == Cardinality(Roots)
<1>1. IsFiniteSet(Roots) /\ n \in Nat /\ Roots \subseteq Tasks
  BY FS_Subset, FS_CardinalityType DEF SchedulerAssumption
<1>2. queue \in [1..n -> Roots] /\ \A i, j \in 1..n : queue[i] = queue[j] => i = j
  BY <1>1 DEF Init, IsInjective
<1>3. queue \in Seq(Tasks) /\ Len(queue) = n
  BY <1>1, <1>2
<1>4. Queued = Roots
  <2>1. IsFiniteSet(1..n) /\ Cardinality(1..n) = n
    BY <1>1, FS_Interval
  <2>2. queue \in Injection(1..n, Roots)
    BY <1>2 DEF Injection, IsInjective
  <2>3. queue \in Surjection(1..n, Roots)
    BY <2>1, <2>2, <1>1, FS_Injection
  <2> QED  BY <2>3, <1>2 DEF Surjection, Queued, Range
<1>5. TypeOK
  <2>1. gcount \in [Tasks -> 0..UShort - 1] /\ left \in [Tasks -> 0..MaxLeft]
    BY DEF Init, SchedulerAssumption
  <2> QED  BY <1>3, <2>1 DEF Init, TypeOK
<1>6. NothingHeld /\ Flagged /\ AfterExit
  BY DEF Init, NothingHeld, Flagged, AfterExit
<1>7. OneHand
  BY <1>1, <1>2, <1>3, <1>4 DEF Init, OneHand, SchedulerAssumption
<1> QED  BY <1>5, <1>6, <1>7 DEF UnheldInv

(* A worker takes the oldest task of the queue.                            *)
LEMMA UnheldPop ==
    ASSUME SchedulerAssumption, UnheldInv, NEW w \in Workers, Pop(w)
    PROVE  UnheldInv'
<1> DEFINE t == queue[1]
           n == Len(queue)
<1>1. /\ queue \in Seq(Tasks) /\ queue # <<>> /\ n \in Nat \ {0}
      /\ t \in Tasks /\ t \in Queued /\ Head(queue) = t
      /\ \A i, j \in 1..n : queue[i] = queue[j] => i = j
  <2>1. queue \in Seq(Tasks) /\ queue # <<>>
    BY DEF UnheldInv, TypeOK, Pop
  <2>2. n \in Nat \ {0} /\ Head(queue) = t /\ t \in Tasks
    BY <2>1
  <2>3. t \in Queued
    BY <2>1, <2>2 DEF Queued, Range
  <2> QED  BY <2>1, <2>2, <2>3 DEF UnheldInv, OneHand
<1>2. /\ queue' \in Seq(Tasks) /\ Len(queue') = n - 1
      /\ \A i, j \in 1..(n - 1) : queue'[i] = queue'[j] => i = j
      /\ Queued' = Queued \ {t}
  <2>1. /\ queue' = Tail(queue) /\ queue' \in Seq(Tasks) /\ Len(queue') = n - 1
        /\ \A i \in 1..(n - 1) : queue'[i] = queue[i + 1]
        /\ Queued' = Queued \ {t}
    BY <1>1, TailRange DEF Pop, Queued
  <2> QED  BY <1>1, <2>1
<1>3. /\ pc \in [Workers -> {"pop", "switch", "run", "spawn", "hold", "hook", "wake", "landed", "dead"}]
      /\ cur \in [Workers -> Tasks \cup {NoTask}] /\ NoTask \notin Tasks
      /\ cur' = [cur EXCEPT ![w] = t] /\ pc' = [pc EXCEPT ![w] = "switch"]
      /\ UNCHANGED <<life, flags, finished, gather, frame, gcount, waiting, left, master>>
      /\ master = "loop" /\ cur[w] = NoTask
  BY <1>1 DEF Pop, Goto, At, UnheldInv, TypeOK, SchedulerAssumption
<1>4. TypeOK'
  BY <1>1, <1>2, <1>3 DEF UnheldInv, TypeOK
<1>5. NothingHeld' /\ AfterExit'
  BY <1>3 DEF UnheldInv, NothingHeld, AfterExit
<1>6. OneHand'
  <2>1. \A x \in Workers : cur[x] # t
    BY <1>1 DEF UnheldInv, OneHand
  <2>2. ASSUME NEW x \in Workers, cur'[x] # NoTask
        PROVE  cur'[x] \notin Queued' /\ \A y \in Workers \ {x} : cur'[y] # cur'[x]
    BY <2>1, <2>2, <1>2, <1>3 DEF UnheldInv, OneHand
  <2>3. ASSUME NEW u \in Tasks
        PROVE  life'[u] = "live" <=> u \in Queued' \/ \E x \in Workers : cur'[x] = u
    BY <2>1, <1>1, <1>2, <1>3 DEF UnheldInv, OneHand
  <2> QED  BY <2>2, <2>3, <1>2 DEF OneHand
<1>7. Flagged'
  BY <1>1, <1>2, <1>3 DEF UnheldInv, Flagged
<1> QED  BY <1>4, <1>5, <1>6, <1>7 DEF UnheldInv

(* Yielding and starting to run change where a worker is.                  *)
LEMMA UnheldRun ==
    ASSUME SchedulerAssumption, UnheldInv, NEW w \in Workers, Switch(w) \/ Relax(w)
    PROVE  UnheldInv'
<1>1. /\ UNCHANGED <<queue, life, flags, finished, gather, gcount, waiting, cur, master>>
      /\ frame' = frame /\ pc[w] \in {"switch", "run"}
      /\ \E p \in {"run", "landed"} : pc' = [pc EXCEPT ![w] = p]
  <2>1. CASE Switch(w)
    <3>1. cur[w] \in Tasks /\ frame[cur[w]] = {} /\ frame \in [Tasks -> SUBSET Tasks]
      BY <2>1 DEF Switch, At, UnheldInv, TypeOK, NothingHeld
    <3>2. frame' = frame
      BY <2>1, <3>1 DEF Switch
    <3> QED  BY <2>1, <3>2 DEF Switch, At, Goto
  <2>2. CASE Relax(w)
    BY <2>2 DEF Relax, At, Goto
  <2> QED  BY <2>1, <2>2
<1>2. left' \in [Tasks -> 0..MaxLeft]
  <2>1. CASE Switch(w)
    BY <2>1 DEF Switch, UnheldInv, TypeOK
  <2>2. CASE Relax(w)
    <3>1. left \in [Tasks -> 0..MaxLeft] /\ cur[w] \in Tasks /\ MaxLeft \in Nat
      BY <2>2 DEF Relax, At, UnheldInv, TypeOK, SchedulerAssumption
    <3> QED  BY <2>2, <3>1 DEF Relax, Suspends
  <2> QED  BY <2>1, <2>2
<1>3. TypeOK'
  BY <1>1, <1>2 DEF UnheldInv, TypeOK
<1>4. Queued' = Queued
  BY <1>1 DEF Queued
<1>5. NothingHeld' /\ Flagged' /\ AfterExit'
  BY <1>1, <1>4 DEF UnheldInv, NothingHeld, Flagged, AfterExit
<1>6. OneHand'
  BY <1>1, <1>4 DEF UnheldInv, OneHand
<1> QED  BY <1>3, <1>5, <1>6 DEF UnheldInv

(* The function of a task returns.                                         *)
LEMMA UnheldReturn ==
    ASSUME SchedulerAssumption, UnheldInv, NEW w \in Workers, Return(w)
    PROVE  UnheldInv'
<1> DEFINE t == cur[w]
<1>1. /\ t \in Tasks /\ gather[t] = NoTask /\ t \notin Queued /\ life[t] = "live"
      /\ \A x \in Workers \ {w} : cur[x] # t
  <2>1. t \in Tasks /\ t # NoTask
    <3>1. cur[w] \in Tasks \cup {NoTask} /\ (cur[w] = NoTask <=> pc[w] \in {"pop", "dead"})
      BY DEF UnheldInv, TypeOK
    <3>2. pc[w] \notin {"pop", "dead"} /\ NoTask \notin Tasks
      BY DEF Return, At, SchedulerAssumption
    <3> QED  BY <3>1, <3>2
  <2>2. gather[t] = NoTask
    BY <2>1 DEF UnheldInv, NothingHeld
  <2>3. t \notin Queued /\ life[t] = "live" /\ \A x \in Workers \ {w} : cur[x] # t
    BY <2>1 DEF UnheldInv, OneHand
  <2> QED  BY <2>1, <2>2, <2>3
<1>2. /\ flags' = [flags EXCEPT ![t] = @ \cup {"terminated"}]
      /\ finished' = finished \cup {t}
      /\ pc' = [pc EXCEPT ![w] = "landed"]
      /\ UNCHANGED <<queue, life, gather, frame, gcount, waiting, left, cur, master>>
  BY <1>1 DEF Return, Goto
<1>3. Queued' = Queued
  BY <1>2 DEF Queued
<1>4. TypeOK' /\ NothingHeld' /\ OneHand' /\ AfterExit'
  BY <1>1, <1>2, <1>3 DEF UnheldInv, TypeOK, NothingHeld, OneHand, AfterExit
<1>5. Flagged'
  <2>1. /\ flags'[t] # {} /\ flags' \in [Tasks -> SUBSET {"terminated", "noschedule"}]
        /\ \A u \in Tasks : u # t => flags'[u] = flags[u]
    BY <1>1, <1>2 DEF UnheldInv, TypeOK
  <2>2. \A x \in Workers : pc'[x] = IF x = w THEN "landed" ELSE pc[x]
    BY <1>2 DEF UnheldInv, TypeOK
  <2> QED  BY <1>1, <1>2, <1>3, <2>1, <2>2 DEF UnheldInv, Flagged
<1> QED  BY <1>4, <1>5 DEF UnheldInv

(* Putting a task that is in nobody's hand at the end of the queue.        *)
LEMMA EnqueueOnce ==
    ASSUME UnheldInv, NEW t \in Tasks, t \notin Queued, Enqueue(t)
    PROVE  /\ queue' \in Seq(Tasks)
           /\ Queued' = Queued \cup {t}
           /\ \A i, j \in 1..Len(queue') : queue'[i] = queue'[j] => i = j
<1> DEFINE n == Len(queue)
<1>1. queue \in Seq(Tasks) /\ n \in Nat /\ queue' = Append(queue, t)
  BY DEF Enqueue, UnheldInv, TypeOK
<1>2. /\ queue' \in Seq(Tasks) /\ Len(queue') = n + 1
      /\ \A i \in 1..n : queue'[i] = queue[i]
      /\ queue'[n + 1] = t
      /\ Queued' = Queued \cup {t}
  BY <1>1, AppendedRange DEF Queued
<1>3. \A i \in 1..n : queue[i] # t
  BY <1>1 DEF Queued, Range
<1>4. \A i, j \in 1..n : queue[i] = queue[j] => i = j
  BY DEF UnheldInv, OneHand
<1>5. \A i, j \in 1..(n + 1) : queue'[i] = queue'[j] => i = j
  BY <1>1, <1>2, <1>3, <1>4
<1> QED  BY <1>2, <1>5

(* A task creates another one.                                             *)
LEMMA UnheldFSchedule ==
    ASSUME SchedulerAssumption, UnheldInv, NEW w \in Workers, NEW c \in Tasks, FSchedule(w, c)
    PROVE  UnheldInv'
<1>1. /\ life[c] = "unborn" /\ c \notin Queued /\ flags[c] = {}
      /\ \A x \in Workers : cur[x] # c
  BY DEF FSchedule, UnheldInv, OneHand, Flagged
<1>2. master # "exited"
  <2>1. cur[w] \in Tasks
    BY DEF FSchedule, At, UnheldInv, TypeOK
  <2> QED  BY <2>1 DEF UnheldInv, OneHand, AfterExit
<1>3. /\ queue' \in Seq(Tasks)
      /\ Queued' = Queued \cup {c}
      /\ \A i, j \in 1..Len(queue') : queue'[i] = queue'[j] => i = j
  BY <1>1, EnqueueOnce DEF FSchedule
<1>4. /\ life' = [life EXCEPT ![c] = "live"]
      /\ UNCHANGED <<flags, finished, gather, frame, gcount, waiting, left, pc, cur, master>>
  BY DEF FSchedule
<1>5. TypeOK' /\ NothingHeld' /\ AfterExit'
  BY <1>2, <1>3, <1>4 DEF UnheldInv, TypeOK, NothingHeld, AfterExit
<1>6. OneHand' /\ Flagged'
  BY <1>1, <1>3, <1>4 DEF UnheldInv, TypeOK, OneHand, Flagged
<1> QED  BY <1>5, <1>6 DEF UnheldInv

(* A worker frees its task when the task has ended.                        *)
LEMMA UnheldFree ==
    ASSUME SchedulerAssumption, UnheldInv, NEW w \in Workers, Free(w)
    PROVE  UnheldInv'
<1> DEFINE t == cur[w]
<1>1. /\ t \in Tasks /\ NoTask \notin Tasks /\ t \in finished
      /\ t \notin Queued /\ \A x \in Workers \ {w} : cur[x] # t
  <2>1. t \in Tasks /\ NoTask \notin Tasks
    BY DEF Free, At, UnheldInv, TypeOK, SchedulerAssumption
  <2> QED  BY <2>1 DEF Free, UnheldInv, OneHand, Flagged
<1>2. /\ life' = [life EXCEPT ![t] = "freed"]
      /\ pc' = [pc EXCEPT ![w] = "pop"] /\ cur' = [cur EXCEPT ![w] = NoTask]
      /\ UNCHANGED <<queue, flags, finished, gather, frame, gcount, waiting, left, master>>
      /\ Queued' = Queued
      /\ cur \in [Workers -> Tasks \cup {NoTask}]
  BY DEF Free, Lands, Goto, Queued, UnheldInv, TypeOK
<1>3. TypeOK' /\ NothingHeld' /\ AfterExit'
  BY <1>1, <1>2 DEF UnheldInv, TypeOK, NothingHeld, AfterExit
<1>4. OneHand'
  <2>1. ASSUME NEW u \in Tasks
        PROVE  life'[u] = "live" <=> u \in Queued \/ \E x \in Workers : cur'[x] = u
    BY <1>1, <1>2 DEF UnheldInv, TypeOK, OneHand
  <2>2. ASSUME NEW x \in Workers, cur'[x] # NoTask
        PROVE  cur'[x] \notin Queued /\ \A y \in Workers \ {x} : cur'[y] # cur'[x]
    BY <2>2, <1>2 DEF UnheldInv, OneHand
  <2> QED  BY <2>1, <2>2, <1>2 DEF UnheldInv, OneHand
<1>5. Flagged'
  BY <1>1, <1>2 DEF UnheldInv, TypeOK, Flagged
<1> QED  BY <1>3, <1>4, <1>5 DEF UnheldInv

(* A worker puts its task back: the push is never refused.                 *)
LEMMA UnheldRepush ==
    ASSUME SchedulerAssumption, UnheldInv, NEW w \in Workers, Repush(w)
    PROVE  UnheldInv'
<1> DEFINE t == cur[w]
<1>1. /\ t \in Tasks /\ NoTask \notin Tasks /\ flags[t] = {} /\ life[t] = "live"
      /\ t \notin Queued /\ \A x \in Workers \ {w} : cur[x] # t
  <2>1. t \in Tasks /\ NoTask \notin Tasks
    <3>1. cur[w] \in Tasks \cup {NoTask} /\ (cur[w] = NoTask <=> pc[w] \in {"pop", "dead"})
      BY DEF UnheldInv, TypeOK
    <3>2. pc[w] \notin {"pop", "dead"} /\ NoTask \notin Tasks
      BY DEF Repush, At, SchedulerAssumption
    <3> QED  BY <3>1, <3>2
  <2> QED  BY <2>1 DEF Repush, UnheldInv, OneHand
<1>2. /\ queue' \in Seq(Tasks)
      /\ Queued' = Queued \cup {t}
      /\ \A i, j \in 1..Len(queue') : queue'[i] = queue'[j] => i = j
  BY <1>1, EnqueueOnce DEF Repush
<1>3. /\ pc' = [pc EXCEPT ![w] = "pop"] /\ cur' = [cur EXCEPT ![w] = NoTask]
      /\ UNCHANGED <<life, flags, finished, gather, frame, gcount, waiting, left, master>>
      /\ cur \in [Workers -> Tasks \cup {NoTask}]
  BY <1>1 DEF Repush, Lands, Goto, UnheldInv, TypeOK
<1>4. TypeOK' /\ NothingHeld' /\ AfterExit'
  BY <1>1, <1>2, <1>3 DEF UnheldInv, TypeOK, NothingHeld, AfterExit
<1>5. OneHand'
  <2>1. ASSUME NEW u \in Tasks
        PROVE  life'[u] = "live" <=> u \in Queued' \/ \E x \in Workers : cur'[x] = u
    BY <1>1, <1>2, <1>3 DEF UnheldInv, OneHand
  <2>2. ASSUME NEW x \in Workers, cur'[x] # NoTask
        PROVE  cur'[x] \notin Queued' /\ \A y \in Workers \ {x} : cur'[y] # cur'[x]
    BY <2>2, <1>1, <1>2, <1>3 DEF UnheldInv, OneHand
  <2> QED  BY <2>1, <2>2, <1>2 DEF OneHand
<1>6. Flagged'
  BY <1>1, <1>2, <1>3 DEF UnheldInv, TypeOK, Flagged
<1> QED  BY <1>4, <1>5, <1>6 DEF UnheldInv

(* Every step keeps the invariant; those of a held task are impossible.    *)
LEMMA UnheldNext ==
    ASSUME SchedulerAssumption, NothingHolds, UnheldInv, [Next]_vars
    PROVE UnheldInv'
<1>1. CASE UNCHANGED vars
  BY <1>1 DEF vars, UnheldInv, TypeOK, NothingHeld, OneHand, Flagged, AfterExit, Queued
<1>2. ASSUME NEW w \in Workers, WorkerStep(w) PROVE UnheldInv'
  <2>1. CASE TaskStep(w)
    <3>1. ~Await(w) /\ \A cs \in SUBSET Tasks : ~Gather(w, cs)
      BY DEF Await, Gather, NothingHolds
    <3> QED  BY <2>1, <3>1, UnheldRun, UnheldReturn, UnheldFSchedule DEF TaskStep
  <2>2. CASE Pop(w)
    BY <2>2, UnheldPop
  <2>3. CASE Switch(w)
    BY <2>3, UnheldRun
  <2>4. CASE Free(w)
    BY <2>4, UnheldFree
  <2>5. CASE Repush(w)
    BY <2>5, UnheldRepush
  <2>6. ~Spawn(w) /\ ~Hold(w) /\ ~Hook(w) /\ ~Wake(w)
    BY DEF Spawn, Hold, Hook, Wake, At, UnheldInv, NothingHeld
  <2>7. ~Unhold(w)
    <3>1. SUFFICES ASSUME Unhold(w) PROVE FALSE
      OBVIOUS
    <3>2. cur[w] \in Tasks /\ "noschedule" \in flags[cur[w]]
      BY <3>1 DEF Unhold, At, UnheldInv, TypeOK
    <3> QED  BY <3>2 DEF UnheldInv, NothingHeld
  <2> QED  BY <1>2, <2>1, <2>2, <2>3, <2>4, <2>5, <2>6, <2>7 DEF WorkerStep
<1>3. ASSUME NEW t \in Tasks PROVE ~ModWake(t)
  BY DEF ModWake, UnheldInv, NothingHeld
<1>4. CASE MasterExit
  <2>1. /\ UNCHANGED <<queue, life, flags, finished, gather, frame, gcount, waiting, left, pc, cur>>
        /\ master' = "exited" /\ \A t \in Tasks : life[t] # "live" /\ Queued' = Queued
    BY <1>4 DEF MasterExit, NoneLeft, Live, Queued
  <2> QED  BY <2>1 DEF UnheldInv, TypeOK, NothingHeld, OneHand, Flagged, AfterExit
<1>5. CASE Stopped
  BY <1>1, <1>5 DEF Stopped
<1> QED  BY <1>1, <1>2, <1>3, <1>4, <1>5 DEF Next

(* The inductive invariant holds in every reachable state.                 *)
LEMMA UnheldInductive == ASSUME NothingHolds PROVE Spec => []UnheldInv
<1>1. Init => UnheldInv
  BY SchedulerAssumption, UnheldInit
<1>2. UnheldInv /\ [Next]_vars => UnheldInv'
  BY SchedulerAssumption, NothingHolds, UnheldNext
<1> QED  BY <1>1, <1>2, PTL DEF Spec
-----------------------------------------------------------------------------
(* With any number of workers, tasks that only yield, create tasks and end *)
(* never have their stack used by two workers at once: what swapcontext    *)
(* and the flags, which no lock protects, rely on.                         *)
LEMMA UnheldStacks == ASSUME NothingHolds PROVE Spec => []OneStack
<1>1. UnheldInv => OneStack
  <2> SUFFICES ASSUME UnheldInv, NEW w \in OnCPU, NEW x \in OnCPU, cur[w] = cur[x]
               PROVE  w = x
    BY DEF OneStack
  <2>1. w \in Workers /\ x \in Workers /\ cur[w] # NoTask
    BY DEF UnheldInv, TypeOK, OnCPU
  <2> QED  BY <2>1 DEF UnheldInv, OneHand
<1> QED  BY <1>1, UnheldInductive, PTL

(* With any number of workers, no such task is lost or scheduled twice.    *)
LEMMA UnheldPlaces == ASSUME NothingHolds PROVE Spec => []OnePlace
<1>1. ASSUME SchedulerAssumption, UnheldInv PROVE OnePlace
  <2>1. IsInjective(queue)
    <3>1. DOMAIN queue = 1..Len(queue)
      BY <1>1 DEF UnheldInv, TypeOK
    <3> QED  BY <1>1, <3>1 DEF UnheldInv, OneHand, IsInjective
  <2>2. ASSUME NEW t \in Tasks
        PROVE  /\ ~Joining(t)
               /\ \A p \in Tasks : t \notin Unpushed(p)
               /\ t \notin waiting
               /\ \A w \in Workers : cur[w] = t => ~Releasing(w)
    <3>1. frame[t] = {} /\ \A p \in Tasks : frame[p] = {}
      BY <1>1 DEF UnheldInv, NothingHeld
    <3>2. ~Joining(t)
      BY <1>1, <3>1 DEF UnheldInv, NothingHeld, Joining, Pending, At
    <3>3. \A w \in Workers : cur[w] = t => ~Releasing(w)
      BY <1>1 DEF UnheldInv, NothingHeld, Releasing, At
    <3> QED  BY <1>1, <3>1, <3>2, <3>3 DEF UnheldInv, NothingHeld, Unpushed
  <2>3. ASSUME NEW t \in Tasks
        PROVE  Places(t) = { x \in {"queue", "worker"} :
                               \/ x = "queue"  /\ t \in Queued
                               \/ x = "worker" /\ \E w \in Workers : cur[w] = t }
    BY <2>2 DEF Places
  <2>4. ASSUME NEW t \in Tasks, t \in Live PROVE \E x \in Places(t) : Places(t) = {x}
    <3>1. life[t] = "live" /\ t # NoTask
      BY <1>1, <2>4 DEF Live, SchedulerAssumption
    <3>2. CASE t \in Queued
      <4>1. \A w \in Workers : cur[w] # t
        BY <1>1, <3>1, <3>2 DEF UnheldInv, OneHand
      <4>2. Places(t) = {"queue"}
        BY <2>3, <3>2, <4>1
      <4> QED  BY <4>2
    <3>3. CASE t \notin Queued
      <4>1. \E w \in Workers : cur[w] = t
        BY <1>1, <3>1, <3>3 DEF UnheldInv, OneHand
      <4>2. Places(t) = {"worker"}
        BY <2>3, <3>3, <4>1
      <4> QED  BY <4>2
    <3> QED  BY <3>2, <3>3
  <2>5. ASSUME NEW t \in Tasks, t \notin Live PROVE Places(t) = {}
    <3>1. t \notin Queued /\ \A w \in Workers : cur[w] # t
      BY <1>1, <2>5 DEF UnheldInv, OneHand, Live
    <3> QED  BY <2>3, <3>1
  <2>6. \A w, x \in Workers : cur[w] # NoTask /\ cur[w] = cur[x] => w = x
    BY <1>1 DEF UnheldInv, OneHand
  <2>7. \A p, q \in Tasks : Unpushed(p) \cap Unpushed(q) = {}
    BY <1>1 DEF UnheldInv, NothingHeld, Unpushed
  <2>8. \A t \in Tasks : IF t \in Live THEN \E x \in Places(t) : Places(t) = {x}
                                        ELSE Places(t) = {}
    BY <2>4, <2>5
  <2> QED  BY <2>1, <2>6, <2>7, <2>8 DEF OnePlace
<1>2. UnheldInv => OnePlace
  BY <1>1, SchedulerAssumption
<1> QED  BY <1>2, UnheldInductive, PTL

(* With any number of workers, none runs or frees a task that another has  *)
(* freed.                                                                  *)
LEMMA UnheldAlive == ASSUME NothingHolds PROVE Spec => []NoUseAfterFree
<1>1. UnheldInv => NoUseAfterFree
  <2> SUFFICES ASSUME UnheldInv, NEW w \in Workers
               PROVE  /\ cur[w] # NoTask => life[cur[w]] = "live" /\ cur[w] \in Tasks
                      /\ pc[w] \notin {"hook", "wake"}
    BY DEF NoUseAfterFree, Live
  <2>1. pc[w] \notin {"hook", "wake"}
    BY DEF UnheldInv, NothingHeld
  <2>2. cur[w] # NoTask => cur[w] \in Tasks
    BY DEF UnheldInv, TypeOK
  <2> QED  BY <2>1, <2>2 DEF UnheldInv, OneHand
<1> QED  BY <1>1, UnheldInductive, PTL

(* With any number of workers, none ends because its push was refused.     *)
LEMMA UnheldStay == ASSUME NothingHolds PROVE Spec => []WorkersStay
<1>1. UnheldInv => WorkersStay
  BY DEF UnheldInv, NothingHeld, WorkersStay
<1> QED  BY <1>1, UnheldInductive, PTL

(* The master leaves its loop only when every task has stored its status   *)
(* and no queue and no worker has one.                                     *)
LEMMA UnheldExit == ASSUME NothingHolds PROVE Spec => []ExitWhenDone
<1>1. UnheldInv => ExitWhenDone
  <2> SUFFICES ASSUME UnheldInv, master = "exited"
               PROVE  /\ \A t \in Tasks : life[t] # "unborn" => t \in finished
                      /\ queue = <<>> /\ waiting = {}
                      /\ \A w \in Workers : cur[w] = NoTask
    BY DEF ExitWhenDone
  <2>1. \A t \in Tasks : life[t] \in {"unborn", "freed"}
    BY DEF UnheldInv, TypeOK, AfterExit
  <2>2. \A t \in Tasks : t \notin Queued /\ \A w \in Workers : cur[w] # t
    BY <2>1 DEF UnheldInv, OneHand
  <2>3. queue = <<>>
    <3>1. SUFFICES ASSUME queue # <<>> PROVE FALSE
      OBVIOUS
    <3>2. queue \in Seq(Tasks) /\ 1 \in DOMAIN queue /\ queue[1] \in Tasks
      BY <3>1 DEF UnheldInv, TypeOK
    <3> QED  BY <2>2, <3>2 DEF Queued, Range
  <2>4. \A w \in Workers : cur[w] = NoTask
    BY <2>2 DEF UnheldInv, TypeOK
  <2>5. \A t \in Tasks : life[t] # "unborn" => t \in finished
    BY <2>1 DEF UnheldInv, Flagged
  <2> QED  BY <2>3, <2>4, <2>5 DEF UnheldInv, NothingHeld
<1> QED  BY <1>1, UnheldInductive, PTL
-----------------------------------------------------------------------------
(* What a task that is never held is doing.                                *)
Runs(t) == \E w \in Workers : cur[w] = t /\ pc[w] = "run"

UnheldDoes(t) ==
    IF Runs(t) THEN "running"
    ELSE IF life[t] = "unborn" THEN "none"
    ELSE IF t \in finished THEN "ended" ELSE "ready"

LEMMA UnheldDoings ==
    ASSUME NothingHeld, NothingHeld'
    PROVE  States = [t \in Tasks |-> UnheldDoes(t)] /\ States' = [t \in Tasks |-> UnheldDoes(t)']
BY DEF States, Doing, UnheldDoes, Runs, At, NothingHeld

(* No task has a frame: none gathers.                                      *)
LEMMA NoFrames == ASSUME UnheldInv, UnheldInv' PROVE frame' = frame
<1>1. frame \in [Tasks -> SUBSET Tasks] /\ \A t \in Tasks : frame[t] = {}
  BY DEF UnheldInv, TypeOK, NothingHeld
<1>2. frame' \in [Tasks -> SUBSET Tasks] /\ \A t \in Tasks : frame'[t] = {}
  BY DEF UnheldInv, TypeOK, NothingHeld
<1> QED  BY <1>1, <1>2

(* A step that changes what one task is doing is a move of it ...          *)
LEMMA UnheldMoves ==
    ASSUME UnheldInv, UnheldInv', NEW t \in Tasks, NEW from, NEW to,
           UnheldDoes(t) = from, UnheldDoes(t)' = to,
           \A u \in Tasks \ {t} : UnheldDoes(u)' = UnheldDoes(u)
    PROVE  Tasking!Move(t, from, to) /\ UNCHANGED frame
<1>1. States[t] = from /\ States' = [States EXCEPT ![t] = to]
  BY UnheldDoings DEF UnheldInv
<1> QED  BY <1>1, NoFrames DEF Tasking!Move

(* ... and one that changes nothing of it a stutter.                       *)
LEMMA UnheldStutter ==
    ASSUME UnheldInv, UnheldInv', \A u \in Tasks : UnheldDoes(u)' = UnheldDoes(u)
    PROVE  UNCHANGED <<States, frame>>
BY UnheldDoings, NoFrames DEF UnheldInv

(* A step of worker w that leaves its task with it.                        *)
LEMMA Stays ==
    ASSUME SchedulerAssumption, UnheldInv,
           NEW w \in Workers, NEW x, pc[w] \notin {"pop", "dead"},
           pc' = [pc EXCEPT ![w] = x], cur' = cur
    PROVE  /\ cur[w] \in Tasks /\ life[cur[w]] = "live"
           /\ Runs(cur[w])' <=> x = "run"
           /\ Runs(cur[w]) <=> pc[w] = "run"
           /\ \A u \in Tasks : u # cur[w] => (Runs(u)' <=> Runs(u))
<1>1. cur[w] \in Tasks /\ cur[w] # NoTask
  BY DEF UnheldInv, TypeOK, SchedulerAssumption
<1>2. life[cur[w]] = "live" /\ \A y \in Workers \ {w} : cur[y] # cur[w]
  BY <1>1 DEF UnheldInv, OneHand
<1>3. \A y \in Workers : pc'[y] = IF y = w THEN x ELSE pc[y]
  BY DEF UnheldInv, TypeOK
<1> QED  BY <1>1, <1>2, <1>3 DEF Runs

(* A task starts to run on a worker that ran none: fewer tasks than        *)
(* workers are running.                                                    *)
LEMMA UnheldSwitchMaps ==
    ASSUME SchedulerAssumption, UnheldInv, UnheldInv', NEW w \in Workers, Switch(w)
    PROVE  [Tasking!Next]_<<States, frame>>
<1>1. /\ pc[w] = "switch" /\ pc' = [pc EXCEPT ![w] = "run"] /\ cur' = cur
      /\ frame' = [frame EXCEPT ![cur[w]] = {}]
      /\ UNCHANGED <<life, finished>>
  BY DEF Switch, At, Goto
<1>2. PICK t \in Tasks : t = cur[w] /\ life[t] = "live"
  BY <1>1, Stays
<1>3. t \notin finished
  BY <1>1, <1>2 DEF UnheldInv, Flagged
<1>4. /\ UnheldDoes(t) = "ready" /\ UnheldDoes(t)' = "running"
      /\ \A u \in Tasks \ {t} : UnheldDoes(u)' = UnheldDoes(u)
  <2>1. Runs(t)' /\ ~Runs(t) /\ \A u \in Tasks \ {t} : Runs(u)' <=> Runs(u)
    BY <1>1, <1>2, Stays
  <2> QED  BY <1>1, <1>2, <1>3, <2>1 DEF UnheldDoes
<1>5. Tasking!Cardinality(Tasking!In("running")) < Cardinality(Workers)
  <2> DEFINE R == Tasking!In("running")
             on == [u \in R |-> CHOOSE x \in Workers : cur[x] = u /\ pc[x] = "run"]
  <2>1. \A u \in R : \E x \in Workers : cur[x] = u /\ pc[x] = "run"
    BY UnheldDoings DEF UnheldInv, Tasking!In, UnheldDoes, Runs
  <2>2. \A u \in R : on[u] \in Workers \ {w} /\ cur[on[u]] = u
    BY <1>1, <2>1
  <2>3. on \in Injection(R, Workers \ {w})
    BY <2>2 DEF Injection, IsInjective
  <2>4. /\ IsFiniteSet(Workers \ {w}) /\ Cardinality(Workers \ {w}) = Cardinality(Workers) - 1
        /\ Cardinality(Workers) \in Nat
    BY FS_RemoveElement, FS_CardinalityType DEF SchedulerAssumption
  <2>5. Cardinality(R) <= Cardinality(Workers \ {w}) /\ IsFiniteSet(R)
    BY <2>3, <2>4, FS_Injection
  <2>6. Cardinality(R) \in Nat
    BY <2>5, FS_CardinalityType
  <2>7. Tasking!Cardinality(R) = Cardinality(R)
    BY DEF Tasking!Cardinality, Cardinality
  <2> HIDE DEF R
  <2>8. Tasking!Cardinality(R) < Cardinality(Workers)
    BY <2>4, <2>5, <2>6, <2>7
  <2> QED  BY <2>8 DEF R
<1>6. Tasking!Move(t, "ready", "running")
  BY <1>4, UnheldMoves
<1>7. frame' = [frame EXCEPT ![t] = {}]
  BY <1>1, <1>2
<1>8. Tasking!Run(t)
  BY <1>5, <1>6, <1>7 DEF Tasking!Run
<1> QED  BY <1>8 DEF Tasking!Next

(* A running task suspends itself or ends.                                 *)
LEMMA UnheldStopMaps ==
    ASSUME SchedulerAssumption, UnheldInv, UnheldInv', NEW w \in Workers, Relax(w) \/ Return(w)
    PROVE  [Tasking!Next]_<<States, frame>>
<1>1. gather[cur[w]] = NoTask /\ pc[w] = "run" /\ cur' = cur /\ cur[w] \in Tasks
  <2>1. pc[w] = "run" /\ cur' = cur /\ cur[w] \in Tasks
    BY DEF Relax, Return, At, UnheldInv, TypeOK
  <2> QED  BY <2>1 DEF UnheldInv, NothingHeld
<1>2. pc' = [pc EXCEPT ![w] = "landed"] /\ life' = life
  BY <1>1 DEF Relax, Return, Goto
<1>3. PICK t \in Tasks : t = cur[w] /\ life[t] = "live"
  BY <1>1, <1>2, Stays
<1>4. t \notin finished
  BY <1>1, <1>3 DEF UnheldInv, Flagged
<1>5. Runs(t) /\ ~Runs(t)' /\ \A u \in Tasks \ {t} : Runs(u)' <=> Runs(u)
  <2>1. pc[w] \notin {"pop", "dead"} /\ "landed" # "run"
    BY <1>1
  <2>2. /\ Runs(cur[w])' <=> "landed" = "run"
        /\ Runs(cur[w]) <=> pc[w] = "run"
        /\ \A u \in Tasks : u # cur[w] => (Runs(u)' <=> Runs(u))
    BY <1>1, <1>2, <2>1, Stays
  <2> QED  BY <1>1, <1>3, <2>1, <2>2 DEF Runs
<1>6. CASE Relax(w)
  <2>1. /\ UnheldDoes(t) = "running" /\ UnheldDoes(t)' = "ready"
        /\ \A u \in Tasks \ {t} : UnheldDoes(u)' = UnheldDoes(u)
    BY <1>2, <1>3, <1>4, <1>5, <1>6 DEF UnheldDoes, Relax
  <2> QED  BY <2>1, UnheldMoves DEF Tasking!Next, Tasking!Yield
<1>7. CASE Return(w)
  <2>1. /\ UnheldDoes(t) = "running" /\ UnheldDoes(t)' = "ended"
        /\ \A u \in Tasks \ {t} : UnheldDoes(u)' = UnheldDoes(u)
    BY <1>2, <1>3, <1>5, <1>7 DEF UnheldDoes, Return
  <2> QED  BY <2>1, UnheldMoves DEF Tasking!Next, Tasking!End
<1> QED  BY <1>6, <1>7

(* A running task creates another one.                                     *)
LEMMA UnheldCreateMaps ==
    ASSUME SchedulerAssumption, UnheldInv, UnheldInv',
           NEW w \in Workers, NEW c \in Tasks, FSchedule(w, c)
    PROVE  [Tasking!Next]_<<States, frame>>
<1>1. /\ pc[w] = "run" /\ pc' = pc /\ cur' = cur /\ finished' = finished
      /\ life[c] = "unborn" /\ life' = [life EXCEPT ![c] = "live"] /\ cur[w] \in Tasks
      /\ life \in [Tasks -> {"unborn", "live", "freed"}]
  <2>1. /\ pc[w] = "run" /\ pc' = pc /\ cur' = cur /\ finished' = finished
        /\ life[c] = "unborn" /\ life' = [life EXCEPT ![c] = "live"]
    BY DEF FSchedule, At
  <2>2. /\ cur[w] \in Tasks \cup {NoTask} /\ (cur[w] = NoTask <=> pc[w] \in {"pop", "dead"})
        /\ life \in [Tasks -> {"unborn", "live", "freed"}]
    BY DEF UnheldInv, TypeOK
  <2> QED  BY <2>1, <2>2
<1>2. /\ \A u \in Tasks : Runs(u)' <=> Runs(u)
      /\ Runs(cur[w]) /\ ~Runs(c)
  BY <1>1, SchedulerAssumption DEF Runs, UnheldInv, OneHand, SchedulerAssumption
<1>3. c \notin finished
  BY <1>1 DEF UnheldInv, Flagged
<1>4. /\ UnheldDoes(c) = "none" /\ UnheldDoes(c)' = "ready"
      /\ \A u \in Tasks \ {c} : UnheldDoes(u)' = UnheldDoes(u)
  BY <1>1, <1>2, <1>3 DEF UnheldDoes
<1>5. Tasking!In("running") # {}
  <2>1. States[cur[w]] = "running"
    BY <1>1, <1>2, UnheldDoings DEF UnheldInv, UnheldDoes
  <2> QED  BY <1>1, <2>1 DEF Tasking!In
<1> QED  BY <1>4, <1>5, UnheldMoves DEF Tasking!Next, Tasking!Create

(* What else a worker does its task does not notice.                       *)
LEMMA UnheldOtherMaps ==
    ASSUME SchedulerAssumption, UnheldInv, UnheldInv',
           NEW w \in Workers, Pop(w) \/ Free(w) \/ Repush(w)
    PROVE  UNCHANGED <<States, frame>>
<1>1. /\ pc[w] \in {"pop", "landed"} /\ finished' = finished
      /\ \E x \in {"switch", "pop", "dead"} : pc' = [pc EXCEPT ![w] = x]
      /\ \E t : cur' = [cur EXCEPT ![w] = t]
  BY DEF Pop, Free, Repush, At, Goto, Lands
<1>2. /\ pc'[w] # "run" /\ pc[w] # "run"
      /\ \A x \in Workers \ {w} : pc'[x] = pc[x] /\ cur'[x] = cur[x]
  BY <1>1 DEF UnheldInv, TypeOK
<1>3. \A u \in Tasks : Runs(u)' <=> Runs(u)
  BY <1>2 DEF Runs
<1>4. CASE Free(w)
  <2>1. /\ cur[w] \in Tasks /\ "terminated" \in flags[cur[w]]
        /\ life' = [life EXCEPT ![cur[w]] = "freed"]
        /\ life \in [Tasks -> {"unborn", "live", "freed"}]
    BY <1>4 DEF Free, At, UnheldInv, TypeOK
  <2>2. cur[w] \in finished /\ life[cur[w]] # "unborn"
    BY <2>1 DEF UnheldInv, Flagged
  <2>3. \A u \in Tasks : UnheldDoes(u)' = UnheldDoes(u)
    BY <1>1, <1>3, <2>1, <2>2 DEF UnheldDoes
  <2> QED  BY <2>3, UnheldStutter
<1>5. CASE Pop(w) \/ Repush(w)
  <2>1. \A u \in Tasks : UnheldDoes(u)' = UnheldDoes(u)
    BY <1>1, <1>3, <1>5 DEF UnheldDoes, Pop, Repush
  <2> QED  BY <2>1, UnheldStutter
<1> QED  BY <1>4, <1>5

(* With any number of workers, tasks that yield, create tasks and end are  *)
(* coroutines: each goes on when and where it suspended itself, on one     *)
(* worker at a time.                                                       *)
LEMMA UnheldCoroutines == ASSUME NothingHolds PROVE Spec => CoroutineSpec
<1>1. ASSUME SchedulerAssumption, Init PROVE Tasking!Init
  <2>1. \A t \in Tasks : Doing(t) = IF t \in Roots THEN "ready" ELSE "none"
    BY <1>1 DEF Init, Doing, At
  <2> QED  BY <1>1, <2>1 DEF Init, States, Tasking!Init
<1>2. ASSUME SchedulerAssumption, UnheldInv, UnheldInv', [Next]_vars
      PROVE [Tasking!Next]_<<States, frame>>
  <2>1. CASE UNCHANGED <<queue, life, finished, frame, waiting, pc, cur>>
    BY <2>1 DEF States, Doing, At, Queued
  <2>2. ASSUME NEW w \in Workers, WorkerStep(w) PROVE [Tasking!Next]_<<States, frame>>
    <3>1. /\ ~Await(w) /\ ~Spawn(w) /\ ~Hold(w) /\ ~Hook(w) /\ ~Wake(w)
          /\ \A cs \in SUBSET Tasks : ~Gather(w, cs)
      BY <1>2 DEF Await, Gather, NothingHolds, Spawn, Hold, Hook, Wake, At, UnheldInv, NothingHeld
    <3>2. ~Unhold(w)
      <4>1. pc[w] = "landed" => cur[w] \in Tasks
        BY <1>2 DEF UnheldInv, TypeOK
      <4>2. \A t \in Tasks : flags[t] \subseteq {"terminated"}
        BY <1>2 DEF UnheldInv, NothingHeld
      <4> QED  BY <4>1, <4>2 DEF Unhold, At
    <3> QED  BY <1>2, <2>2, <3>1, <3>2, UnheldSwitchMaps, UnheldStopMaps, UnheldCreateMaps,
                UnheldOtherMaps DEF WorkerStep, TaskStep
  <2>3. \A t \in Tasks : ~ModWake(t)
    BY <1>2 DEF ModWake, UnheldInv, NothingHeld
  <2> QED  BY <1>2, <2>1, <2>2, <2>3 DEF Next, MasterExit, Stopped, vars
<1>3. Init => Tasking!Init
  BY <1>1, SchedulerAssumption
<1>4. UnheldInv /\ UnheldInv' /\ [Next]_vars => [Tasking!Next]_<<States, frame>>
  BY <1>2, SchedulerAssumption
<1> QED  BY <1>3, <1>4, UnheldInductive, PTL DEF Spec, CoroutineSpec, Tasking!Spec
-----------------------------------------------------------------------------
(* There is one worker.                                                    *)
OneWorker == \E w : Workers = {w}

(* No gather is so large that g.count wraps.                               *)
FewTasks == Cardinality(Tasks) < UShort

(* The worker, where it is, and its task.                                  *)
Cpu   == CHOOSE w \in Workers : TRUE
place == pc[Cpu]
task  == cur[Cpu]

Leaves   == place = "hold" \/ (place = "landed" /\ "noschedule" \in flags[task])
Wakes(p) == place = "wake" /\ gather[task] = p

(* The tasks of p's gather that have not been subtracted from g.count.     *)
Undone(p) == { c \in frame[p] : "terminated" \notin flags[c] \/ (task = c /\ place = "hook") }

(* From its end to its free a task is with the worker; it is flagged       *)
(* "noschedule" only when the worker lands from it.                        *)
FlagsOf(t) ==
    /\ "terminated" \in flags[t] =>
         /\ t \in finished
         /\ life[t] = "freed" \/ (task = t /\ place \in {"hook", "wake", "landed"})
    /\ "noschedule" \in flags[t] => task = t /\ place = "landed" /\ "terminated" \notin flags[t]
    /\ life[t] = "freed" \/ t \in finished => "terminated" \in flags[t]
    /\ task = t => life[t] = "live"
    /\ task = t /\ place \in {"hook", "wake"} => "terminated" \in flags[t] /\ gather[t] # NoTask

(* The struct gather on the stack of p: its counter is the number of tasks *)
(* that have not ended, and it is gone when p runs on.                     *)
FrameOf(p) ==
    /\ frame[p] # {} => life[p] = "live" /\ gcount[p] = Cardinality(Undone(p))
    /\ task = p /\ place # "spawn" /\ ~Leaves =>
         Undone(p) = {} /\ (place # "switch" => frame[p] = {})
    /\ \A c \in frame[p] : life[c] # "unborn" /\ gather[c] \in {p, NoTask} /\ c # p
    /\ Unpushed(p) # {} <=> task = p /\ place = "spawn"
    /\ Wakes(p) => Undone(p) = {}

(* A task that has not told its gather that it has ended is in the frame   *)
(* its pointer leads to.                                                   *)
Child(c) ==
    gather[c] # NoTask =>
      /\ life[c] # "unborn"
      /\ "terminated" \notin flags[c] \/ (task = c /\ place \in {"hook", "wake"})
           => c \in frame[gather[c]]

(* A task is in one hand.                                                  *)
HandOf(t) ==
    /\ t \in Queued =>
         /\ life[t] = "live" /\ "terminated" \notin flags[t] /\ t \notin waiting
         /\ Undone(t) = {} /\ ~Wakes(t)
    /\ t \in waiting => life[t] = "live" /\ "terminated" \notin flags[t] /\ frame[t] = {}
    /\ t \in Queued \cup waiting /\ task = t => Leaves
    /\ \A p \in Tasks : t \in Unpushed(p) =>
         /\ life[t] = "live" /\ "terminated" \notin flags[t] /\ frame[t] = {}
         /\ t \notin Queued /\ t \notin waiting
    /\ life[t] = "live" =>
         \/ t \in Queued \cup waiting
         \/ task = t /\ ~Leaves
         \/ Undone(t) # {} \/ Wakes(t)
         \/ \E p \in Tasks : t \in Unpushed(p)

LoneInv ==
    /\ TypeOK
    /\ IsInjective(queue)
    /\ \A t \in Tasks : FlagsOf(t) /\ FrameOf(t) /\ Child(t) /\ HandOf(t)
    /\ AfterExit /\ place # "dead"
-----------------------------------------------------------------------------
(* There is one worker.                                                    *)
LEMMA Alone == ASSUME OneWorker PROVE Cpu \in Workers /\ \A w \in Workers : w = Cpu
BY DEF OneWorker, Cpu

(* What the type invariant says of the worker.                             *)
LEMMA CpuType ==
    ASSUME OneWorker, TypeOK
    PROVE  /\ place \in {"pop", "switch", "run", "spawn", "hold", "hook", "wake", "landed", "dead"}
           /\ task \in Tasks \cup {NoTask}
           /\ task = NoTask <=> place \in {"pop", "dead"}
BY Alone DEF TypeOK, place, task

(* What a step of the worker does to where it is.                          *)
LEMMA Moves ==
    ASSUME OneWorker, TypeOK, NEW w \in Workers
    PROVE  /\ w = Cpu /\ pc[w] = place /\ cur[w] = task
           /\ \A x : Goto(w, x) => place' = x
           /\ \A t : cur' = [cur EXCEPT ![w] = t] => task' = t
           /\ cur' = cur => task' = task
           /\ pc' = pc => place' = place
BY Alone DEF TypeOK, place, task, Goto

(* The tasks of a gather that have not ended are the same after a step     *)
(* that is not at the end of one.                                          *)
LEMMA SameUndone ==
    ASSUME UNCHANGED <<frame, flags>>, place # "hook", place' # "hook"
    PROVE  \A p : Undone(p)' = Undone(p)
BY DEF Undone

(* A counter below its limit does not wrap.                                *)
LEMMA SmallMod == ASSUME NEW n \in Nat, NEW k \in 0..n - 1 PROVE k % n = k
OBVIOUS

(* The queue after a push that is not refused.                             *)
LEMMA Pushed ==
    ASSUME LoneInv, NEW t \in Tasks, t \notin Queued, Enqueue(t)
    PROVE  queue' \in Seq(Tasks) /\ IsInjective(queue') /\ Queued' = Queued \cup {t}
BY Appended, ToSetIsRange DEF LoneInv, TypeOK, Enqueue, Queued

(* The worker takes the oldest task.                                       *)
LEMMA LonePop ==
    ASSUME SchedulerAssumption, OneWorker, LoneInv, NEW w \in Workers, Pop(w) PROVE LoneInv'
<1>1. /\ queue # <<>> /\ queue \in Seq(Tasks) /\ IsInjective(queue)
  BY DEF Pop, LoneInv, TypeOK
<1>2. PICK t \in Tasks : t = Head(queue) /\ t \in Queued
  BY <1>1, FirstGone, ToSetIsRange DEF Queued
<1>3. queue' \in Seq(Tasks) /\ IsInjective(queue') /\ Queued' = Queued \ {t}
  BY <1>1, <1>2, FirstGone, ToSetIsRange DEF Pop, Queued
<1>4. /\ place = "pop" /\ place' = "switch" /\ task = NoTask /\ task' = t /\ master = "loop"
      /\ UNCHANGED <<life, flags, finished, gather, frame, gcount, waiting, left, master>>
  BY <1>2, Moves, CpuType DEF Pop, At, LoneInv
<1>5. TypeOK'
  BY <1>2, <1>3 DEF LoneInv, TypeOK, Pop, Goto, SchedulerAssumption
<1>6. \A p \in Tasks : Undone(p)' = Undone(p) /\ Unpushed(p)' = Unpushed(p) /\ ~Wakes(p) /\ ~Wakes(p)'
  BY <1>4, SameUndone DEF Unpushed, Wakes
<1>7. ~Leaves /\ ~Leaves' /\ t # NoTask
  BY <1>4 DEF Leaves, SchedulerAssumption
<1>8. ASSUME NEW u \in Tasks PROVE FlagsOf(u)'
  BY <1>2, <1>4, <1>7 DEF LoneInv, FlagsOf, HandOf, SchedulerAssumption
<1>9. ASSUME NEW u \in Tasks PROVE FrameOf(u)'
  BY <1>2, <1>4, <1>6, <1>7 DEF LoneInv, FrameOf, HandOf, SchedulerAssumption
<1>10. ASSUME NEW u \in Tasks PROVE Child(u)' /\ HandOf(u)'
  BY <1>2, <1>3, <1>4, <1>6, <1>7 DEF LoneInv, Child, HandOf, SchedulerAssumption
<1>11. AfterExit' /\ place' # "dead"
  BY <1>4 DEF LoneInv, AfterExit
<1> QED  BY <1>3, <1>5, <1>8, <1>9, <1>10, <1>11 DEF LoneInv

(* The only task that runs: it is nowhere else, and has no flag.           *)
LEMMA Running ==
    ASSUME SchedulerAssumption, OneWorker, LoneInv, place \in {"switch", "run", "spawn"}
    PROVE  /\ task \in Tasks /\ task # NoTask /\ flags[task] = {} /\ life[task] = "live"
           /\ task \notin Queued /\ task \notin waiting /\ task \notin finished
           /\ \A p \in Tasks : ~Wakes(p) /\ task \notin Unpushed(p)
           /\ place # "spawn" => Undone(task) = {}
           /\ place = "run" => frame[task] = {}
           /\ ~Leaves /\ master = "loop"
<1>1. task \in Tasks /\ task # NoTask /\ ~Leaves /\ \A p \in Tasks : ~Wakes(p)
  BY CpuType DEF LoneInv, Leaves, Wakes, SchedulerAssumption
<1>2. flags[task] = {}
  <2>1. "terminated" \notin flags[task] /\ "noschedule" \notin flags[task]
    BY <1>1 DEF LoneInv, FlagsOf
  <2>2. flags[task] \subseteq {"terminated", "noschedule"}
    BY <1>1 DEF LoneInv, TypeOK
  <2> QED  BY <2>1, <2>2
<1>3. task \notin Queued /\ task \notin waiting /\ life[task] = "live" /\ task \notin finished
  BY <1>1, <1>2 DEF LoneInv, FlagsOf, HandOf
<1>4. \A p \in Tasks : task \notin Unpushed(p)
  <2> SUFFICES ASSUME NEW p \in Tasks, task \in Unpushed(p) PROVE FALSE
    OBVIOUS
  <2>1. p = task
    BY DEF LoneInv, FrameOf
  <2> QED  BY <1>1, <2>1 DEF LoneInv, FrameOf, Unpushed
<1>5. master = "loop"
  BY <1>1, <1>3 DEF LoneInv, AfterExit, TypeOK
<1> QED  BY <1>1, <1>2, <1>3, <1>4, <1>5 DEF LoneInv, FrameOf

(* The task goes on; a gather it was in is over, and its frame is gone.    *)
LEMMA LoneSwitch ==
    ASSUME SchedulerAssumption, OneWorker, LoneInv, NEW w \in Workers, Switch(w) PROVE LoneInv'
<1>1. /\ place = "switch" /\ place' = "run" /\ task' = task
      /\ frame' = [frame EXCEPT ![task] = {}] /\ Queued' = Queued
      /\ UNCHANGED <<queue, life, flags, finished, gather, gcount, waiting, left, master>>
  BY Moves DEF Switch, At, LoneInv, Queued
<1>2. /\ task \in Tasks /\ flags[task] = {} /\ life[task] = "live" /\ Undone(task) = {}
      /\ ~Leaves /\ ~Leaves' /\ task \notin Queued /\ task \notin waiting
      /\ frame \in [Tasks -> SUBSET Tasks]
  BY <1>1, Running DEF Leaves, LoneInv, TypeOK
<1>3. TypeOK'
  <2>1. frame' \in [Tasks -> SUBSET Tasks]
    BY <1>1, <1>2
  <2> QED  BY <2>1 DEF LoneInv, TypeOK, Switch, Goto, At
<1>4. \A p \in Tasks : /\ Undone(p)' = Undone(p) /\ Unpushed(p) = {} /\ Unpushed(p)' = {}
                       /\ ~Wakes(p) /\ ~Wakes(p)'
                       /\ frame'[p] = IF p = task THEN {} ELSE frame[p]
  <2>1. \A p \in Tasks : Undone(p)' = Undone(p)
    BY <1>1, <1>2 DEF Undone
  <2>2. \A p \in Tasks : Unpushed(p) = {}
    BY <1>1 DEF LoneInv, FrameOf
  <2> QED  BY <1>1, <1>2, <2>1, <2>2 DEF Unpushed, Wakes
<1>5. ASSUME NEW u \in Tasks PROVE FlagsOf(u)' /\ FrameOf(u)' /\ HandOf(u)'
  BY <1>1, <1>2, <1>4 DEF LoneInv, FlagsOf, FrameOf, HandOf
<1>6. ASSUME NEW u \in Tasks PROVE Child(u)'
  <2>1. gather[u] = task /\ u \in frame[task] => "terminated" \in flags[u] /\ u # task
    BY <1>1, <1>2 DEF Undone, LoneInv, FrameOf
  <2>2. gather[u] \in Tasks \cup {NoTask}
    BY DEF LoneInv, TypeOK
  <2> QED  BY <1>1, <1>4, <2>1, <2>2 DEF LoneInv, Child
<1> QED  BY <1>1, <1>3, <1>5, <1>6 DEF LoneInv, AfterExit

(* The task suspends itself.                                               *)
LEMMA LoneRelax ==
    ASSUME SchedulerAssumption, OneWorker, LoneInv, NEW w \in Workers, Relax(w) PROVE LoneInv'
<1>1. /\ place = "run" /\ place' = "landed" /\ task' = task /\ Queued' = Queued
      /\ UNCHANGED <<queue, life, flags, finished, gather, frame, gcount, waiting, master>>
  BY Moves DEF Relax, At, LoneInv, Queued
<1>2. task \in Tasks /\ flags[task] = {} /\ ~Leaves /\ ~Leaves'
  BY <1>1, Running DEF Leaves
<1>3. left' \in [Tasks -> 0..MaxLeft]
  <2>1. cur[w] = task /\ left \in [Tasks -> 0..MaxLeft] /\ MaxLeft \in Nat
    BY Moves DEF LoneInv, TypeOK, SchedulerAssumption
  <2> QED  BY <1>2, <2>1 DEF Relax, Suspends
<1>4. TypeOK'
  BY <1>3 DEF Relax, Goto, At, LoneInv, TypeOK
<1>5. \A p \in Tasks : /\ Undone(p)' = Undone(p) /\ Unpushed(p)' = Unpushed(p)
                       /\ ~Wakes(p) /\ ~Wakes(p)'
  BY <1>1, SameUndone DEF Unpushed, Wakes
<1>6. ASSUME NEW u \in Tasks PROVE FlagsOf(u)' /\ FrameOf(u)' /\ HandOf(u)' /\ Child(u)'
  BY <1>1, <1>2, <1>5 DEF LoneInv, FlagsOf, FrameOf, HandOf, Child
<1> QED  BY <1>1, <1>4, <1>6 DEF LoneInv, AfterExit

(* The task registers with a module.                                       *)
LEMMA LoneAwait ==
    ASSUME SchedulerAssumption, OneWorker, LoneInv, NEW w \in Workers, Await(w) PROVE LoneInv'
<1>1. /\ place = "run" /\ place' = "hold" /\ task' = task /\ waiting' = waiting \cup {task}
      /\ Queued' = Queued
      /\ UNCHANGED <<queue, life, flags, finished, gather, frame, gcount, master>>
  BY Moves DEF Await, At, LoneInv, Queued
<1>2. /\ task \in Tasks /\ flags[task] = {} /\ life[task] = "live" /\ task \notin Queued
      /\ frame[task] = {} /\ ~Leaves /\ Leaves'
  BY <1>1, Running DEF Leaves
<1>3. left' \in [Tasks -> 0..MaxLeft]
  <2>1. cur[w] = task /\ left \in [Tasks -> 0..MaxLeft] /\ MaxLeft \in Nat
    BY Moves DEF LoneInv, TypeOK, SchedulerAssumption
  <2> QED  BY <1>2, <2>1 DEF Await, Suspends
<1>4. TypeOK'
  BY <1>1, <1>2, <1>3 DEF Await, Goto, At, LoneInv, TypeOK
<1>5. \A p \in Tasks : /\ Undone(p)' = Undone(p) /\ Unpushed(p)' = Unpushed(p)
                       /\ ~Wakes(p) /\ ~Wakes(p)'
  BY <1>1, SameUndone DEF Unpushed, Wakes
<1>6. \A p \in Tasks : task \notin Unpushed(p)
  BY <1>1, Running
<1>7. ASSUME NEW u \in Tasks PROVE FlagsOf(u)' /\ FrameOf(u)' /\ HandOf(u)' /\ Child(u)'
  BY <1>1, <1>2, <1>5, <1>6 DEF LoneInv, FlagsOf, FrameOf, HandOf, Child
<1> QED  BY <1>1, <1>4, <1>7 DEF LoneInv, AfterExit

(* The task flags itself and leaves the worker.                            *)
LEMMA LoneHold ==
    ASSUME SchedulerAssumption, OneWorker, LoneInv, NEW w \in Workers, Hold(w) PROVE LoneInv'
<1>1. /\ place = "hold" /\ place' = "landed" /\ task' = task /\ Queued' = Queued
      /\ flags' = [flags EXCEPT ![task] = @ \cup {"noschedule"}]
      /\ UNCHANGED <<queue, life, finished, gather, frame, gcount, waiting, left, master>>
  BY Moves DEF Hold, At, LoneInv, Queued
<1>2. task \in Tasks /\ flags \in [Tasks -> SUBSET {"terminated", "noschedule"}]
  BY <1>1, CpuType DEF LoneInv, TypeOK
<1>3. "terminated" \notin flags[task] /\ Leaves /\ Leaves'
  BY <1>1, <1>2 DEF LoneInv, FlagsOf, Leaves
<1>4. TypeOK'
  <2>1. flags' \in [Tasks -> SUBSET {"terminated", "noschedule"}]
    BY <1>1, <1>2
  <2> QED  BY <2>1 DEF Hold, Goto, At, LoneInv, TypeOK
<1>5. \A u \in Tasks : /\ "terminated" \in flags'[u] <=> "terminated" \in flags[u]
                       /\ u # task => flags'[u] = flags[u]
  BY <1>1, <1>2
<1>6. \A p \in Tasks : /\ Undone(p)' = Undone(p) /\ Unpushed(p)' = Unpushed(p)
                       /\ ~Wakes(p) /\ ~Wakes(p)'
  <2>1. ASSUME NEW p \in Tasks PROVE frame[p] \subseteq Tasks
    BY DEF LoneInv, TypeOK
  <2> QED  BY <1>1, <1>5, <2>1 DEF Undone, Unpushed, Wakes
<1>7. ASSUME NEW u \in Tasks PROVE FlagsOf(u)' /\ FrameOf(u)' /\ HandOf(u)' /\ Child(u)'
  BY <1>1, <1>2, <1>3, <1>5, <1>6 DEF LoneInv, FlagsOf, FrameOf, HandOf, Child
<1> QED  BY <1>1, <1>4, <1>7 DEF LoneInv, AfterExit

(* The function of the task returns; its gather, if it has one, still      *)
(* counts it.                                                              *)
LEMMA LoneReturn ==
    ASSUME SchedulerAssumption, OneWorker, LoneInv, NEW w \in Workers, Return(w) PROVE LoneInv'
<1>1. /\ place = "run" /\ task' = task /\ Queued' = Queued
      /\ place' = (IF gather[task] = NoTask THEN "landed" ELSE "hook")
      /\ flags' = [flags EXCEPT ![task] = @ \cup {"terminated"}]
      /\ finished' = finished \cup {task}
      /\ UNCHANGED <<queue, life, gather, frame, gcount, waiting, left, master>>
  BY Moves DEF Return, At, LoneInv, Queued
<1>2. /\ task \in Tasks /\ flags[task] = {} /\ life[task] = "live" /\ frame[task] = {}
      /\ task \notin Queued /\ task \notin waiting /\ \A p \in Tasks : task \notin Unpushed(p)
      /\ flags \in [Tasks -> SUBSET {"terminated", "noschedule"}]
  BY <1>1, Running DEF LoneInv, TypeOK
<1>3. /\ flags' \in [Tasks -> SUBSET {"terminated", "noschedule"}]
      /\ flags'[task] = {"terminated"} /\ \A u \in Tasks : u # task => flags'[u] = flags[u]
  BY <1>1, <1>2
<1>4. ~Leaves /\ ~Leaves'
  BY <1>1, <1>2, <1>3 DEF Leaves
<1>5. TypeOK'
  BY <1>1, <1>2, <1>3 DEF LoneInv, TypeOK, Return, Goto, At
<1>6. \A p \in Tasks : /\ Undone(p)' = Undone(p) /\ Unpushed(p)' = Unpushed(p)
                       /\ ~Wakes(p) /\ ~Wakes(p)'
  <2>1. ASSUME NEW p \in Tasks, task \in frame[p] PROVE gather[task] # NoTask
    BY <1>2, <2>1 DEF Unpushed
  <2>2. ASSUME NEW p \in Tasks PROVE frame[p] \subseteq Tasks
    BY DEF LoneInv, TypeOK
  <2>3. ASSUME NEW p \in Tasks PROVE Undone(p)' = Undone(p)
    BY <1>1, <1>2, <1>3, <2>1, <2>2 DEF Undone
  <2> QED  BY <1>1, <2>3 DEF Unpushed, Wakes
<1>7. ASSUME NEW u \in Tasks PROVE FlagsOf(u)' /\ FrameOf(u)' /\ HandOf(u)' /\ Child(u)'
  BY <1>1, <1>2, <1>3, <1>4, <1>6 DEF LoneInv, FlagsOf, FrameOf, HandOf, Child
<1> QED  BY <1>1, <1>5, <1>7 DEF LoneInv, AfterExit

(* A worker at the end of a task: the task is flagged and in no other hand.*)
LEMMA Ending ==
    ASSUME SchedulerAssumption, OneWorker, LoneInv,
           place \in {"hook", "wake"} \/ (place = "landed" /\ ~Leaves)
    PROVE  /\ task \in Tasks /\ task # NoTask /\ life[task] = "live"
           /\ task \notin Queued /\ task \notin waiting /\ \A p \in Tasks : task \notin Unpushed(p)
           /\ frame[task] = {} /\ ~Leaves /\ "noschedule" \notin flags[task]
           /\ \A p \in Tasks : Unpushed(p) = {}
           /\ place \in {"hook", "wake"} =>
                /\ "terminated" \in flags[task]
                /\ gather[task] \in Tasks /\ task \in frame[gather[task]]
                /\ gather[task] # task
<1>1. task \in Tasks /\ task # NoTask /\ ~Leaves
  BY CpuType DEF LoneInv, Leaves, SchedulerAssumption
<1>2. \A p \in Tasks : Unpushed(p) = {}
  BY DEF LoneInv, FrameOf
<1>3. "noschedule" \notin flags[task]
  BY <1>1 DEF LoneInv, FlagsOf, Leaves
<1>4. life[task] = "live" /\ task \notin Queued /\ task \notin waiting /\ frame[task] = {}
  BY <1>1 DEF LoneInv, FlagsOf, HandOf, FrameOf
<1>5. ASSUME place \in {"hook", "wake"}
      PROVE  /\ "terminated" \in flags[task] /\ gather[task] \in Tasks
             /\ task \in frame[gather[task]] /\ gather[task] # task
  <2>1. "terminated" \in flags[task] /\ gather[task] # NoTask
    BY <1>1, <1>5 DEF LoneInv, FlagsOf
  <2>2. gather[task] \in Tasks
    BY <1>1, <2>1 DEF LoneInv, TypeOK
  <2>3. task \in frame[gather[task]]
    BY <1>1, <1>5, <2>1 DEF LoneInv, Child
  <2> QED  BY <1>4, <2>1, <2>2, <2>3
<1> QED  BY <1>1, <1>2, <1>3, <1>4, <1>5

(* Its gather counts one task less; the last one is to wake the parent.    *)
LEMMA LoneHook ==
    ASSUME SchedulerAssumption, OneWorker, LoneInv, NEW w \in Workers, Hook(w) PROVE LoneInv'
<1>1. PICK p \in Tasks : p = gather[task] /\ p # task /\ task \in frame[p]
  BY Moves, Ending DEF Hook, At, LoneInv
<1>2. /\ place = "hook" /\ task' = task /\ Queued' = Queued
      /\ gcount' = [gcount EXCEPT ![p] = (gcount[p] - 1) % UShort]
      /\ place' = (IF (gcount[p] - 1) % UShort = 0 THEN "wake" ELSE "landed")
      /\ UNCHANGED <<queue, life, flags, finished, gather, frame, waiting, left, master>>
  BY <1>1, Moves DEF Hook, LastOne, At, LoneInv, Queued
<1>3. /\ task \in Tasks /\ "terminated" \in flags[task] /\ "noschedule" \notin flags[task]
      /\ frame[task] = {} /\ task \notin Queued /\ task \notin waiting
      /\ ~Leaves /\ life[task] = "live"
      /\ \A q \in Tasks : Unpushed(q) = {}
  BY <1>2, Ending
<1>4. task \in Undone(p) /\ Undone(p)' = Undone(p) \ {task}
  BY <1>1, <1>2, <1>3 DEF Undone
<1>5. \A q \in Tasks : q # p => Undone(q)' = Undone(q)
  <2> SUFFICES ASSUME NEW q \in Tasks, q # p PROVE Undone(q)' = Undone(q)
    OBVIOUS
  <2>1. task \notin frame[q]
    <3>1. task \in frame[q] => gather[task] \in {q, NoTask}
      BY DEF LoneInv, FrameOf
    <3> QED  BY <1>1, <3>1 DEF SchedulerAssumption
  <2> QED  BY <1>2, <2>1 DEF Undone
<1>6. /\ gcount[p] = Cardinality(Undone(p)) /\ IsFiniteSet(Undone(p))
      /\ gcount[p] \in 1..UShort - 1 /\ UShort \in Nat
  <2>1. IsFiniteSet(Undone(p))
    <3>1. Undone(p) \subseteq Tasks
      BY DEF Undone, LoneInv, TypeOK
    <3> QED  BY <3>1, FS_Subset DEF SchedulerAssumption
  <2>2. gcount[p] = Cardinality(Undone(p)) /\ gcount[p] \in 0..UShort - 1
    BY <1>1 DEF LoneInv, FrameOf, TypeOK
  <2>3. Cardinality(Undone(p)) # 0
    BY <1>4, <2>1, FS_EmptySet
  <2> QED  BY <2>1, <2>2, <2>3 DEF SchedulerAssumption
<1>7. (gcount[p] - 1) % UShort = gcount[p] - 1
  BY <1>6, SmallMod
<1>8. /\ gcount'[p] = Cardinality(Undone(p)') /\ gcount'[p] \in 0..UShort - 1
      /\ gcount'[p] = 0 <=> Undone(p)' = {}
      /\ \A q \in Tasks : q # p => gcount'[q] = gcount[q]
      /\ place' = IF Undone(p)' = {} THEN "wake" ELSE "landed"
  <2>1. gcount \in [Tasks -> 0..UShort - 1]
    BY DEF LoneInv, TypeOK
  <2>2. gcount'[p] = gcount[p] - 1 /\ \A q \in Tasks : q # p => gcount'[q] = gcount[q]
    BY <1>2, <1>7, <2>1
  <2>3. IsFiniteSet(Undone(p)') /\ Cardinality(Undone(p)') = Cardinality(Undone(p)) - 1
    BY <1>4, <1>6, FS_RemoveElement
  <2>4. Cardinality(Undone(p)') = 0 <=> Undone(p)' = {}
    BY <2>3, FS_EmptySet
  <2> QED  BY <1>2, <1>6, <1>7, <2>2, <2>3, <2>4
<1>9. TypeOK'
  <2>1. gcount' \in [Tasks -> 0..UShort - 1]
    BY <1>2, <1>8 DEF LoneInv, TypeOK
  <2>2. \E x \in {"wake", "landed"} : pc' = [pc EXCEPT ![w] = x]
    BY DEF Hook, Goto
  <2>3. pc[w] = "hook" /\ cur' = cur
    BY DEF Hook, At
  <2> QED  BY <1>2, <2>1, <2>2, <2>3 DEF LoneInv, TypeOK
<1>10. /\ ~Leaves'
       /\ \A q \in Tasks : /\ Unpushed(q)' = {} /\ ~Wakes(q)
                           /\ Wakes(q)' <=> q = p /\ Undone(p)' = {}
  BY <1>1, <1>2, <1>3, <1>8 DEF Leaves, Unpushed, Wakes
<1>11. ASSUME NEW u \in Tasks PROVE FlagsOf(u)'
  BY <1>1, <1>2, <1>3, <1>8, SchedulerAssumption DEF LoneInv, FlagsOf, SchedulerAssumption
<1>12. ASSUME NEW u \in Tasks PROVE FrameOf(u)'
  <2>1. FrameOf(u) /\ Undone(u)' \subseteq Undone(u)
    BY <1>4, <1>5 DEF LoneInv
  <2>2. frame'[u] # {} => life'[u] = "live" /\ gcount'[u] = Cardinality(Undone(u)')
    <3>1. frame[u] # {} => life[u] = "live" /\ gcount[u] = Cardinality(Undone(u))
      BY <2>1 DEF FrameOf
    <3>2. CASE u = p
      BY <1>2, <1>8, <3>1, <3>2
    <3>3. CASE u # p
      BY <1>2, <1>5, <1>8, <3>1, <3>3
    <3> QED  BY <3>2, <3>3
  <2>3. task' = u => Undone(u)' = {} /\ frame'[u] = {}
    BY <1>2, <1>3 DEF Undone
  <2>4. Unpushed(u)' = {} /\ (Wakes(u)' => Undone(u)' = {})
    BY <1>10
  <2>5. \A c \in frame'[u] : life'[c] # "unborn" /\ gather'[c] \in {u, NoTask} /\ c # u
    BY <1>2, <2>1 DEF FrameOf
  <2> QED  BY <1>8, <2>2, <2>3, <2>4, <2>5 DEF FrameOf
<1>13. ASSUME NEW u \in Tasks PROVE Child(u)'
  BY <1>1, <1>2 DEF LoneInv, Child
<1>14. ASSUME NEW u \in Tasks PROVE HandOf(u)'
  BY <1>1, <1>2, <1>3, <1>4, <1>5, <1>10 DEF LoneInv, HandOf
<1> QED  BY <1>2, <1>8, <1>9, <1>11, <1>12, <1>13, <1>14 DEF LoneInv, AfterExit

(* The last task of a gather pushes the parent: nobody has pushed it since *)
(* it went to sleep.                                                       *)
LEMMA LoneWake ==
    ASSUME SchedulerAssumption, OneWorker, LoneInv, NEW w \in Workers, Wake(w) PROVE LoneInv'
<1>1. PICK p \in Tasks : p = gather[task] /\ p # task /\ task \in frame[p]
  BY Moves, Ending DEF Wake, At, LoneInv
<1>2. /\ place = "wake" /\ place' = "landed" /\ task' = task /\ Enqueue(p)
      /\ UNCHANGED <<life, flags, finished, gather, frame, gcount, waiting, left, master>>
  BY <1>1, Moves DEF Wake, At, LoneInv
<1>3. /\ task \in Tasks /\ "terminated" \in flags[task] /\ "noschedule" \notin flags[task]
      /\ frame[task] = {} /\ task \notin Queued /\ task \notin waiting
      /\ ~Leaves /\ ~Leaves' /\ life[task] = "live"
      /\ \A q \in Tasks : Unpushed(q) = {} /\ Unpushed(q)' = {}
  BY <1>2, Ending DEF Leaves, Unpushed
<1>4. /\ \A q \in Tasks : (Wakes(q) <=> q = p) /\ ~Wakes(q)' /\ Undone(q)' = Undone(q)
      /\ Undone(p) = {} /\ life[p] = "live" /\ "terminated" \notin flags[p]
  <2>1. \A q \in Tasks : (Wakes(q) <=> q = p) /\ ~Wakes(q)' /\ Undone(q)' = Undone(q)
    BY <1>1, <1>2, SameUndone DEF Wakes
  <2>2. Undone(p) = {} /\ life[p] = "live"
    BY <1>1, <2>1 DEF LoneInv, FrameOf
  <2>3. "terminated" \notin flags[p]
    BY <1>1, <2>2 DEF LoneInv, FlagsOf
  <2> QED  BY <2>1, <2>2, <2>3
<1>5. p \notin Queued /\ p \notin waiting
  BY <1>1, <1>4 DEF LoneInv, HandOf
<1>6. queue' \in Seq(Tasks) /\ IsInjective(queue') /\ Queued' = Queued \cup {p}
  BY <1>2, <1>5, Pushed
<1>7. TypeOK'
  BY <1>6 DEF LoneInv, TypeOK, Wake, Goto, At
<1>8. ASSUME NEW u \in Tasks PROVE FlagsOf(u)' /\ FrameOf(u)' /\ Child(u)'
  BY <1>2, <1>3, <1>4 DEF LoneInv, FlagsOf, FrameOf, Child
<1>9. ASSUME NEW u \in Tasks PROVE HandOf(u)'
  BY <1>1, <1>2, <1>3, <1>4, <1>5, <1>6 DEF LoneInv, HandOf
<1> QED  BY <1>2, <1>6, <1>7, <1>8, <1>9 DEF LoneInv, AfterExit

(* The worker is done with its task.                                       *)
LEMMA Landing ==
    ASSUME OneWorker, TypeOK, NEW w \in Workers, NEW x \in {"pop", "dead"}, Lands(w, x)
    PROVE  /\ task' = NoTask /\ place' = x /\ ~Leaves' /\ \A p : ~Wakes(p)'
           /\ pc' \in [Workers -> {"pop", "switch", "run", "spawn", "hold", "hook", "wake", "landed", "dead"}]
           /\ cur' \in [Workers -> Tasks \cup {NoTask}]
           /\ \A y \in Workers : cur'[y] = NoTask <=> pc'[y] \in {"pop", "dead"}
<1>1. task' = NoTask /\ place' = x
  BY Moves DEF Lands
<1>2. /\ pc' \in [Workers -> {"pop", "switch", "run", "spawn", "hold", "hook", "wake", "landed", "dead"}]
      /\ cur' \in [Workers -> Tasks \cup {NoTask}]
      /\ \A y \in Workers : cur'[y] = NoTask <=> pc'[y] \in {"pop", "dead"}
  BY DEF Lands, Goto, TypeOK
<1> QED  BY <1>1, <1>2 DEF Leaves, Wakes

(* It frees the task.                                                      *)
LEMMA LoneFree ==
    ASSUME SchedulerAssumption, OneWorker, LoneInv, NEW w \in Workers, Free(w) PROVE LoneInv'
<1>1. /\ place = "landed" /\ "terminated" \in flags[task] /\ task \in Tasks
      /\ life' = [life EXCEPT ![task] = "freed"] /\ Lands(w, "pop") /\ Queued' = Queued
      /\ UNCHANGED <<queue, flags, finished, gather, frame, gcount, waiting, left, master>>
  BY Moves, CpuType DEF Free, At, LoneInv, Queued
<1>2. /\ task' = NoTask /\ place' = "pop" /\ ~Leaves' /\ \A p : ~Wakes(p)'
      /\ task # NoTask
  BY <1>1, Landing DEF LoneInv, SchedulerAssumption
<1>3. ~Leaves
  BY <1>1 DEF LoneInv, FlagsOf, Leaves
<1>4. /\ frame[task] = {} /\ task \notin Queued /\ task \notin waiting
      /\ \A q \in Tasks : task \notin Unpushed(q) /\ Unpushed(q)' = Unpushed(q)
      /\ \A q \in Tasks : ~Wakes(q) /\ Undone(q)' = Undone(q)
  BY <1>1, <1>2, <1>3, Ending, SameUndone DEF Unpushed, Wakes
<1>5. TypeOK'
  <2>1. life' \in [Tasks -> {"unborn", "live", "freed"}]
    BY <1>1 DEF LoneInv, TypeOK
  <2> QED  BY <1>1, <2>1, Landing DEF LoneInv, TypeOK
<1>6. \A u \in Tasks : life'[u] = IF u = task THEN "freed" ELSE life[u]
  BY <1>1 DEF LoneInv, TypeOK
<1>7. ASSUME NEW u \in Tasks PROVE FlagsOf(u)' /\ FrameOf(u)'
  BY <1>1, <1>2, <1>3, <1>4, <1>6 DEF LoneInv, FlagsOf, FrameOf, SchedulerAssumption
<1>8. ASSUME NEW u \in Tasks PROVE Child(u)' /\ HandOf(u)'
  BY <1>1, <1>2, <1>3, <1>4, <1>6 DEF LoneInv, Child, HandOf, SchedulerAssumption
<1> QED  BY <1>1, <1>2, <1>5, <1>6, <1>7, <1>8 DEF LoneInv, AfterExit

(* It leaves the task to who holds it.                                     *)
LEMMA LoneUnhold ==
    ASSUME SchedulerAssumption, OneWorker, LoneInv, NEW w \in Workers, Unhold(w) PROVE LoneInv'
<1>1. /\ place = "landed" /\ "noschedule" \in flags[task] /\ task \in Tasks /\ Leaves
      /\ "terminated" \notin flags[task]
      /\ flags' = [flags EXCEPT ![task] = @ \ {"noschedule"}] /\ Lands(w, "pop") /\ Queued' = Queued
      /\ UNCHANGED <<queue, life, finished, gather, frame, gcount, waiting, left, master>>
  BY Moves, CpuType DEF Unhold, Unheld, At, LoneInv, Queued, Leaves
<1>2. /\ task' = NoTask /\ place' = "pop" /\ ~Leaves' /\ \A p : ~Wakes(p)'
      /\ task # NoTask
  BY <1>1, Landing DEF LoneInv, SchedulerAssumption
<1>3. flags \in [Tasks -> SUBSET {"terminated", "noschedule"}]
  BY DEF LoneInv, TypeOK
<1>4. /\ flags' \in [Tasks -> SUBSET {"terminated", "noschedule"}]
      /\ \A u \in Tasks : /\ "terminated" \in flags'[u] <=> "terminated" \in flags[u]
                          /\ u # task => flags'[u] = flags[u]
                          /\ "noschedule" \notin flags'[task]
  BY <1>1, <1>3
<1>5. \A q \in Tasks : /\ ~Wakes(q) /\ Undone(q)' = Undone(q) /\ Unpushed(q)' = Unpushed(q)
  <2>1. ASSUME NEW q \in Tasks PROVE frame[q] \subseteq Tasks
    BY DEF LoneInv, TypeOK
  <2> QED  BY <1>1, <1>2, <1>4, <2>1 DEF Undone, Unpushed, Wakes
<1>6. TypeOK'
  BY <1>1, <1>4, Landing DEF LoneInv, TypeOK
<1>7. ASSUME NEW u \in Tasks PROVE FlagsOf(u)' /\ FrameOf(u)'
  BY <1>1, <1>2, <1>4, <1>5 DEF LoneInv, FlagsOf, FrameOf, SchedulerAssumption
<1>8. ASSUME NEW u \in Tasks PROVE Child(u)' /\ HandOf(u)'
  BY <1>1, <1>2, <1>4, <1>5 DEF LoneInv, Child, HandOf, SchedulerAssumption
<1> QED  BY <1>1, <1>2, <1>6, <1>7, <1>8 DEF LoneInv, AfterExit

(* It puts the task back: the push is not refused.                         *)
LEMMA LoneRepush ==
    ASSUME SchedulerAssumption, OneWorker, LoneInv, NEW w \in Workers, Repush(w) PROVE LoneInv'
<1>1. /\ place = "landed" /\ flags[task] = {} /\ task \in Tasks /\ Enqueue(task)
      /\ Lands(w, IF task \in Queued THEN "dead" ELSE "pop")
      /\ UNCHANGED <<life, flags, finished, gather, frame, gcount, waiting, left, master>>
  BY Moves, CpuType DEF Repush, At, LoneInv
<1>2. ~Leaves
  BY <1>1 DEF Leaves
<1>3. /\ frame[task] = {} /\ task \notin Queued /\ task \notin waiting /\ life[task] = "live"
      /\ task # NoTask
      /\ \A q \in Tasks : task \notin Unpushed(q) /\ Unpushed(q)' = Unpushed(q)
  BY <1>1, <1>2, Ending DEF Unpushed
<1>4. Lands(w, "pop")
  BY <1>1, <1>3
<1>5. /\ task' = NoTask /\ place' = "pop" /\ ~Leaves' /\ \A p : ~Wakes(p)'
  BY <1>4, Landing DEF LoneInv
<1>6. queue' \in Seq(Tasks) /\ IsInjective(queue') /\ Queued' = Queued \cup {task}
  BY <1>1, <1>3, Pushed
<1>7. Undone(task) = {} /\ \A q \in Tasks : ~Wakes(q) /\ Undone(q)' = Undone(q)
  BY <1>1, <1>3, <1>5, SameUndone DEF Wakes, Undone
<1>8. TypeOK'
  BY <1>1, <1>4, <1>6, Landing DEF LoneInv, TypeOK
<1>9. ASSUME NEW u \in Tasks PROVE FlagsOf(u)' /\ FrameOf(u)'
  BY <1>1, <1>2, <1>3, <1>5, <1>7 DEF LoneInv, FlagsOf, FrameOf, SchedulerAssumption
<1>10. ASSUME NEW u \in Tasks PROVE Child(u)' /\ HandOf(u)'
  BY <1>1, <1>2, <1>3, <1>5, <1>6, <1>7 DEF LoneInv, Child, HandOf, SchedulerAssumption
<1> QED  BY <1>1, <1>5, <1>6, <1>8, <1>9, <1>10 DEF LoneInv, AfterExit

(* The event of t came: its module pushes it.                              *)
LEMMA LoneModWake ==
    ASSUME SchedulerAssumption, OneWorker, LoneInv, NEW t \in Tasks, ModWake(t) PROVE LoneInv'
<1>1. /\ t \in waiting /\ waiting' = waiting \ {t} /\ Enqueue(t)
      /\ place' = place /\ task' = task
      /\ UNCHANGED <<life, flags, finished, gather, frame, gcount, left, pc, cur, master>>
  BY DEF ModWake, place, task
<1>2. /\ t \notin Queued /\ frame[t] = {} /\ life[t] = "live" /\ "terminated" \notin flags[t]
      /\ task = t => Leaves
  BY <1>1 DEF LoneInv, HandOf
<1>3. queue' \in Seq(Tasks) /\ IsInjective(queue') /\ Queued' = Queued \cup {t}
  BY <1>1, <1>2, Pushed
<1>4. /\ Leaves' <=> Leaves
      /\ \A q \in Tasks : /\ Unpushed(q)' = Unpushed(q) /\ Undone(q)' = Undone(q)
                          /\ Wakes(q)' <=> Wakes(q)
  BY <1>1 DEF Leaves, Unpushed, Undone, Wakes
<1>5. ~Wakes(t) /\ Undone(t) = {}
  BY <1>2, Ending DEF Wakes, Undone
<1>6. \A q \in Tasks : t \notin Unpushed(q)
  BY <1>1 DEF LoneInv, HandOf
<1>7. TypeOK'
  BY <1>1, <1>3 DEF LoneInv, TypeOK
<1>8. ASSUME NEW u \in Tasks PROVE FlagsOf(u)' /\ FrameOf(u)' /\ Child(u)' /\ HandOf(u)'
  BY <1>1, <1>2, <1>3, <1>4, <1>5, <1>6 DEF LoneInv, FlagsOf, FrameOf, Child, HandOf
<1> QED  BY <1>1, <1>3, <1>7, <1>8 DEF LoneInv, AfterExit

(* A task that does not exist yet is nowhere.                              *)
LEMMA Unborn ==
    ASSUME SchedulerAssumption, OneWorker, LoneInv, NEW c \in Tasks, life[c] = "unborn"
    PROVE  /\ c \notin Queued /\ c \notin waiting /\ flags[c] = {} /\ frame[c] = {}
           /\ gather[c] = NoTask /\ task # c /\ c \notin finished
           /\ ~Wakes(c) /\ Undone(c) = {}
           /\ \A p \in Tasks : c \notin frame[p]
<1>1. c \notin Queued /\ c \notin waiting /\ frame[c] = {} /\ task # c /\ gather[c] = NoTask
  BY DEF LoneInv, HandOf, FrameOf, FlagsOf, Child
<1>2. flags[c] = {}
  <2>1. "terminated" \notin flags[c] /\ "noschedule" \notin flags[c]
    BY <1>1 DEF LoneInv, FlagsOf
  <2>2. flags[c] \subseteq {"terminated", "noschedule"}
    BY DEF LoneInv, TypeOK
  <2> QED  BY <2>1, <2>2
<1>3. c \notin finished
  BY <1>2 DEF LoneInv, FlagsOf
<1>4. ~Wakes(c) /\ Undone(c) = {}
  BY <1>1, Ending DEF Wakes, Undone
<1>5. \A p \in Tasks : c \notin frame[p]
  BY DEF LoneInv, FrameOf
<1> QED  BY <1>1, <1>2, <1>3, <1>4, <1>5

(* The task creates another one.                                           *)
LEMMA LoneFSchedule ==
    ASSUME SchedulerAssumption, OneWorker, LoneInv,
           NEW w \in Workers, NEW c \in Tasks, FSchedule(w, c)
    PROVE  LoneInv'
<1>1. /\ place = "run" /\ place' = place /\ task' = task /\ life[c] = "unborn"
      /\ life' = [life EXCEPT ![c] = "live"] /\ Enqueue(c)
      /\ UNCHANGED <<flags, finished, gather, frame, gcount, waiting, left, pc, cur, master>>
  BY Moves DEF FSchedule, At, LoneInv
<1>2. master = "loop" /\ ~Leaves /\ ~Leaves'
  BY <1>1, Running DEF Leaves
<1>3. /\ c \notin Queued /\ c \notin waiting /\ flags[c] = {} /\ frame[c] = {}
      /\ gather[c] = NoTask /\ task # c /\ c \notin finished
      /\ ~Wakes(c) /\ Undone(c) = {}
      /\ \A p \in Tasks : c \notin frame[p]
  BY <1>1, Unborn
<1>4. queue' \in Seq(Tasks) /\ IsInjective(queue') /\ Queued' = Queued \cup {c}
  BY <1>1, <1>3, Pushed
<1>5. \A q \in Tasks : /\ Unpushed(q)' = Unpushed(q) /\ Undone(q)' = Undone(q)
                       /\ Wakes(q)' <=> Wakes(q) /\ c \notin Unpushed(q)
  BY <1>1, <1>3 DEF Unpushed, Undone, Wakes
<1>6. \A u \in Tasks : life'[u] = IF u = c THEN "live" ELSE life[u]
  BY <1>1 DEF LoneInv, TypeOK
<1>7. TypeOK'
  <2>1. life' \in [Tasks -> {"unborn", "live", "freed"}]
    BY <1>1 DEF LoneInv, TypeOK
  <2> QED  BY <1>1, <1>4, <2>1 DEF LoneInv, TypeOK
<1>8. ASSUME NEW u \in Tasks PROVE FlagsOf(u)' /\ FrameOf(u)' /\ Child(u)' /\ HandOf(u)'
  BY <1>1, <1>2, <1>3, <1>4, <1>5, <1>6 DEF LoneInv, FlagsOf, FrameOf, Child, HandOf
<1> QED  BY <1>1, <1>2, <1>4, <1>7, <1>8 DEF LoneInv, AfterExit

(* The task creates the tasks of a gather; the counter holds their number. *)
LEMMA LoneGather ==
    ASSUME SchedulerAssumption, OneWorker, FewTasks, LoneInv, NEW w \in Workers,
           NEW cs \in SUBSET Tasks, Gather(w, cs)
    PROVE  LoneInv'
<1>1. /\ place = "run" /\ place' = "spawn" /\ task' = task /\ Queued' = Queued
      /\ cs # {} /\ \A c \in cs : life[c] = "unborn"
      /\ life' = [t \in Tasks |-> IF t \in cs THEN "live" ELSE life[t]]
      /\ frame' = [frame EXCEPT ![task] = cs]
      /\ gcount' = [gcount EXCEPT ![task] = Cardinality(cs) % UShort]
      /\ UNCHANGED <<queue, flags, finished, gather, waiting, master>>
  BY Moves DEF Gather, At, LoneInv, Queued
<1>2. /\ task \in Tasks /\ task # NoTask /\ flags[task] = {} /\ life[task] = "live"
      /\ task \notin Queued /\ task \notin waiting /\ frame[task] = {}
      /\ ~Leaves /\ ~Leaves' /\ master = "loop"
      /\ \A p \in Tasks : ~Wakes(p) /\ ~Wakes(p)' /\ Unpushed(p) = {}
  <2>1. \A p \in Tasks : Unpushed(p) = {}
    BY <1>1 DEF LoneInv, FrameOf
  <2> QED  BY <1>1, <2>1, Running DEF Leaves, Wakes
<1>3. \A c \in cs : /\ c \notin Queued /\ c \notin waiting /\ flags[c] = {} /\ frame[c] = {}
                    /\ gather[c] = NoTask /\ task # c /\ c \notin finished
                    /\ Undone(c) = {} /\ \A p \in Tasks : c \notin frame[p]
  BY <1>1, Unborn
<1>4. Cardinality(cs) % UShort = Cardinality(cs) /\ Cardinality(cs) \in 0..UShort - 1
  <2>1. Cardinality(cs) \in Nat /\ Cardinality(cs) <= Cardinality(Tasks) /\ Cardinality(Tasks) \in Nat
    BY FS_Subset, FS_CardinalityType DEF SchedulerAssumption
  <2>2. Cardinality(cs) \in 0..UShort - 1 /\ UShort \in Nat
    BY <2>1 DEF FewTasks, SchedulerAssumption
  <2> QED  BY <2>2, SmallMod
<1>5. /\ frame' \in [Tasks -> SUBSET Tasks] /\ gcount' \in [Tasks -> 0..UShort - 1]
      /\ life' \in [Tasks -> {"unborn", "live", "freed"}]
      /\ frame'[task] = cs /\ gcount'[task] = Cardinality(cs)
      /\ \A u \in Tasks : /\ life'[u] = IF u \in cs THEN "live" ELSE life[u]
                          /\ u # task => frame'[u] = frame[u] /\ gcount'[u] = gcount[u]
  BY <1>1, <1>2, <1>4 DEF LoneInv, TypeOK
<1>6. left' \in [Tasks -> 0..MaxLeft]
  <2>1. cur[w] = task /\ left \in [Tasks -> 0..MaxLeft] /\ MaxLeft \in Nat
    BY Moves DEF LoneInv, TypeOK, SchedulerAssumption
  <2> QED  BY <1>2, <2>1 DEF Gather, Suspends
<1>7. TypeOK'
  <2>1. pc' = [pc EXCEPT ![w] = "spawn"] /\ pc[w] = "run" /\ cur' = cur
    BY DEF Gather, Goto, At
  <2>2. UNCHANGED <<queue, flags, finished, gather, waiting, master>>
    BY <1>1
  <2> QED  BY <1>5, <1>6, <2>1, <2>2 DEF LoneInv, TypeOK
<1>8. /\ Undone(task)' = cs /\ Unpushed(task)' = cs
      /\ \A q \in Tasks \ {task} : Undone(q)' = Undone(q) /\ Unpushed(q)' = {}
  <2>1. Undone(task)' = cs /\ Unpushed(task)' = cs
    BY <1>1, <1>3, <1>5 DEF Undone, Unpushed
  <2>2. ASSUME NEW q \in Tasks \ {task} PROVE Undone(q)' = Undone(q) /\ Unpushed(q)' = {}
    BY <1>1, <1>2, <1>5 DEF Undone, Unpushed
  <2> QED  BY <2>1, <2>2
<1>9. ASSUME NEW u \in Tasks PROVE FlagsOf(u)' /\ Child(u)'
  BY <1>1, <1>2, <1>3, <1>5 DEF LoneInv, FlagsOf, Child
<1>10. ASSUME NEW u \in Tasks PROVE FrameOf(u)'
  <2>1. \A c \in frame'[u] : life'[c] # "unborn" /\ gather[c] \in {u, NoTask} /\ c # u
    <3>1. frame[u] \subseteq Tasks
      BY DEF LoneInv, TypeOK
    <3> QED  BY <1>1, <1>3, <1>5, <3>1 DEF LoneInv, FrameOf
  <2> QED  BY <1>1, <1>2, <1>3, <1>5, <1>8, <2>1 DEF LoneInv, FrameOf
<1>11. ASSUME NEW u \in Tasks PROVE HandOf(u)'
  BY <1>1, <1>2, <1>3, <1>5, <1>8 DEF LoneInv, HandOf
<1> QED  BY <1>1, <1>2, <1>7, <1>9, <1>10, <1>11 DEF LoneInv, AfterExit

(* It pushes the next task of its gather, and then leaves the worker: none *)
(* of them can have ended yet.                                             *)
LEMMA LoneSpawn ==
    ASSUME SchedulerAssumption, OneWorker, LoneInv, NEW w \in Workers, Spawn(w) PROVE LoneInv'
<1>1. PICK c \in Unpushed(task) :
        /\ place = "spawn" /\ task' = task /\ gather' = [gather EXCEPT ![c] = task] /\ Enqueue(c)
        /\ IF c \in Queued
             THEN Goto(w, "run") /\ frame' = [frame EXCEPT ![task] = {}]
             ELSE Goto(w, IF Unpushed(task) = {c} THEN "hold" ELSE "spawn") /\ UNCHANGED frame
        /\ UNCHANGED <<life, flags, finished, gcount, waiting, left, cur, master>>
  BY Moves DEF Spawn, At, LoneInv
<1>2. /\ task \in Tasks /\ task # NoTask /\ flags[task] = {} /\ life[task] = "live"
      /\ task \notin Queued /\ task \notin waiting /\ ~Leaves /\ master = "loop"
      /\ \A p \in Tasks : ~Wakes(p)
      /\ \A p \in Tasks : p # task => Unpushed(p) = {}
  <2>1. \A p \in Tasks : p # task => Unpushed(p) = {}
    BY DEF LoneInv, FrameOf
  <2> QED  BY <1>1, <2>1, Running
<1>3. /\ c \in Tasks /\ c \in frame[task] /\ gather[c] = NoTask /\ c # task
      /\ life[c] = "live" /\ "terminated" \notin flags[c] /\ frame[c] = {}
      /\ c \notin Queued /\ c \notin waiting
  <2>1. c \in frame[task] /\ gather[c] = NoTask /\ frame[task] \subseteq Tasks
    BY <1>1, <1>2 DEF Unpushed, LoneInv, TypeOK
  <2> QED  BY <1>1, <1>2, <2>1 DEF LoneInv, HandOf, FrameOf
<1>4. queue' \in Seq(Tasks) /\ IsInjective(queue') /\ Queued' = Queued \cup {c}
  BY <1>1, <1>3, Pushed
<1>5. /\ place' = (IF Unpushed(task) = {c} THEN "hold" ELSE "spawn") /\ frame' = frame
      /\ Leaves' <=> place' = "hold"
  BY <1>1, <1>3, Moves DEF Leaves, LoneInv
<1>6. /\ gather' \in [Tasks -> Tasks \cup {NoTask}]
      /\ gather'[c] = task /\ \A u \in Tasks : u # c => gather'[u] = gather[u]
  BY <1>1, <1>2, <1>3 DEF LoneInv, TypeOK
<1>7. TypeOK'
  <2>1. /\ \E x \in {"hold", "spawn"} : pc' = [pc EXCEPT ![w] = x]
        /\ pc[w] = "spawn" /\ cur' = cur
    BY <1>1, <1>3 DEF Goto, Spawn, At
  <2> QED  BY <1>1, <1>4, <1>5, <1>6, <2>1 DEF LoneInv, TypeOK
<1>8. \A q \in Tasks : ~Wakes(q)' /\ Undone(q)' = Undone(q)
  BY <1>1, <1>5 DEF Wakes, Undone
<1>9. /\ Unpushed(task)' = Unpushed(task) \ {c}
      /\ \A q \in Tasks : q # task => Unpushed(q)' = {}
  <2>1. ASSUME NEW q \in Tasks PROVE frame[q] \subseteq Tasks
    BY DEF LoneInv, TypeOK
  <2>2. Unpushed(task)' = Unpushed(task) \ {c}
    BY <1>1, <1>2, <1>3, <1>5, <1>6, <2>1 DEF Unpushed
  <2>3. ASSUME NEW q \in Tasks, q # task PROVE Unpushed(q)' = {}
    BY <1>2, <1>5, <1>6, <2>1, <2>3 DEF Unpushed
  <2> QED  BY <2>2, <2>3
<1>10. c \in Undone(task) /\ Undone(c) = {}
  BY <1>3 DEF Undone
<1>11. ASSUME NEW u \in Tasks PROVE FlagsOf(u)'
  BY <1>1, <1>2, <1>3, <1>5, <1>6 DEF LoneInv, FlagsOf
<1>12. ASSUME NEW u \in Tasks PROVE FrameOf(u)'
  <2>1. \A x \in frame[u] : life[x] # "unborn" /\ gather'[x] \in {u, NoTask} /\ x # u
    <3>1. frame[u] \subseteq Tasks
      BY DEF LoneInv, TypeOK
    <3>2. c \in frame[u] => u = task
      BY <1>2, <1>3 DEF Unpushed
    <3> QED  BY <1>6, <3>1, <3>2 DEF LoneInv, FrameOf
  <2>2. Unpushed(u)' # {} <=> u = task /\ place' = "spawn"
    BY <1>1, <1>5, <1>9
  <2> QED  BY <1>1, <1>2, <1>5, <1>8, <2>1, <2>2 DEF LoneInv, FrameOf
<1>13. ASSUME NEW u \in Tasks PROVE Child(u)'
  BY <1>1, <1>2, <1>3, <1>5, <1>6 DEF LoneInv, Child
<1>14. ASSUME NEW u \in Tasks PROVE HandOf(u)'
  <2>1. ASSUME NEW p \in Tasks, u \in Unpushed(p)' PROVE u \in Unpushed(p) /\ u # c
    BY <1>1, <1>9, <2>1
  <2>2. ASSUME NEW p \in Tasks, u \in Unpushed(p), u # c PROVE u \in Unpushed(p)'
    BY <1>1, <1>2, <1>9, <2>2
  <2> QED  BY <1>1, <1>2, <1>3, <1>4, <1>5, <1>8, <1>10, <2>1, <2>2 DEF LoneInv, HandOf
<1> QED  BY <1>1, <1>2, <1>4, <1>5, <1>7, <1>11, <1>12, <1>13, <1>14 DEF LoneInv, AfterExit

(* At the start every root is queued and nothing else exists.              *)
LEMMA LoneInit == ASSUME SchedulerAssumption, OneWorker, Init PROVE LoneInv
<1> DEFINE n == Cardinality(Roots)
<1>1. IsFiniteSet(Roots) /\ n \in Nat /\ Roots \subseteq Tasks
  BY FS_Subset, FS_CardinalityType DEF SchedulerAssumption
<1>2. queue \in [1..n -> Roots] /\ IsInjective(queue)
  BY DEF Init
<1>3. queue \in Seq(Tasks)
  BY <1>1, <1>2
<1>4. Queued = Roots
  <2>1. IsFiniteSet(1..n) /\ Cardinality(1..n) = n
    BY <1>1, FS_Interval
  <2>2. queue \in Injection(1..n, Roots)
    BY <1>2 DEF Injection
  <2>3. queue \in Surjection(1..n, Roots)
    BY <1>1, <2>1, <2>2, FS_Injection
  <2> QED  BY <1>2, <2>3 DEF Surjection, Queued, Range
<1>5. TypeOK
  <2>1. gcount \in [Tasks -> 0..UShort - 1] /\ left \in [Tasks -> 0..MaxLeft]
    BY DEF Init, SchedulerAssumption
  <2> QED  BY <1>3, <2>1 DEF Init, TypeOK
<1>6. place = "pop" /\ task = NoTask /\ ~Leaves
  BY Alone DEF Init, place, task, Leaves
<1>7. \A t \in Tasks : /\ Undone(t) = {} /\ Unpushed(t) = {} /\ ~Wakes(t)
                       /\ frame[t] = {} /\ flags[t] = {} /\ gather[t] = NoTask
                       /\ life[t] = IF t \in Roots THEN "live" ELSE "unborn"
  BY <1>6 DEF Init, Undone, Unpushed, Wakes
<1>8. ASSUME NEW t \in Tasks PROVE FlagsOf(t) /\ FrameOf(t) /\ Child(t) /\ HandOf(t)
  <2>1. finished = {} /\ waiting = {} /\ t # NoTask
    BY DEF Init, SchedulerAssumption
  <2> QED  BY <1>4, <1>6, <1>7, <2>1 DEF FlagsOf, FrameOf, Child, HandOf
<1> QED  BY <1>2, <1>5, <1>6, <1>8 DEF LoneInv, AfterExit, Init

(* Every step keeps the invariant.                                         *)
LEMMA LoneNext ==
    ASSUME SchedulerAssumption, OneWorker, FewTasks, LoneInv, [Next]_vars PROVE LoneInv'
<1>1. CASE UNCHANGED vars
  <2>1. /\ UNCHANGED <<TypeOK, place, task, Leaves, Queued, AfterExit>>
        /\ \A p : Undone(p)' = Undone(p) /\ Unpushed(p)' = Unpushed(p) /\ (Wakes(p)' <=> Wakes(p))
    BY <1>1 DEF vars, TypeOK, place, task, Leaves, Queued, Undone, Unpushed, Wakes, AfterExit
  <2> QED  BY <1>1, <2>1 DEF vars, LoneInv, FlagsOf, FrameOf, Child, HandOf
<1>2. ASSUME NEW w \in Workers, WorkerStep(w) PROVE LoneInv'
  BY <1>2, LonePop, LoneSwitch, LoneRelax, LoneAwait, LoneHold, LoneReturn, LoneHook, LoneWake, LoneFree,
     LoneUnhold, LoneRepush, LoneFSchedule, LoneGather, LoneSpawn DEF WorkerStep, TaskStep
<1>3. CASE MasterExit
  <2>1. /\ UNCHANGED <<queue, life, flags, finished, gather, frame, gcount, waiting, left, pc, cur>>
        /\ master' = "exited" /\ \A t \in Tasks : life[t] # "live"
    BY <1>3 DEF MasterExit, NoneLeft, Live
  <2>2. /\ UNCHANGED <<place, task, Leaves, Queued>>
        /\ \A p : Undone(p)' = Undone(p) /\ Unpushed(p)' = Unpushed(p) /\ (Wakes(p)' <=> Wakes(p))
    BY <2>1 DEF place, task, Leaves, Queued, Undone, Unpushed, Wakes
  <2> QED  BY <2>1, <2>2 DEF LoneInv, TypeOK, FlagsOf, FrameOf, Child, HandOf, AfterExit
<1> QED  BY <1>1, <1>2, <1>3, LoneModWake DEF Next, Stopped

(* The invariant holds in every reachable state.                           *)
LEMMA LoneInductive == ASSUME OneWorker, FewTasks PROVE Spec => []LoneInv
<1>1. Init => LoneInv
  BY SchedulerAssumption, LoneInit
<1>2. LoneInv /\ [Next]_vars => LoneInv'
  BY SchedulerAssumption, LoneNext
<1> QED  BY <1>1, <1>2, PTL DEF Spec
-----------------------------------------------------------------------------
(* With one worker the definitions of Scheduler about all workers are      *)
(* about it.                                                               *)
LEMMA OneCpu ==
    ASSUME OneWorker
    PROVE  /\ \A p : Pending(p) = Undone(p)
           /\ \A p : Joining(p) <=> ~(task = p /\ place = "spawn") /\ (Undone(p) # {} \/ Wakes(p))
           /\ \A t : (\E w \in Workers : cur[w] = t /\ ~Releasing(w)) <=> task = t /\ ~Leaves
BY Alone DEF Pending, Undone, Joining, Wakes, Releasing, Leaves, At, place, task

(* One worker: a task is never lost and never in two hands, whatever holds *)
(* it: queue, worker, module, gather or the array of a gather.             *)
LEMMA LonePlaces == ASSUME OneWorker, FewTasks PROVE Spec => []OnePlace
<1>1. ASSUME SchedulerAssumption, LoneInv, NEW t \in Tasks
      PROVE  /\ life[t] = "live" => \E x \in Places(t) : Places(t) = {x}
             /\ life[t] # "live" => Places(t) = {}
  <2> DEFINE queued == t \in Queued
             working == task = t /\ ~Leaves
             awaits == t \in waiting
             joins == ~(task = t /\ place = "spawn") /\ (Undone(t) # {} \/ Wakes(t))
             listed == \E p \in Tasks : t \in Unpushed(p)
  <2>1. Places(t) = { x \in {"queue", "worker", "module", "gather", "array"} :
                        \/ x = "queue"  /\ queued
                        \/ x = "worker" /\ working
                        \/ x = "module" /\ awaits
                        \/ x = "gather" /\ joins
                        \/ x = "array"  /\ listed }
    BY <1>1, OneCpu DEF Places
  <2>2. Undone(t) \subseteq frame[t]
    BY DEF Undone
  <2>3. Wakes(t) => frame[t] # {} /\ task \in Tasks /\ task # t
    BY <1>1, Ending DEF Wakes
  <2>4. queued \/ awaits => life[t] = "live" /\ ~working /\ ~joins /\ ~(queued /\ awaits)
    BY <1>1, <2>2, <2>3 DEF LoneInv, HandOf
  <2>5. listed => life[t] = "live" /\ ~queued /\ ~awaits /\ ~joins /\ ~working
    <3> SUFFICES ASSUME NEW p \in Tasks, t \in Unpushed(p)
                 PROVE  life[t] = "live" /\ ~queued /\ ~awaits /\ ~joins /\ ~working
      OBVIOUS
    <3>1. life[t] = "live" /\ ~queued /\ ~awaits /\ frame[t] = {}
      BY <1>1 DEF LoneInv, HandOf
    <3>2. ~working
      BY <1>1, Running DEF LoneInv, FrameOf
    <3> QED  BY <2>2, <2>3, <3>1, <3>2
  <2>6. working => life[t] = "live" /\ ~joins
    <3> SUFFICES ASSUME working, place # "spawn" PROVE life[t] = "live" /\ ~joins
      BY <1>1 DEF LoneInv, FlagsOf
    <3>1. life[t] = "live" /\ Undone(t) = {}
      BY <1>1 DEF LoneInv, FlagsOf, FrameOf
    <3>2. ~Wakes(t)
      BY <1>1, <2>3
    <3> QED  BY <3>1, <3>2
  <2>7. joins => life[t] = "live"
    BY <1>1, <2>2, <2>3 DEF LoneInv, FrameOf
  <2>8. life[t] = "live" => queued \/ awaits \/ working \/ joins \/ listed
    BY <1>1 DEF LoneInv, HandOf, Leaves
  <2> HIDE DEF queued, working, awaits, joins, listed
  <2>9. CASE life[t] # "live"
    BY <2>1, <2>4, <2>5, <2>6, <2>7, <2>9
  <2>10. CASE queued
    <3>1. Places(t) = {"queue"}
      BY <2>1, <2>4, <2>5, <2>10
    <3> QED  BY <2>4, <2>10, <3>1
  <2>11. CASE awaits
    <3>1. Places(t) = {"module"}
      BY <2>1, <2>4, <2>5, <2>11
    <3> QED  BY <2>4, <2>11, <3>1
  <2>12. CASE working
    <3>1. Places(t) = {"worker"}
      BY <2>1, <2>4, <2>5, <2>6, <2>12
    <3> QED  BY <2>6, <2>12, <3>1
  <2>13. CASE joins
    <3>1. Places(t) = {"gather"}
      BY <2>1, <2>4, <2>5, <2>6, <2>13
    <3> QED  BY <2>7, <2>13, <3>1
  <2>14. CASE listed
    <3>1. Places(t) = {"array"}
      BY <2>1, <2>4, <2>5, <2>14
    <3> QED  BY <2>5, <2>14, <3>1
  <2> QED  BY <2>8, <2>9, <2>10, <2>11, <2>12, <2>13, <2>14
<1>2. \A w, x \in Workers : w = x
  BY Alone
<1>3. LoneInv => \A p, q \in Tasks : Unpushed(p) \cap Unpushed(q) # {} => p = q
  BY DEF LoneInv, FrameOf
<1>4. LoneInv => OnePlace
  BY <1>1, <1>2, <1>3, SchedulerAssumption DEF OnePlace, Live, LoneInv
<1> QED  BY <1>4, LoneInductive, PTL

(* One worker: the task it has is allocated, and the struct gather that    *)
(* the end of a task uses is on the stack of a parent that is still there. *)
LEMMA LoneAlive == ASSUME OneWorker, FewTasks PROVE Spec => []NoUseAfterFree
<1>1. LoneInv => NoUseAfterFree
  <2> SUFFICES ASSUME LoneInv
               PROVE  /\ task # NoTask => task \in Live
                      /\ place \in {"hook", "wake"} =>
                           gather[task] \in Live /\ task \in frame[gather[task]]
    BY Alone DEF NoUseAfterFree, place, task
  <2>1. task # NoTask => task \in Live
    BY CpuType DEF LoneInv, FlagsOf, Live
  <2>2. ASSUME place \in {"hook", "wake"}
        PROVE  gather[task] \in Live /\ task \in frame[gather[task]]
    <3>1. gather[task] \in Tasks /\ task \in frame[gather[task]]
      BY <2>2, Ending, SchedulerAssumption
    <3> QED  BY <3>1 DEF LoneInv, FrameOf, Live
  <2> QED  BY <2>1, <2>2
<1> QED  BY <1>1, LoneInductive, PTL

(* One worker: it does not end because a push of its task was refused.     *)
LEMMA LoneStay == ASSUME OneWorker, FewTasks PROVE Spec => []WorkersStay
<1>1. LoneInv => WorkersStay
  BY Alone DEF LoneInv, WorkersStay, place
<1> QED  BY <1>1, LoneInductive, PTL

(* One worker: the master leaves its loop only when every task has stored  *)
(* its status, and no task is in the queue or waits for an event.          *)
LEMMA LoneExit == ASSUME OneWorker, FewTasks PROVE Spec => []ExitWhenDone
<1>1. LoneInv => ExitWhenDone
  <2> SUFFICES ASSUME LoneInv, master = "exited"
               PROVE  /\ \A t \in Tasks : life[t] # "unborn" => t \in finished
                      /\ queue = <<>> /\ waiting = {} /\ task = NoTask
    BY Alone DEF ExitWhenDone, task
  <2>1. \A t \in Tasks : life[t] \in {"unborn", "freed"}
    BY DEF LoneInv, AfterExit, TypeOK
  <2>2. \A t \in Tasks : t \notin Queued /\ t \notin waiting /\ task # t
    BY <2>1 DEF LoneInv, HandOf, FlagsOf
  <2>3. queue \in Seq(Tasks) /\ Queued \subseteq Tasks /\ waiting \subseteq Tasks
    BY DEF LoneInv, TypeOK, Queued, Range
  <2>4. queue = <<>>
    BY <2>2, <2>3, EmptyRange DEF Queued
  <2>5. \A t \in Tasks : life[t] # "unborn" => t \in finished
    BY <2>1 DEF LoneInv, FlagsOf
  <2> QED  BY <2>2, <2>3, <2>4, <2>5, CpuType DEF LoneInv
<1> QED  BY <1>1, LoneInductive, PTL

(* One worker: gatherA returns only when each of its tasks has stored its  *)
(* status.                                                                 *)
LEMMA LoneBarrier == ASSUME OneWorker, FewTasks PROVE Spec => GatherBarrier
<1>1. ASSUME LoneInv, [Next]_vars, NEW p \in Tasks, frame[p] # {}, frame'[p] = {}
      PROVE  frame[p] \subseteq finished
  <2>1. frame \in [Tasks -> SUBSET Tasks]
    BY <1>1 DEF LoneInv, TypeOK
  <2>2. PICK w \in Workers : Switch(w) \/ Spawn(w) \/ \E cs \in SUBSET Tasks : Gather(w, cs)
    <3>1. frame' # frame
      BY <1>1
    <3> QED  BY <1>1, <3>1 DEF Next, vars, WorkerStep, TaskStep, Pop, Relax, FSchedule, Await, Hold,
              Return, Hook, Wake, Free, Unhold, Repush, ModWake, MasterExit, Stopped
  <2>3. CASE Switch(w)
    <3>1. place = "switch" /\ p = task
      BY <1>1, <2>1, <2>3, Moves DEF Switch, At, LoneInv
    <3>2. Undone(p) = {}
      BY <1>1, <3>1, Running, SchedulerAssumption
    <3> QED  BY <1>1, <2>1, <3>1, <3>2 DEF Undone, LoneInv, FlagsOf
  <2>4. CASE Spawn(w)
    <3>1. PICK c \in Unpushed(task) : c \in Queued /\ place = "spawn"
      BY <1>1, <2>1, <2>4, Moves DEF Spawn, At, LoneInv
    <3>2. c \in Tasks /\ task \in Tasks
      BY <1>1, <2>1, <3>1, Running, SchedulerAssumption DEF Unpushed
    <3> QED  BY <1>1, <3>1, <3>2 DEF LoneInv, HandOf
  <2>5. ASSUME NEW cs \in SUBSET Tasks, Gather(w, cs) PROVE FALSE
    <3>1. cs # {} /\ place = "run" /\ frame' = [frame EXCEPT ![task] = cs]
      BY <1>1, <2>5, Moves DEF Gather, At, LoneInv
    <3> QED  BY <1>1, <2>1, <3>1
  <2> QED  BY <2>2, <2>3, <2>4, <2>5
<1>2. LoneInv /\ [Next]_vars => [\A p \in Tasks : frame[p] # {} /\ frame'[p] = {} => frame[p] \subseteq finished]_vars
  BY <1>1
<1> QED  BY <1>2, LoneInductive, PTL DEF Spec, GatherBarrier
-----------------------------------------------------------------------------
(* What a task is doing, with one worker.                                  *)
LoneDoes(t) ==
    IF task = t /\ place = "run" THEN "running"
    ELSE IF life[t] = "unborn" THEN "none"
    ELSE IF t \in finished THEN "ended"
    ELSE IF t \in waiting THEN "awaiting"
    ELSE IF frame[t] # {} /\ t \notin Queued /\ ~(task = t /\ place = "switch") THEN "joining"
    ELSE "ready"

LEMMA LoneDoings ==
    ASSUME OneWorker
    PROVE  /\ States = [t \in Tasks |-> LoneDoes(t)]
           /\ States' = [t \in Tasks |-> LoneDoes(t)']
BY Alone DEF States, Doing, LoneDoes, At, place, task

(* A step that changes what one task is doing is a move of it ...          *)
LEMMA LoneMoves ==
    ASSUME OneWorker, NEW t \in Tasks, NEW from, NEW to, LoneDoes(t) = from, LoneDoes(t)' = to,
           \A u \in Tasks \ {t} : LoneDoes(u)' = LoneDoes(u)
    PROVE  Tasking!Move(t, from, to)
<1>1. States[t] = from /\ States' = [States EXCEPT ![t] = to]
  BY LoneDoings
<1> QED  BY <1>1 DEF Tasking!Move

(* ... and one that changes nothing of it a stutter.                       *)
LEMMA LoneStutter ==
    ASSUME OneWorker, frame' = frame, \A u \in Tasks : LoneDoes(u)' = LoneDoes(u)
    PROVE  UNCHANGED <<States, frame>>
BY LoneDoings

(* A task starts to run when no other does.                                *)
LEMMA LoneSwitchMaps ==
    ASSUME SchedulerAssumption, OneWorker, LoneInv, NEW w \in Workers, Switch(w)
    PROVE  [Tasking!Next]_<<States, frame>>
<1>1. /\ place = "switch" /\ place' = "run" /\ task' = task /\ Queued' = Queued
      /\ frame' = [frame EXCEPT ![task] = {}] /\ frame \in [Tasks -> SUBSET Tasks]
      /\ UNCHANGED <<life, finished, waiting>>
  BY Moves DEF Switch, At, LoneInv, TypeOK, Queued
<1>2. PICK t \in Tasks : t = task /\ life[t] = "live" /\ t \notin finished /\ t \notin waiting
  BY <1>1, Running
<1>3. LoneDoes(t) = "ready" /\ LoneDoes(t)' = "running"
  BY <1>1, <1>2 DEF LoneDoes
<1>4. \A u \in Tasks \ {t} : LoneDoes(u)' = LoneDoes(u)
  BY <1>1, <1>2 DEF LoneDoes
<1>5. Tasking!Cardinality(Tasking!In("running")) < Cardinality(Workers)
  <2>1. Tasking!In("running") = {}
    <3>1. \A u \in Tasks : States[u] # "running"
      BY <1>1, LoneDoings DEF LoneDoes
    <3> QED  BY <3>1 DEF Tasking!In
  <2>2. Cardinality({}) = 0
    BY FS_EmptySet
  <2>3. Cardinality(Workers) = 1
    BY FS_Singleton DEF OneWorker
  <2>4. Tasking!Cardinality({}) = Cardinality({})
    BY DEF Tasking!Cardinality, Cardinality
  <2> QED  BY <2>1, <2>2, <2>3, <2>4
<1>6. Tasking!Move(t, "ready", "running")
  BY <1>3, <1>4, LoneMoves
<1>7. frame' = [frame EXCEPT ![t] = {}]
  BY <1>1, <1>2
<1>8. Tasking!Run(t)
  BY <1>5, <1>6, <1>7 DEF Tasking!Run
<1> QED  BY <1>8 DEF Tasking!Next

(* The running task suspends itself, waits for an event, or ends.          *)
LEMMA LoneStopMaps ==
    ASSUME SchedulerAssumption, OneWorker, LoneInv,
           NEW w \in Workers, Relax(w) \/ Await(w) \/ Return(w)
    PROVE  [Tasking!Next]_<<States, frame>>
<1>1. /\ place = "run" /\ place' # "run" /\ place' # "switch" /\ task' = task /\ Queued' = Queued
      /\ UNCHANGED <<life, frame>>
  BY Moves DEF Relax, Await, Return, At, LoneInv, Queued
<1>2. PICK t \in Tasks : /\ t = task /\ life[t] = "live" /\ t \notin finished /\ t \notin waiting
                        /\ frame[t] = {}
  BY <1>1, Running
<1>3. LoneDoes(t) = "running"
  BY <1>1, <1>2 DEF LoneDoes
<1>4. CASE Relax(w)
  <2>1. UNCHANGED <<finished, waiting>>
    BY <1>4 DEF Relax
  <2>2. LoneDoes(t)' = "ready" /\ \A u \in Tasks \ {t} : LoneDoes(u)' = LoneDoes(u)
    BY <1>1, <1>2, <2>1 DEF LoneDoes
  <2> QED  BY <1>1, <1>3, <2>2, LoneMoves DEF Tasking!Next, Tasking!Yield
<1>5. CASE Await(w)
  <2>1. waiting' = waiting \cup {t} /\ finished' = finished
    BY <1>2, <1>5, Moves DEF Await, LoneInv
  <2>2. LoneDoes(t)' = "awaiting" /\ \A u \in Tasks \ {t} : LoneDoes(u)' = LoneDoes(u)
    BY <1>1, <1>2, <2>1 DEF LoneDoes
  <2> QED  BY <1>1, <1>3, <2>2, LoneMoves DEF Tasking!Next, Tasking!Await
<1>6. CASE Return(w)
  <2>1. finished' = finished \cup {t} /\ waiting' = waiting
    BY <1>2, <1>6, Moves DEF Return, LoneInv
  <2>2. LoneDoes(t)' = "ended" /\ \A u \in Tasks \ {t} : LoneDoes(u)' = LoneDoes(u)
    BY <1>1, <1>2, <2>1 DEF LoneDoes
  <2> QED  BY <1>1, <1>3, <2>2, LoneMoves DEF Tasking!Next, Tasking!End
<1> QED  BY <1>4, <1>5, <1>6

(* The running task creates one task, or those of a gather.                *)
LEMMA LoneCreateMaps ==
    ASSUME SchedulerAssumption, OneWorker, LoneInv, NEW w \in Workers,
           (\E c \in Tasks : FSchedule(w, c)) \/ (\E cs \in SUBSET Tasks : Gather(w, cs))
    PROVE  [Tasking!Next]_<<States, frame>>
<1>1. place = "run" /\ task' = task
  BY Moves DEF FSchedule, Gather, At, LoneInv
<1>2. PICK t \in Tasks : /\ t = task /\ life[t] = "live" /\ t \notin finished /\ t \notin waiting
                        /\ t \notin Queued
  BY <1>1, Running
<1>3. LoneDoes(t) = "running" /\ States[t] = "running"
  BY <1>1, <1>2, LoneDoings DEF LoneDoes
<1>4. ASSUME NEW c \in Tasks, FSchedule(w, c) PROVE Tasking!Create(c) /\ UNCHANGED frame
  <2>1. /\ life[c] = "unborn" /\ life' = [life EXCEPT ![c] = "live"] /\ life \in [Tasks -> {"unborn", "live", "freed"}]
        /\ Enqueue(c) /\ place' = place /\ UNCHANGED <<finished, frame, waiting>>
    BY <1>4, Moves DEF FSchedule, LoneInv, TypeOK
  <2>2. c \notin Queued /\ c \notin waiting /\ c \notin finished /\ frame[c] = {} /\ c # t
    BY <1>2, <2>1, Unborn
  <2>3. Queued' = Queued \cup {c}
    BY <2>1, <2>2, Pushed
  <2>4. /\ LoneDoes(c) = "none" /\ LoneDoes(c)' = "ready"
        /\ \A u \in Tasks \ {c} : LoneDoes(u)' = LoneDoes(u)
    BY <1>1, <1>2, <2>1, <2>2, <2>3 DEF LoneDoes
  <2>5. Tasking!In("running") # {}
    BY <1>3 DEF Tasking!In
  <2> QED  BY <2>1, <2>4, <2>5, LoneMoves DEF Tasking!Create
<1>5. ASSUME NEW cs \in SUBSET Tasks, Gather(w, cs) PROVE Tasking!Gather(t, cs)
  <2>1. /\ place' = "spawn" /\ Queued' = Queued /\ cs # {} /\ \A c \in cs : life[c] = "unborn"
        /\ life' = [u \in Tasks |-> IF u \in cs THEN "live" ELSE life[u]]
        /\ frame' = [frame EXCEPT ![t] = cs] /\ frame \in [Tasks -> SUBSET Tasks]
        /\ UNCHANGED <<finished, waiting>>
    BY <1>2, <1>5, Moves DEF Gather, LoneInv, TypeOK, Queued
  <2>2. \A c \in cs : /\ c \notin Queued /\ c \notin waiting /\ c \notin finished /\ frame[c] = {}
                      /\ c # t
    BY <1>2, <2>1, Unborn
  <2>3. \A c \in cs : LoneDoes(c) = "none" /\ LoneDoes(c)' = "ready"
    BY <1>1, <1>2, <2>1, <2>2 DEF LoneDoes
  <2>4. LoneDoes(t)' = "joining"
    BY <1>1, <1>2, <2>1, <2>2 DEF LoneDoes
  <2>5. \A u \in Tasks : u # t /\ u \notin cs => LoneDoes(u)' = LoneDoes(u)
    BY <1>1, <1>2, <2>1 DEF LoneDoes
  <2>6. cs \subseteq Tasking!In("none")
    BY <2>3, LoneDoings DEF Tasking!In
  <2>7. States' = [u \in Tasks |-> IF u = t THEN "joining" ELSE IF u \in cs THEN "ready" ELSE States[u]]
    BY <2>3, <2>4, <2>5, LoneDoings
  <2> QED  BY <1>3, <2>1, <2>6, <2>7 DEF Tasking!Gather
<1> QED  BY <1>4, <1>5 DEF Tasking!Next

(* The last task of a gather wakes the parent: all have ended.             *)
LEMMA LoneWakeMaps ==
    ASSUME SchedulerAssumption, OneWorker, LoneInv, NEW w \in Workers, Wake(w)
    PROVE  [Tasking!Next]_<<States, frame>>
<1>1. PICK p \in Tasks : p = gather[task] /\ p # task /\ task \in frame[p]
  BY Moves, Ending DEF Wake, At, LoneInv
<1>2. /\ place = "wake" /\ place' = "landed" /\ task' = task /\ Enqueue(p)
      /\ UNCHANGED <<life, finished, frame, waiting>>
  BY <1>1, Moves DEF Wake, At, LoneInv
<1>3. Wakes(p) /\ Undone(p) = {} /\ life[p] = "live" /\ frame[p] # {}
  BY <1>1, <1>2 DEF Wakes, LoneInv, FrameOf
<1>4. p \notin Queued /\ p \notin waiting /\ p \notin finished
  BY <1>1, <1>3 DEF LoneInv, HandOf, FlagsOf
<1>5. Queued' = Queued \cup {p}
  BY <1>2, <1>4, Pushed
<1>6. /\ LoneDoes(p) = "joining" /\ LoneDoes(p)' = "ready"
      /\ \A u \in Tasks \ {p} : LoneDoes(u)' = LoneDoes(u)
  BY <1>1, <1>2, <1>3, <1>4, <1>5 DEF LoneDoes
<1>7. frame[p] \subseteq Tasking!In("ended")
  <2> SUFFICES ASSUME NEW c \in frame[p] PROVE c \in Tasks /\ LoneDoes(c) = "ended"
    BY LoneDoings DEF Tasking!In
  <2>1. c \in Tasks /\ "terminated" \in flags[c] /\ life[c] # "unborn"
    BY <1>3 DEF LoneInv, TypeOK, FrameOf, Undone
  <2> QED  BY <1>2, <2>1 DEF LoneInv, FlagsOf, LoneDoes
<1> QED  BY <1>2, <1>6, <1>7, LoneMoves DEF Tasking!Next, Tasking!Join

(* The event a task awaits comes.                                          *)
LEMMA LoneEventMaps ==
    ASSUME SchedulerAssumption, OneWorker, LoneInv, NEW t \in Tasks, ModWake(t)
    PROVE  [Tasking!Next]_<<States, frame>>
<1>1. /\ t \in waiting /\ waiting' = waiting \ {t} /\ Enqueue(t) /\ place' = place /\ task' = task
      /\ UNCHANGED <<life, finished, frame>>
  BY DEF ModWake, place, task
<1>2. /\ t \notin Queued /\ frame[t] = {} /\ life[t] = "live" /\ t \notin finished
      /\ task = t => place # "run"
  BY <1>1 DEF LoneInv, HandOf, FlagsOf, Leaves
<1>3. Queued' = Queued \cup {t}
  BY <1>1, <1>2, Pushed
<1>4. /\ LoneDoes(t) = "awaiting" /\ LoneDoes(t)' = "ready"
      /\ \A u \in Tasks \ {t} : LoneDoes(u)' = LoneDoes(u)
  BY <1>1, <1>2, <1>3 DEF LoneDoes
<1> QED  BY <1>1, <1>4, LoneMoves DEF Tasking!Next, Tasking!Event

(* What else the worker does the tasks do not notice.                      *)
LEMMA LoneOtherMaps ==
    ASSUME SchedulerAssumption, OneWorker, LoneInv, NEW w \in Workers,
           Pop(w) \/ Spawn(w) \/ Hold(w) \/ Hook(w) \/ Free(w) \/ Unhold(w) \/ Repush(w)
    PROVE  UNCHANGED <<States, frame>>
<1>1. CASE Pop(w)
  <2>1. queue # <<>> /\ queue \in Seq(Tasks) /\ IsInjective(queue)
    BY <1>1 DEF Pop, LoneInv, TypeOK
  <2>2. PICK t \in Tasks : t = Head(queue) /\ t \in Queued
    BY <2>1, FirstGone, ToSetIsRange DEF Queued
  <2>3. /\ Queued' = Queued \ {t} /\ place = "pop" /\ place' = "switch" /\ task' = t
        /\ UNCHANGED <<life, finished, frame, waiting>>
    BY <1>1, <2>1, <2>2, FirstGone, ToSetIsRange, Moves DEF Pop, Queued, At, LoneInv
  <2>4. \A u \in Tasks : LoneDoes(u)' = LoneDoes(u)
    BY <2>2, <2>3 DEF LoneDoes
  <2> QED  BY <2>3, <2>4, LoneStutter
<1>2. CASE Spawn(w)
  <2>1. PICK c \in Unpushed(task) :
          /\ place = "spawn" /\ task' = task /\ Enqueue(c)
          /\ IF c \in Queued THEN Goto(w, "run")
               ELSE Goto(w, IF Unpushed(task) = {c} THEN "hold" ELSE "spawn") /\ UNCHANGED frame
          /\ UNCHANGED <<life, finished, waiting>>
    BY <1>2, Moves DEF Spawn, At, LoneInv
  <2>2. task \in Tasks /\ task \notin Queued
    BY <2>1, Running
  <2>3. /\ c \in Tasks /\ c # task /\ life[c] = "live" /\ "terminated" \notin flags[c]
        /\ frame[c] = {} /\ c \notin Queued /\ c \notin waiting /\ c \notin finished
    <3>1. c \in Tasks
      BY <2>1, <2>2 DEF Unpushed, LoneInv, TypeOK
    <3>2. c # task
      BY <2>1, <2>2, Running
    <3> QED  BY <2>1, <2>2, <3>1, <3>2 DEF LoneInv, HandOf, FlagsOf
  <2>4. Queued' = Queued \cup {c} /\ place' \in {"hold", "spawn"} /\ frame' = frame
    BY <2>1, <2>3, Pushed, Moves DEF LoneInv
  <2>5. \A u \in Tasks : LoneDoes(u)' = LoneDoes(u)
    BY <2>1, <2>2, <2>3, <2>4 DEF LoneDoes
  <2> QED  BY <2>4, <2>5, LoneStutter
<1>3. CASE Hold(w) \/ Hook(w)
  <2>1. /\ place \in {"hold", "hook"} /\ place' \in {"landed", "wake"} /\ task' = task
        /\ Queued' = Queued /\ UNCHANGED <<life, finished, frame, waiting>>
    BY <1>3, Moves DEF Hold, Hook, At, LoneInv, Queued
  <2>2. \A u \in Tasks : LoneDoes(u)' = LoneDoes(u)
    BY <2>1 DEF LoneDoes
  <2> QED  BY <2>1, <2>2, LoneStutter
<1>4. CASE Unhold(w)
  <2>1. /\ place = "landed" /\ place' = "pop"
        /\ Queued' = Queued /\ UNCHANGED <<life, finished, frame, waiting>>
    BY <1>4, Moves, Landing DEF Unhold, At, LoneInv, Queued
  <2>2. \A u \in Tasks : LoneDoes(u)' = LoneDoes(u)
    BY <2>1 DEF LoneDoes
  <2> QED  BY <2>1, <2>2, LoneStutter
<1>5. CASE Free(w)
  <2>1. /\ place = "landed" /\ place' = "pop" /\ "terminated" \in flags[task] /\ task \in Tasks
        /\ life' = [life EXCEPT ![task] = "freed"] /\ life \in [Tasks -> {"unborn", "live", "freed"}]
        /\ Queued' = Queued /\ UNCHANGED <<finished, frame, waiting>>
    BY <1>5, Moves, Landing, CpuType DEF Free, At, LoneInv, TypeOK, Queued
  <2>2. task \in finished /\ life[task] = "live"
    BY <2>1 DEF LoneInv, FlagsOf
  <2>3. \A u \in Tasks : LoneDoes(u)' = LoneDoes(u)
    BY <2>1, <2>2 DEF LoneDoes
  <2> QED  BY <2>1, <2>3, LoneStutter
<1>6. CASE Repush(w)
  <2>1. /\ place = "landed" /\ flags[task] = {} /\ task \in Tasks /\ Enqueue(task)
        /\ Lands(w, IF task \in Queued THEN "dead" ELSE "pop")
        /\ UNCHANGED <<life, finished, frame, waiting>>
    BY <1>6, Moves, CpuType DEF Repush, At, LoneInv
  <2>2. /\ frame[task] = {} /\ task \notin Queued /\ task \notin waiting /\ life[task] = "live"
        /\ task \notin finished
    BY <2>1, Ending DEF Leaves, LoneInv, FlagsOf
  <2>3. Queued' = Queued \cup {task} /\ place' = "pop"
    BY <2>1, <2>2, Pushed, Landing DEF LoneInv
  <2>4. \A u \in Tasks : LoneDoes(u)' = LoneDoes(u)
    BY <2>1, <2>2, <2>3 DEF LoneDoes
  <2> QED  BY <2>1, <2>4, LoneStutter
<1> QED  BY <1>1, <1>2, <1>3, <1>4, <1>5, <1>6

(* One worker: the scheduler implements coroutines.  A task goes on when   *)
(* and where it suspended itself, an await lasts until its event, and a    *)
(* gather until its tasks have ended.                                      *)
LEMMA LoneCoroutines == ASSUME OneWorker, FewTasks PROVE Spec => CoroutineSpec
<1>1. ASSUME SchedulerAssumption, Init PROVE Tasking!Init
  <2>1. place = "pop" /\ LoneInv
    BY <1>1, LoneInit, Alone DEF Init, place
  <2>2. \A t \in Tasks : LoneDoes(t) = IF t \in Roots THEN "ready" ELSE "none"
    BY <1>1, <2>1 DEF Init, LoneDoes
  <2> QED  BY <1>1, <2>2, LoneDoings DEF Init, Tasking!Init
<1>2. ASSUME SchedulerAssumption, LoneInv, [Next]_vars PROVE [Tasking!Next]_<<States, frame>>
  <2>1. CASE UNCHANGED <<queue, life, finished, frame, waiting, pc, cur>>
    BY <2>1 DEF States, Doing, At, Queued
  <2>2. ASSUME NEW w \in Workers, WorkerStep(w) PROVE [Tasking!Next]_<<States, frame>>
    BY <1>2, <2>2, LoneSwitchMaps, LoneStopMaps, LoneCreateMaps, LoneWakeMaps,
       LoneOtherMaps DEF WorkerStep, TaskStep
  <2> QED  BY <1>2, <2>1, <2>2, LoneEventMaps DEF Next, MasterExit, Stopped, vars
<1>3. Init => Tasking!Init
  BY <1>1, SchedulerAssumption
<1>4. LoneInv /\ [Next]_vars => [Tasking!Next]_<<States, frame>>
  BY <1>2, SchedulerAssumption
<1> QED  BY <1>3, <1>4, LoneInductive, PTL DEF Spec, CoroutineSpec, Tasking!Spec

(* With one worker no stack has two.                                       *)
LEMMA LoneStacks == ASSUME OneWorker PROVE OneStack
BY Alone DEF OneStack, OnCPU

(* No gather begins or ends when no task gathers.                          *)
LEMMA UnheldBarrier == ASSUME NothingHolds PROVE Spec => GatherBarrier
<1>1. UnheldInv => \A p \in Tasks : frame[p] = {}
  BY DEF UnheldInv, NothingHeld
<1>2. UnheldInv /\ [Next]_vars =>
        [\A p \in Tasks : frame[p] # {} /\ frame'[p] = {} => frame[p] \subseteq finished]_vars
  BY <1>1
<1> QED  BY <1>2, UnheldInductive, PTL DEF Spec, GatherBarrier
-----------------------------------------------------------------------------
(* The variables of the scheduler keep their types, whatever tasks call on *)
(* however many workers.                                                   *)
THEOREM TypeCorrect == Spec => []TypeOK
<1>1. AnyInv => TypeOK
  BY DEF AnyInv
<1> QED  BY <1>1, AnyInductive, PTL

(* Nothing schedules a task that another worker still runs, and no gather  *)
(* is so large that g.count wraps.                                         *)
Safe == NothingHolds \/ (OneWorker /\ FewTasks)

(* Two workers never use one stack: what swapcontext and the flags, which  *)
(* no lock protects, rely on.                                              *)
THEOREM StacksAreNotShared == ASSUME Safe PROVE Spec => []OneStack
<1>1. CASE NothingHolds
  BY <1>1, UnheldStacks
<1>2. CASE OneWorker
  BY <1>2, LoneStacks, PTL
<1> QED  BY <1>1, <1>2 DEF Safe

(* A task is never lost and never in two hands, whatever holds it: queue,  *)
(* worker, module, gather or the array of a gather.                        *)
THEOREM NoTaskIsLost == ASSUME Safe PROVE Spec => []OnePlace
BY UnheldPlaces, LonePlaces DEF Safe

(* A worker's task is allocated, and the struct gather that the end of a   *)
(* task uses is on the stack of a parent that is still there.              *)
THEOREM NothingUsedAfterFree == ASSUME Safe PROVE Spec => []NoUseAfterFree
BY UnheldAlive, LoneAlive DEF Safe

(* No worker ends because a push of its task was refused.                  *)
THEOREM NoWorkerEnds == ASSUME Safe PROVE Spec => []WorkersStay
BY UnheldStay, LoneStay DEF Safe

(* The master leaves its loop only when every task has stored its status,  *)
(* and no task is with a worker, in the queue or waits for an event.       *)
THEOREM ExitsWhenAllIsDone == ASSUME Safe PROVE Spec => []ExitWhenDone
BY UnheldExit, LoneExit DEF Safe

(* gatherA returns only when each of its tasks has stored its status.      *)
THEOREM GatherWaits == ASSUME Safe PROVE Spec => GatherBarrier
BY UnheldBarrier, LoneBarrier DEF Safe

(* The scheduler implements coroutines.  A task goes on when and where it  *)
(* suspended itself, an await lasts until its event, and a gather until its *)
(* tasks have ended.                                                       *)
THEOREM ImplementsCoroutines == ASSUME Safe PROVE Spec => CoroutineSpec
BY UnheldCoroutines, LoneCoroutines DEF Safe
=============================================================================
