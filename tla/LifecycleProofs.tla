-------------------------- MODULE LifecycleProofs --------------------------
(***************************************************************************)
(* Proofs about Lifecycle, for any number of workers and tasks: the master *)
(* frees and takes down only when it is alone, a shutdown that nobody      *)
(* asked for comes after the last task, and a running task has its keys.   *)
(***************************************************************************)
EXTENDS Lifecycle, QueueLemmas

(* Before master_init nothing exists; after it there is a worker to come.  *)
Started ==
    /\ phase = "init" =>
         /\ workers = 0 /\ i = 0 /\ count = 0 /\ requested = {} /\ ~failed
         /\ \A w \in Workers : pc[w] = "none"
         /\ taskq = <<>> /\ waiting = {} /\ tasks = Tasks
    /\ phase # "init" => workers >= 1

(* The workers that exist are the ones tp->count counted, until they are   *)
(* joined; the loops of _scaledown go down from it.                        *)
Pool ==
    /\ \A w \in Workers : pc[w] # "none" => w <= workers
    /\ phase = "create" => i = 0 /\ \A w \in Workers : w <= count <=> pc[w] # "none"
    /\ phase \in {"loop", "cancel"} => count = workers
    /\ phase = "join" =>
         i = count /\ \A w \in Workers : count < w /\ w <= workers => pc[w] = "exited"
    /\ failed => phase \in {"deinit", "done"}

(* Only a worker that was cancelled exits, and only then are the keys gone *)
(* before master_deinit.                                                   *)
KeysGone ==
    /\ phase \in {"create", "loop"} \/ failed => requested = {}
    /\ \A w \in Workers : pc[w] = "exited" => w \in requested
    /\ ~keys /\ phase \notin {"init", "done"} => \E w \in Workers : pc[w] = "exited"

(* A task is at one place: once in the queue, with a module or on a worker.*)
OnePlace ==
    /\ \A w \in Workers : pc[w] = "run" <=> cur[w] # NoTask
    /\ \A j, k \in 1..Len(taskq) : taskq[j] = taskq[k] => j = k
    /\ Range(taskq) \cap waiting = {}
    /\ \A w \in Workers : cur[w] # NoTask =>
         /\ cur[w] \notin Range(taskq) /\ cur[w] \notin waiting
         /\ \A o \in Workers \ {w} : cur[o] # cur[w]

(* Until the workers are cancelled, a task is allocated wherever it is,    *)
(* and a task that is not allocated any more has run to its end.           *)
Live ==
    phase \in {"init", "create", "loop"} =>
      /\ Tasks \subseteq tasks \cup finished
      /\ Range(taskq) \cup waiting \subseteq tasks
      /\ \A w \in Workers : cur[w] # NoTask => cur[w] \in tasks

IInv ==
    /\ TypeOK /\ Started /\ Pool /\ KeysGone /\ OnePlace /\ Live
    /\ SelfKnown /\ FreedAlone /\ ShutdownWhenDone

PcS == {"none", "pop", "wait", "run", "exited"}
-----------------------------------------------------------------------------
(* A signal only wakes workers that wait.                                  *)
LEMMA SignalledPc ==
    ASSUME NEW p \in [Workers -> PcS], NEW q \in Signalled(p)
    PROVE  /\ q \in [Workers -> PcS]
           /\ \A w \in Workers : q[w] = p[w] \/ (p[w] = "wait" /\ q[w] = "pop")
<1>1. CASE q = p
  BY <1>1
<1>2. CASE \E w \in Workers : p[w] = "wait" /\ q = [p EXCEPT ![w] = "pop"]
  BY <1>2 DEF PcS
<1> QED  BY <1>1, <1>2 DEF Signalled

(* The state of a call of pcaio() before its first step.                   *)
LEMMA InitIInv == ASSUME LifecycleAssumption, Init PROVE IInv
<1>1. TypeOK
  <2>1. taskq \in Seq(Tasks) /\ left \in [Tasks -> 0..MaxLeft]
    BY DEF Init, LifecycleAssumption
  <2>2. workers \in 0..MaxWorkers /\ i \in 0..workers /\ count \in 0..workers
    BY DEF Init, LifecycleAssumption
  <2> QED  BY <2>1, <2>2 DEF Init, TypeOK
<1>2. Range(taskq) = {} /\ Len(taskq) = 0
  BY DEF Init, Range
<1>3. Started /\ Pool /\ KeysGone
  BY <1>2 DEF Init, Started, Pool, KeysGone, Workers
<1>4. OnePlace /\ Live
  BY <1>2 DEF Init, OnePlace, Live
<1>5. SelfKnown /\ FreedAlone /\ ShutdownWhenDone
  BY DEF Init, SelfKnown, FreedAlone, ShutdownWhenDone
<1> QED  BY <1>1, <1>3, <1>4, <1>5 DEF IInv

(* master_init and the pushall: the queue holds each task once.            *)
LEMMA MasterInitIInv ==
    ASSUME LifecycleAssumption, IInv, process = "up", MasterInit PROVE IInv'
<1>1. /\ taskq' \in Seq(Tasks) /\ Range(taskq') = Tasks
      /\ \A j, k \in 1..Len(taskq') : taskq'[j] = taskq'[k] => j = k
  BY ArrayOfAll, ToSetIsRange DEF MasterInit, LifecycleAssumption, IsInjective
<1>2. /\ \A w \in Workers : pc[w] = "none" /\ cur[w] = NoTask
      /\ waiting = {} /\ tasks = Tasks /\ workers = 0 /\ i = 0 /\ count = 0 /\ requested = {} /\ ~failed
  BY DEF MasterInit, IInv, Started, OnePlace, TypeOK
<1>3. TypeOK'
  <2>1. workers' \in 0..MaxWorkers /\ i' \in 0..workers' /\ count' \in 0..workers'
    BY <1>2 DEF MasterInit, LifecycleAssumption
  <2> QED  BY <1>1, <2>1 DEF MasterInit, IInv, TypeOK
<1>4. Started' /\ Pool' /\ KeysGone'
  BY <1>2 DEF MasterInit, Started, Pool, KeysGone, Workers, LifecycleAssumption
<1>5. OnePlace'
  BY <1>1, <1>2 DEF MasterInit, OnePlace
<1>6. Live'
  BY <1>1, <1>2 DEF MasterInit, IInv, Live
<1>7. SelfKnown' /\ FreedAlone' /\ ShutdownWhenDone'
  BY <1>2 DEF MasterInit, SelfKnown, FreedAlone, ShutdownWhenDone
<1> QED  BY <1>3, <1>4, <1>5, <1>6, <1>7 DEF IInv

(* The steps that create the workers.                                      *)
LEMMA CreateIInv ==
    ASSUME LifecycleAssumption, IInv, process = "up", ScaleUp \/ CreateFailure PROVE IInv'
<1> USE DEF workVars
<1>1. /\ workers \in Nat /\ workers <= MaxWorkers /\ count \in 0..workers /\ i = 0
      /\ MaxWorkers \in Nat
      /\ phase = "create" /\ ~failed /\ requested = {}
      /\ \A w \in Workers : pc[w] # "none" => w <= workers
      /\ \A w \in Workers : w <= count <=> pc[w] # "none"
      /\ \A w \in Workers : pc[w] # "exited"
      /\ keys
  BY DEF ScaleUp, CreateFailure, IInv, TypeOK, LifecycleAssumption, Pool, KeysGone
<1>2. CASE ScaleUp /\ count < workers
  <2>1. /\ pc' = [pc EXCEPT ![count + 1] = "pop"] /\ count' = count + 1 /\ phase' = "create"
        /\ UNCHANGED <<workers, i, cancel, requested, cur, workVars, keys, process, failed>>
        /\ count + 1 \in Workers /\ count' \in 0..workers
        /\ pc[count + 1] = "none"
    BY <1>1, <1>2 DEF ScaleUp, Workers
  <2>2. TypeOK'
    BY <2>1 DEF IInv, TypeOK
  <2>3. Started' /\ Pool' /\ KeysGone'
    BY <1>1, <2>1 DEF IInv, TypeOK, Started, Pool, KeysGone, Workers
  <2>4. OnePlace' /\ Live'
    BY <1>1, <2>1 DEF IInv, TypeOK, OnePlace, Live
  <2>5. SelfKnown' /\ FreedAlone' /\ ShutdownWhenDone'
    BY <1>1, <2>1 DEF IInv, TypeOK, SelfKnown, FreedAlone, ShutdownWhenDone
  <2> QED  BY <2>2, <2>3, <2>4, <2>5 DEF IInv
<1>3. CASE ScaleUp /\ ~(count < workers)
  <2>1. /\ phase' = "loop" /\ count = workers
        /\ UNCHANGED <<pc, count, workers, i, cancel, requested, cur, workVars, keys, process, failed>>
    BY <1>1, <1>3 DEF ScaleUp
  <2>2. TypeOK' /\ OnePlace' /\ Live'
    BY <1>1, <2>1 DEF IInv, TypeOK, OnePlace, Live
  <2>3. Started' /\ Pool' /\ KeysGone'
    BY <1>1, <2>1 DEF IInv, TypeOK, Started, Pool, KeysGone
  <2>4. SelfKnown' /\ FreedAlone' /\ ShutdownWhenDone'
    BY <1>1, <2>1 DEF IInv, TypeOK, SelfKnown, FreedAlone, ShutdownWhenDone
  <2> QED  BY <2>2, <2>3, <2>4 DEF IInv
<1>4. CASE CreateFailure
  <2>1. /\ phase' = "deinit" /\ failed'
        /\ UNCHANGED <<workers, i, count, cancel, requested, pc, cur, workVars, keys, process>>
    BY <1>4 DEF CreateFailure
  <2>2. TypeOK' /\ OnePlace' /\ Live'
    BY <1>1, <1>4, <2>1 DEF CreateFailure, IInv, TypeOK, OnePlace, Live
  <2>3. Started' /\ Pool' /\ KeysGone'
    BY <1>1, <2>1 DEF IInv, TypeOK, Started, Pool, KeysGone
  <2>4. SelfKnown' /\ FreedAlone' /\ ShutdownWhenDone'
    BY <1>1, <2>1 DEF SelfKnown, FreedAlone, ShutdownWhenDone
  <2> QED  BY <2>2, <2>3, <2>4 DEF IInv
<1> QED  BY <1>2, <1>3, <1>4 DEF ScaleUp

(* SIGINT.                                                                 *)
LEMMA InterruptIInv ==
    ASSUME LifecycleAssumption, IInv, process = "up", Interrupt PROVE IInv'
<1> USE DEF workVars
<1>1. TypeOK' /\ Started' /\ Pool' /\ KeysGone' /\ OnePlace' /\ Live'
  BY DEF Interrupt, IInv, TypeOK, LifecycleAssumption, Started, Pool, KeysGone, OnePlace, Live
<1>2. FreedAlone' /\ ShutdownWhenDone'
  BY DEF Interrupt, IInv, FreedAlone, ShutdownWhenDone
<1>3. SelfKnown'
  <2> SUFFICES ASSUME ~failed, workers = 1, NEW w \in Workers, pc[w] = "run" PROVE keys
    BY DEF Interrupt, SelfKnown
  <2>1. phase \notin {"init", "done"}
    BY DEF Interrupt
  <2>2. \A o \in Workers : pc[o] # "none" => o = w
    BY DEF IInv, TypeOK, Pool, Workers, LifecycleAssumption
  <2> QED  BY <2>1, <2>2 DEF IInv, KeysGone
<1> QED  BY <1>1, <1>2, <1>3 DEF IInv

(* The tick of a module moves a task from the module to the queue.         *)
LEMMA TickIInv ==
    ASSUME LifecycleAssumption, IInv, process = "up", NEW t \in Tasks, Tick(t) PROVE IInv'
<1>1. /\ phase = "loop" /\ t \in waiting /\ waiting' = waiting \ {t}
      /\ taskq' = Append(taskq, t) /\ taskq \in Seq(Tasks)
      /\ UNCHANGED <<masterVars, cur, tasks, finished, keys, left, process>>
  BY DEF Tick, IInv, TypeOK
<1>2. /\ pc' \in [Workers -> PcS]
      /\ \A w \in Workers : pc'[w] = pc[w] \/ (pc[w] = "wait" /\ pc'[w] = "pop")
  BY SignalledPc DEF Tick, IInv, TypeOK, PcS
<1>3. /\ taskq' \in Seq(Tasks) /\ Len(taskq') = Len(taskq) + 1
      /\ \A k \in 1..Len(taskq) : taskq'[k] = taskq[k] /\ taskq[k] \in Range(taskq)
      /\ taskq'[Len(taskq) + 1] = t
      /\ Range(taskq') = Range(taskq) \cup {t}
  <2>1. \A k \in 1..Len(taskq) : taskq[k] \in Range(taskq)
    BY <1>1 DEF Range
  <2> QED  BY <1>1, <2>1, AppendedRange
<1>4. TypeOK'
  BY <1>1, <1>2, <1>3 DEF IInv, TypeOK, masterVars, PcS
<1>5. Started' /\ Pool' /\ KeysGone'
  BY <1>1, <1>2 DEF IInv, TypeOK, masterVars, Started, Pool, KeysGone
<1>6. OnePlace'
  <2>1. t \notin Range(taskq) /\ \A w \in Workers : cur[w] # NoTask => cur[w] # t
    BY <1>1 DEF IInv, OnePlace
  <2>2. \A j, k \in 1..Len(taskq') : taskq'[j] = taskq'[k] => j = k
    BY <1>1, <1>3, <2>1 DEF IInv, OnePlace
  <2>3. \A w \in Workers : pc'[w] = "run" <=> cur'[w] # NoTask
    BY <1>1, <1>2 DEF IInv, OnePlace
  <2> QED  BY <1>1, <1>3, <2>1, <2>2, <2>3 DEF IInv, OnePlace
<1>7. Live'
  BY <1>1, <1>3 DEF IInv, Live, masterVars
<1>8. SelfKnown' /\ FreedAlone' /\ ShutdownWhenDone'
  BY <1>1, <1>2 DEF IInv, masterVars, SelfKnown, FreedAlone, ShutdownWhenDone
<1> QED  BY <1>4, <1>5, <1>6, <1>7, <1>8 DEF IInv

(* The main loop ends: if nobody asked for it, all tasks are gone, and so  *)
(* they are in no place either.                                            *)
LEMMA LoopEndIInv ==
    ASSUME LifecycleAssumption, IInv, process = "up", LoopEnd PROVE IInv'
<1>1. /\ phase = "loop" /\ phase' = "cancel" /\ i' = count /\ count = workers
      /\ cancel \/ tasks = {}
      /\ UNCHANGED <<workers, count, cancel, requested, pc, cur, workVars, keys, process, failed>>
  BY DEF LoopEnd, MayLeave, LastIndex, IInv, Pool
<1> USE DEF workVars
<1>2. TypeOK'
  BY <1>1 DEF IInv, TypeOK, LifecycleAssumption
<1>3. Started' /\ Pool' /\ KeysGone' /\ OnePlace' /\ Live'
  BY <1>1 DEF IInv, TypeOK, Started, Pool, KeysGone, OnePlace, Live
<1>4. SelfKnown' /\ FreedAlone'
  BY <1>1 DEF IInv, SelfKnown, FreedAlone
<1>5. ShutdownWhenDone'
  <2> SUFFICES ASSUME tasks = {}
               PROVE  /\ finished = Tasks /\ taskq = <<>> /\ waiting = {}
                      /\ \A w \in Workers : pc[w] # "run"
    BY <1>1 DEF ShutdownWhenDone
  <2>1. Tasks \subseteq finished /\ Range(taskq) = {} /\ waiting = {}
    BY <1>1 DEF IInv, Live
  <2>2. taskq = <<>>
    BY <2>1, EmptyRange DEF IInv, TypeOK
  <2>3. \A w \in Workers : pc[w] # "run"
    BY <1>1 DEF IInv, Live, OnePlace
  <2> QED  BY <2>1, <2>2, <2>3 DEF IInv, TypeOK
<1> QED  BY <1>2, <1>3, <1>4, <1>5 DEF IInv

(* The loops of _scaledown.                                                *)
LEMMA ScaleDownIInv ==
    ASSUME LifecycleAssumption, IInv, process = "up", CancelWorker \/ JoinWorker PROVE IInv'
<1> USE DEF workVars, LastIndex, Ended
<1>1. /\ workers \in Nat /\ workers <= MaxWorkers /\ MaxWorkers \in Nat
      /\ i \in 0..workers /\ count \in 0..workers
  BY DEF IInv, TypeOK, LifecycleAssumption
<1>2. /\ phase' # "init" /\ phase \in {"cancel", "join"} /\ phase' \in {"cancel", "join", "free"}
      /\ i' \in 0..workers /\ count' \in 0..workers /\ requested \subseteq requested'
      /\ requested' \in SUBSET Workers
      /\ UNCHANGED <<workers, cancel, pc, cur, workVars, keys, process, failed>>
  <2>1. CASE CancelWorker
    <3>1. requested \in SUBSET Workers
      BY DEF IInv, TypeOK
    <3>2. CASE i > 0
      <4>1. requested' = requested \cup {i} /\ i \in Workers
        BY <1>1, <2>1, <3>2 DEF CancelWorker, Workers
      <4>2. requested' \in SUBSET Workers /\ requested \subseteq requested'
        BY <3>1, <4>1
      <4> QED  BY <1>1, <2>1, <3>2, <4>2 DEF CancelWorker
    <3>3. CASE ~(i > 0)
      BY <1>1, <2>1, <3>1, <3>3 DEF CancelWorker
    <3> QED  BY <3>2, <3>3
  <2>2. CASE JoinWorker
    <3>1. requested \in SUBSET Workers /\ i = count
      BY <2>2 DEF JoinWorker, IInv, TypeOK, Pool
    <3>2. CASE i > 0
      BY <1>1, <2>2, <3>1, <3>2 DEF JoinWorker
    <3>3. CASE ~(i > 0)
      BY <1>1, <2>2, <3>1, <3>3 DEF JoinWorker
    <3> QED  BY <3>2, <3>3
  <2> QED  BY <2>1, <2>2
<1>3. TypeOK' /\ OnePlace' /\ Live'
  BY <1>2 DEF IInv, TypeOK, OnePlace, Live
<1>4. Started' /\ KeysGone'
  BY <1>2 DEF IInv, Started, KeysGone, Pool
<1>5. Pool' /\ FreedAlone'
  <2>1. CASE CancelWorker
    BY <1>1, <1>2, <2>1 DEF IInv, CancelWorker, Pool, FreedAlone, Workers
  <2>2. CASE JoinWorker
    BY <1>1, <1>2, <2>2 DEF IInv, JoinWorker, Pool, FreedAlone, Workers
  <2> QED  BY <2>1, <2>2
<1>6. SelfKnown' /\ ShutdownWhenDone'
  BY <1>2 DEF IInv, SelfKnown, ShutdownWhenDone
<1> QED  BY <1>3, <1>4, <1>5, <1>6 DEF IInv

(* The last loop of master() and master_deinit: the workers have ended.    *)
LEMMA TakeDownIInv ==
    ASSUME LifecycleAssumption, IInv, process = "up", FreeTask \/ MasterDeinit PROVE IInv'
<1> USE DEF workVars
<1>1. /\ phase \in {"free", "deinit"} /\ phase' \in {"free", "deinit", "done"}
      /\ phase = "deinit" => phase' = "done"
      /\ tasks' \subseteq tasks /\ taskq' \in {taskq, <<>>}
      /\ phase' # "done" => keys' = keys /\ cancel' = cancel
      /\ keys' => keys
      /\ cancel' \in BOOLEAN /\ keys' \in BOOLEAN
      /\ UNCHANGED <<workers, i, count, requested, pc, cur, waiting, finished, left, process, failed>>
  <2>1. CASE FreeTask
    BY <2>1 DEF FreeTask, IInv, TypeOK
  <2>2. CASE MasterDeinit
    BY <2>2 DEF MasterDeinit, IInv, TypeOK
  <2> QED  BY <2>1, <2>2
<1>2. taskq' \in Seq(Tasks) /\ Range(taskq') \subseteq Range(taskq)
      /\ \A j, k \in 1..Len(taskq') : taskq'[j] = taskq'[k] => j = k
  <2>1. <<>> \in Seq(Tasks) /\ Range(<<>>) = {} /\ Len(<<>>) = 0
    BY DEF Range
  <2>2. CASE taskq' = taskq
    BY <2>2 DEF IInv, TypeOK, OnePlace
  <2>3. CASE taskq' = <<>>
    BY <2>1, <2>3
  <2> QED  BY <1>1, <2>2, <2>3
<1>3. TypeOK'
  BY <1>1, <1>2 DEF IInv, TypeOK
<1>4. Started' /\ Pool' /\ Live' /\ FreedAlone'
  BY <1>1 DEF IInv, Started, Pool, Live, FreedAlone
<1>8. OnePlace'
  BY <1>1, <1>2 DEF IInv, OnePlace
<1>5. KeysGone'
  BY <1>1 DEF IInv, KeysGone
<1>6. ShutdownWhenDone'
  BY <1>1, <1>2 DEF IInv, ShutdownWhenDone, FreeTask, MasterDeinit, TypeOK
<1>7. SelfKnown'
  <2>1. ~failed => \A w \in Workers : pc[w] # "run"
    BY <1>1 DEF IInv, TypeOK, FreedAlone, Pool, Workers, LifecycleAssumption
  <2> QED  BY <1>1, <2>1 DEF SelfKnown
<1> QED  BY <1>3, <1>4, <1>5, <1>6, <1>7, <1>8 DEF IInv

(* A worker that finds a task in the queue has its keys, unless SIGINT     *)
(* stops several of them, or the start has failed.                         *)
LEMMA KeysThere ==
    ASSUME LifecycleAssumption, IInv, NEW w \in Workers, pc[w] = "pop", taskq # <<>>,
           ~failed, ~cancel \/ workers = 1
    PROVE  keys
<1>1. phase # "init" /\ w <= workers /\ w \in 1..workers
  BY DEF IInv, Started, Pool, TypeOK, Workers
<1>2. phase # "done"
  BY <1>1 DEF IInv, FreedAlone
<1>3. CASE workers = 1
  <2>1. \A o \in Workers : pc[o] # "none" => o = w
    BY <1>1, <1>3 DEF IInv, Pool, Workers, LifecycleAssumption
  <2> QED  BY <1>1, <1>2, <2>1 DEF IInv, KeysGone
<1>4. CASE ~cancel
  <2>1. phase \in {"create", "loop"}
    BY <1>1, <1>2, <1>4 DEF IInv, TypeOK, ShutdownWhenDone
  <2> QED  BY <2>1 DEF IInv, KeysGone
<1> QED  BY <1>3, <1>4

(* A worker takes the first task of the queue, or waits.                   *)
LEMMA PopIInv ==
    ASSUME LifecycleAssumption, IInv, process = "up", NEW w \in Workers, Pop(w) PROVE IInv'
<1>1. pc[w] = "pop" /\ cur[w] = NoTask /\ taskq \in Seq(Tasks)
      /\ UNCHANGED <<masterVars, tasks, waiting, finished, keys, left, process>>
  BY DEF Pop, IInv, OnePlace, TypeOK
<1> USE DEF masterVars
<1>2. CASE taskq = <<>>
  <2>1. pc' = [pc EXCEPT ![w] = "wait"] /\ UNCHANGED <<cur, taskq>>
    BY <1>2 DEF Pop
  <2>2. TypeOK' /\ OnePlace' /\ Live'
    BY <1>1, <2>1 DEF IInv, TypeOK, OnePlace, Live
  <2>3. Started' /\ Pool' /\ KeysGone'
    BY <1>1, <2>1 DEF IInv, TypeOK, Started, Pool, KeysGone
  <2>4. SelfKnown' /\ FreedAlone' /\ ShutdownWhenDone'
    BY <1>1, <2>1 DEF IInv, TypeOK, SelfKnown, FreedAlone, ShutdownWhenDone, Workers
  <2> QED  BY <2>2, <2>3, <2>4 DEF IInv
<1>3. CASE taskq # <<>>
  <2>1. /\ pc' = [pc EXCEPT ![w] = "run"] /\ cur' = [cur EXCEPT ![w] = Head(taskq)]
        /\ taskq' = Tail(taskq)
    BY <1>3 DEF Pop
  <2>2. /\ taskq' \in Seq(Tasks) /\ Len(taskq') = Len(taskq) - 1
        /\ \A k \in 1..Len(taskq') : taskq'[k] = taskq[k + 1]
        /\ Range(taskq') = Range(taskq) \ {taskq[1]}
    BY <1>1, <1>3, <2>1, TailRange DEF IInv, OnePlace
  <2>3. /\ Head(taskq) = taskq[1] /\ taskq[1] \in Tasks /\ taskq[1] \in Range(taskq)
        /\ taskq[1] # NoTask /\ Len(taskq) \in Nat
    BY <1>1, <1>3 DEF Range, LifecycleAssumption
  <2>4. TypeOK'
    BY <1>1, <2>1, <2>2, <2>3 DEF IInv, TypeOK
  <2>5. OnePlace'
    <3>1. \A j, k \in 1..Len(taskq') : taskq'[j] = taskq'[k] => j = k
      BY <2>2, <2>3 DEF IInv, OnePlace
    <3>2. \A o \in Workers : pc'[o] = "run" <=> cur'[o] # NoTask
      BY <2>1, <2>3 DEF IInv, OnePlace, TypeOK
    <3>3. \A o \in Workers : cur'[o] = IF o = w THEN taskq[1] ELSE cur[o]
      BY <2>1, <2>3 DEF IInv, TypeOK
    <3> QED  BY SMTT(30), <1>1, <3>1, <3>2, <3>3, <2>2, <2>3 DEF IInv, OnePlace
  <2>6. Live'
    BY <1>1, <2>1, <2>2, <2>3 DEF IInv, Live, TypeOK
  <2>7. Started' /\ Pool' /\ KeysGone'
    BY <1>1, <1>3, <2>1 DEF IInv, TypeOK, Started, Pool, KeysGone
  <2>8. FreedAlone' /\ ShutdownWhenDone'
    BY <1>1, <1>3, <2>1 DEF IInv, TypeOK, FreedAlone, ShutdownWhenDone, Workers
  <2>9. SelfKnown'
    <3> SUFFICES ASSUME ~failed, ~cancel \/ workers = 1 PROVE keys
      BY <1>1 DEF IInv, SelfKnown
    <3> QED  BY <1>1, <1>3, KeysThere
  <2> QED  BY <2>4, <2>5, <2>6, <2>7, <2>8, <2>9 DEF IInv
<1> QED  BY <1>2, <1>3


(* What a step of a running task leaves alone: only the task moves.        *)
LEMMA RunFacts ==
    ASSUME LifecycleAssumption, IInv, NEW w \in Workers, pc[w] = "run"
    PROVE  /\ cur[w] \in Tasks /\ cur[w] # NoTask
           /\ cur[w] \notin Range(taskq) /\ cur[w] \notin waiting
           /\ phase # "init" /\ w \in 1..workers /\ taskq \in Seq(Tasks)
           /\ ~failed => phase # "done" /\ phase # "free" /\ phase # "deinit"
           /\ (~failed /\ ~cancel) => phase \in {"create", "loop"}
<1>1. cur[w] \in Tasks /\ cur[w] # NoTask /\ cur[w] \notin Range(taskq) /\ cur[w] \notin waiting
  BY DEF IInv, TypeOK, OnePlace
<1>2. phase # "init" /\ w <= workers /\ w \in 1..workers /\ taskq \in Seq(Tasks)
  BY DEF IInv, Started, Pool, TypeOK, Workers
<1>3. ~failed => phase # "done" /\ phase # "free" /\ phase # "deinit"
  BY <1>2 DEF IInv, FreedAlone
<1>4. (~failed /\ ~cancel) => phase \in {"create", "loop"}
  BY <1>2, <1>3 DEF IInv, TypeOK, ShutdownWhenDone
<1> QED  BY <1>1, <1>2, <1>3, <1>4

(* A task suspends itself; the worker puts it into the queue, or a module  *)
(* has it.                                                                 *)
LEMMA SuspendIInv ==
    ASSUME LifecycleAssumption, IInv, process = "up", NEW w \in Workers, Relax(w) \/ Await(w)
    PROVE  IInv'
<1> DEFINE t == cur[w]
<1> USE DEF masterVars
<1>1. pc[w] = "run" /\ left[t] > 0 /\ left' = [left EXCEPT ![t] = @ - 1]
      /\ UNCHANGED <<masterVars, tasks, finished, keys, process>>
  BY DEF Relax, Await, Suspends
<1>2. /\ t \in Tasks /\ t # NoTask /\ t \notin Range(taskq) /\ t \notin waiting
      /\ phase # "init" /\ w \in 1..workers /\ taskq \in Seq(Tasks)
      /\ ~failed => phase # "done" /\ phase # "free" /\ phase # "deinit"
      /\ (~failed /\ ~cancel) => phase \in {"create", "loop"}
  BY <1>1, RunFacts
<1>3. left' \in [Tasks -> 0..MaxLeft]
  BY <1>1, <1>2 DEF IInv, TypeOK, LifecycleAssumption
<1>4. CASE keys
  <2>1. /\ cur' = [cur EXCEPT ![w] = NoTask]
        /\ \/ taskq' = taskq /\ waiting' = waiting \cup {t}
           \/ taskq' = Append(taskq, t) /\ waiting' = waiting
    BY <1>4 DEF Relax, Await
  <2>2. /\ pc' \in [Workers -> PcS] /\ pc'[w] = "pop"
        /\ \A o \in Workers \ {w} : pc'[o] = pc[o] \/ (pc[o] = "wait" /\ pc'[o] = "pop")
    <3> DEFINE p == [pc EXCEPT ![w] = "pop"]
    <3>1. /\ p \in [Workers -> PcS] /\ p[w] = "pop"
          /\ \A o \in Workers \ {w} : p[o] = pc[o]
      BY DEF IInv, TypeOK, PcS
    <3>2. CASE pc' = [pc EXCEPT ![w] = "pop"]
      BY <3>1, <3>2
    <3>3. CASE pc' \in Signalled([pc EXCEPT ![w] = "pop"])
      <4> HIDE DEF p
      <4>1. pc' \in Signalled(p)
        BY <3>3 DEF p
      <4> QED  BY <3>1, <4>1, SignalledPc
    <3> QED  BY <1>4, <3>2, <3>3 DEF Relax, Await
  <2>3. /\ taskq' \in Seq(Tasks) /\ waiting' \in SUBSET Tasks
        /\ Range(taskq') \cup waiting' = Range(taskq) \cup waiting \cup {t}
        /\ Range(taskq') \cap waiting' = {}
        /\ \A j, k \in 1..Len(taskq') : taskq'[j] = taskq'[k] => j = k
    <3>1. CASE taskq' = taskq /\ waiting' = waiting \cup {t}
      BY <1>2, <3>1 DEF IInv, TypeOK, OnePlace
    <3>2. CASE taskq' = Append(taskq, t) /\ waiting' = waiting
      <4>1. \A k \in 1..Len(taskq) : taskq[k] \in Range(taskq)
        BY <1>2 DEF Range
      <4>2. /\ taskq' \in Seq(Tasks) /\ Len(taskq') = Len(taskq) + 1
            /\ \A k \in 1..Len(taskq) : taskq'[k] = taskq[k]
            /\ taskq'[Len(taskq) + 1] = t
            /\ Range(taskq') = Range(taskq) \cup {t}
        BY <1>2, <3>2, AppendedRange
      <4>3. \A j, k \in 1..Len(taskq') : taskq'[j] = taskq'[k] => j = k
        BY <1>2, <4>1, <4>2 DEF IInv, OnePlace
      <4> QED  BY <1>2, <3>2, <4>2, <4>3 DEF IInv, TypeOK, OnePlace
    <3> QED  BY <2>1, <3>1, <3>2
  <2>4. TypeOK'
    BY <1>1, <1>3, <2>1, <2>2, <2>3 DEF IInv, TypeOK, PcS
  <2>5. OnePlace'
    <3>1. \A o \in Workers : cur'[o] = IF o = w THEN NoTask ELSE cur[o]
      BY <2>1 DEF IInv, TypeOK
    <3>2. \A o \in Workers : pc'[o] = "run" <=> cur'[o] # NoTask
      BY <2>2, <3>1 DEF IInv, OnePlace
    <3>3. \A o \in Workers : cur'[o] # NoTask => cur'[o] \notin Range(taskq') \cup waiting'
      BY <3>1, <2>3, <1>2 DEF IInv, OnePlace
    <3> QED  BY <2>3, <3>1, <3>2, <3>3 DEF IInv, OnePlace
  <2>6. Live'
    BY <1>1, <1>2, <2>1, <2>3 DEF IInv, Live, TypeOK
  <2>7. Started' /\ Pool' /\ KeysGone'
    BY <1>1, <1>2, <1>4, <2>2 DEF IInv, TypeOK, Started, Pool, KeysGone
  <2>8. SelfKnown' /\ FreedAlone' /\ ShutdownWhenDone'
    BY <1>1, <1>2, <1>4, <2>2 DEF IInv, SelfKnown, FreedAlone, ShutdownWhenDone
  <2> QED  BY <2>4, <2>5, <2>6, <2>7, <2>8 DEF IInv
<1>5. CASE ~keys
  <2>1. UNCHANGED <<pc, cur, taskq, waiting>>
    BY <1>5 DEF Relax, Await
  <2>2. TypeOK' /\ OnePlace' /\ Live'
    BY <1>1, <1>3, <2>1 DEF IInv, TypeOK, OnePlace, Live
  <2>3. Started' /\ Pool' /\ KeysGone'
    BY <1>1, <1>2, <2>1 DEF IInv, Started, Pool, KeysGone
  <2>4. SelfKnown' /\ FreedAlone' /\ ShutdownWhenDone'
    BY <1>1, <2>1 DEF IInv, SelfKnown, FreedAlone, ShutdownWhenDone
  <2> QED  BY <2>2, <2>3, <2>4 DEF IInv
<1> QED  BY <1>4, <1>5

(* A task returns: its worker frees it, or the process ends with it.       *)
LEMMA EndIInv ==
    ASSUME LifecycleAssumption, IInv, process = "up", NEW w \in Workers, End(w) PROVE IInv'
<1> DEFINE t == cur[w]
<1> USE DEF masterVars
<1>1. pc[w] = "run" /\ finished' = finished \cup {t}
      /\ UNCHANGED <<masterVars, taskq, waiting, keys, left>>
  BY DEF End
<1>2. /\ t \in Tasks /\ t # NoTask /\ t \notin Range(taskq) /\ t \notin waiting
      /\ phase # "init" /\ w \in 1..workers /\ taskq \in Seq(Tasks)
      /\ ~failed => phase # "done" /\ phase # "free" /\ phase # "deinit"
      /\ (~failed /\ ~cancel) => phase \in {"create", "loop"}
  BY <1>1, RunFacts
<1>3. CASE keys
  <2>1. /\ pc' = [pc EXCEPT ![w] = "pop"] /\ cur' = [cur EXCEPT ![w] = NoTask]
        /\ tasks' = tasks \ {t} /\ process' = process
    BY <1>3 DEF End
  <2>2. TypeOK'
    BY <1>1, <1>2, <2>1 DEF IInv, TypeOK
  <2>3. OnePlace'
    BY <1>1, <1>2, <2>1 DEF IInv, TypeOK, OnePlace
  <2>4. Live'
    BY <1>1, <1>2, <2>1 DEF IInv, TypeOK, OnePlace, Live
  <2>5. Started' /\ Pool' /\ KeysGone'
    BY <1>1, <1>2, <1>3, <2>1 DEF IInv, TypeOK, Started, Pool, KeysGone
  <2>6. SelfKnown' /\ FreedAlone' /\ ShutdownWhenDone'
    BY <1>1, <1>2, <1>3, <2>1 DEF IInv, TypeOK, SelfKnown, FreedAlone, ShutdownWhenDone
  <2> QED  BY <2>2, <2>3, <2>4, <2>5, <2>6 DEF IInv
<1>4. CASE ~keys
  <2>1. process' = "ended" /\ UNCHANGED <<pc, cur, tasks>>
    BY <1>4 DEF End
  <2>2. TypeOK' /\ OnePlace' /\ Live'
    BY <1>1, <1>2, <2>1 DEF IInv, TypeOK, OnePlace, Live
  <2>3. Started' /\ Pool' /\ KeysGone'
    BY <1>1, <1>2, <2>1 DEF IInv, Started, Pool, KeysGone
  <2>4. SelfKnown' /\ FreedAlone' /\ ShutdownWhenDone'
    BY <1>1, <1>2, <1>4, <2>1 DEF IInv, SelfKnown, FreedAlone, ShutdownWhenDone
  <2> QED  BY <2>2, <2>3, <2>4 DEF IInv
<1> QED  BY <1>3, <1>4

(* A worker is cancelled: the keys go, and its task stays where it is.     *)
LEMMA CancelledIInv ==
    ASSUME LifecycleAssumption, IInv, process = "up", NEW w \in Workers, Cancelled(w) PROVE IInv'
<1> USE DEF masterVars, workVars
<1>1. /\ w \in requested /\ pc[w] \in {"wait", "run"}
      /\ pc' = [pc EXCEPT ![w] = "exited"] /\ cur' = [cur EXCEPT ![w] = NoTask]
      /\ keys' = FALSE
      /\ UNCHANGED <<masterVars, workVars, process>>
  BY DEF Cancelled
<1>2. w \in 1..workers /\ ~failed /\ phase \notin {"create", "loop"} /\ phase # "init"
      /\ phase # "done" /\ phase # "free" /\ phase # "deinit"
  BY <1>1 DEF IInv, Started, Pool, TypeOK, Workers, KeysGone, FreedAlone
<1>3. TypeOK' /\ OnePlace' /\ Live'
  BY <1>1, <1>2 DEF IInv, TypeOK, OnePlace, Live
<1>4. Started' /\ Pool' /\ KeysGone'
  BY <1>1, <1>2 DEF IInv, TypeOK, Started, Pool, KeysGone
<1>5. FreedAlone' /\ ShutdownWhenDone'
  BY <1>1, <1>2 DEF IInv, TypeOK, FreedAlone, ShutdownWhenDone
<1>6. SelfKnown'
  <2> SUFFICES ASSUME ~cancel \/ workers = 1, NEW o \in Workers, pc'[o] = "run" PROVE FALSE
    BY <1>1, <1>2 DEF IInv, SelfKnown
  <2>1. o # w /\ pc[o] = "run"
    BY <1>1 DEF IInv, TypeOK
  <2>2. o \in 1..workers /\ (~cancel => phase \in {"create", "loop"})
    BY <1>2, <2>1, RunFacts
  <2> QED  BY <1>2, <2>1, <2>2
<1> QED  BY <1>3, <1>4, <1>5, <1>6 DEF IInv

(* Every step of the system keeps the invariant.                           *)
LEMMA NextIInv == ASSUME LifecycleAssumption, IInv, [Next]_vars PROVE IInv'
<1>1. CASE UNCHANGED vars
  BY <1>1 DEF vars, IInv, TypeOK, Started, Pool, KeysGone, OnePlace, Live, SelfKnown,
              FreedAlone, ShutdownWhenDone
<1>2. CASE process = "up" /\ MasterStep
  BY <1>2, MasterInitIInv, CreateIInv, LoopEndIInv, ScaleDownIInv, TakeDownIInv DEF MasterStep
<1>3. CASE process = "up" /\ \E w \in Workers : WorkerStep(w)
  BY <1>3, PopIInv, SuspendIInv, EndIInv, CancelledIInv DEF WorkerStep
<1>4. CASE process = "up" /\ (Interrupt \/ \E t \in Tasks : Tick(t))
  BY <1>4, InterruptIInv, TickIInv
<1> QED  BY <1>1, <1>2, <1>3, <1>4 DEF Next, Over

(* The inductive invariant holds of every behaviour.                       *)
THEOREM Inductive == ASSUME LifecycleAssumption PROVE Spec => []IInv
<1>1. Init => IInv
  BY InitIInv
<1>2. IInv /\ [Next]_vars => IInv'
  BY NextIInv
<1> QED  BY <1>1, <1>2, PTL DEF Spec

(* Each variable keeps its type; tp->count never exceeds the workers asked *)
(* for, and the loops of threadpool.c stay inside tp->threads.             *)
THEOREM TypeCorrect == Spec => []TypeOK
<1>1. IInv => TypeOK
  BY DEF IInv
<1> QED  BY <1>1, Inductive, LifecycleAssumption, PTL

(* While a task runs its worker has the thread-specific keys, and the      *)
(* process is up, unless SIGINT stops more than one worker or              *)
(* pthread_create has failed.                                              *)
THEOREM TasksKnowThemselves == Spec => []SelfKnown
<1>1. IInv => SelfKnown
  BY DEF IInv
<1> QED  BY <1>1, Inductive, LifecycleAssumption, PTL

(* The master frees the tasks and takes the thread pool down only after    *)
(* every worker has ended.                                                 *)
THEOREM MasterFreesAlone == Spec => []FreedAlone
<1>1. IInv => FreedAlone
  BY DEF IInv
<1> QED  BY <1>1, Inductive, LifecycleAssumption, PTL

(* A shutdown without SIGINT begins after each task has run to its end,    *)
(* with nothing queued, waiting or running.                                *)
THEOREM ShutdownComesLast == Spec => []ShutdownWhenDone
<1>1. IInv => ShutdownWhenDone
  BY DEF IInv
<1> QED  BY <1>1, Inductive, LifecycleAssumption, PTL
=============================================================================
