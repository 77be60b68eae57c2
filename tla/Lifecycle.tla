----------------------------- MODULE Lifecycle -----------------------------
(***************************************************************************)
(* The life of a call of pcaio() (pcaio.c, master.c, threadpool.c) and of  *)
(* its threads (worker.c, task.c): the master creates the workers, loops   *)
(* until all tasks are gone or SIGINT asks to stop, cancels and joins the  *)
(* workers, frees the tasks that are left and takes everything down.  A    *)
(* worker is cancelled at a cancellation point: inside cond_wait, or in a  *)
(* system call a task makes.  The two thread-specific keys (the current    *)
(* task and the landing context) belong to the process; both are created   *)
(* and deleted together, and are one variable here.                        *)
(***************************************************************************)
EXTENDS Naturals, Sequences, SequencesExt, FiniteSets

CONSTANTS
    MaxWorkers,   \* BOUND on the number of workers; a worker is its index in
                  \* tp->threads, plus one
    Tasks,        \* the tasks given to pcaio()
    NoTask,       \* NULL
    Points,       \* TRUE: tasks make calls that are cancellation points
    MaxLeft       \* BOUND on the suspensions of a task

ASSUME LifecycleAssumption ==
    /\ MaxWorkers \in Nat \ {0}
    /\ IsFiniteSet(Tasks) /\ NoTask \notin Tasks
    /\ Points \in BOOLEAN
    /\ MaxLeft \in Nat

Workers == 1..MaxWorkers

VARIABLES
    workers,    \* state.workers
    phase,      \* where pcaio() is
    i,          \* the loop variable of threadpool.c
    count,      \* tp->count
    cancel,     \* state.cancel
    requested,  \* the workers pthread_cancel was called for
    pc, cur,    \* where each worker is, and its task
    taskq,      \* state.taskq
    tasks,      \* state.tasks: the tasks that are allocated
    waiting,    \* the tasks an IO module holds
    finished,   \* the tasks that ran to their end
    keys,       \* the thread-specific keys exist
    failed,     \* pthread_create has failed
    left,       \* left[t]: the suspensions t may still make
    process     \* "up", or "ended" by a thread that left _taskmain

vars == <<workers, phase, i, count, cancel, requested, pc, cur, taskq, tasks, waiting,
          finished, keys, left, process, failed>>
masterVars == <<workers, phase, i, count, cancel, requested, failed>>
workVars   == <<taskq, tasks, waiting, finished, left>>

TypeOK ==
    /\ phase \in {"init", "create", "loop", "cancel", "join", "free", "deinit", "done"}
    /\ workers \in 0..MaxWorkers
    /\ i \in 0..workers
    /\ count \in 0..workers
    /\ cancel \in BOOLEAN
    /\ requested \in SUBSET Workers
    /\ pc \in [Workers -> {"none", "pop", "wait", "run", "exited"}]
    /\ cur \in [Workers -> Tasks \cup {NoTask}]
    /\ taskq \in Seq(Tasks)
    /\ tasks \in SUBSET Tasks
    /\ waiting \in SUBSET Tasks
    /\ finished \in SUBSET Tasks
    /\ keys \in BOOLEAN
    /\ left \in [Tasks -> 0..MaxLeft]
    /\ process \in {"up", "ended"}
    /\ failed \in BOOLEAN

(* pcaio_task_new was called for the tasks; state is as in master.c:42-47. *)
Init ==
    /\ phase = "init"
    /\ workers = 0 /\ i = 0 /\ count = 0 /\ cancel = TRUE /\ requested = {}
    /\ pc = [w \in Workers |-> "none"]
    /\ cur = [w \in Workers |-> NoTask]
    /\ taskq = <<>> /\ tasks = Tasks /\ waiting = {} /\ finished = {}
    /\ keys = FALSE
    /\ left = [t \in Tasks |-> MaxLeft]
    /\ process = "up" /\ failed = FALSE
-----------------------------------------------------------------------------
(* master_init and the pushall of pcaio().                                 *)
MasterInit ==
    /\ phase = "init"
    /\ phase' = "create"
    /\ workers' \in 1..MaxWorkers
    /\ keys' = TRUE
    /\ cancel' = FALSE
    /\ taskq' \in SetToSeqs(Tasks)
    /\ UNCHANGED <<i, count, requested, pc, cur, tasks, waiting, finished, left, process, failed>>

(* An iteration of the loop of _scaleup, or its end.  The new thread sets  *)
(* its landing context and enters its loop.                                *)
ScaleUp ==
    /\ phase = "create"
    /\ IF count < workers
         THEN /\ pc' = [pc EXCEPT ![count + 1] = "pop"]
              /\ count' = count + 1
              /\ UNCHANGED phase
         ELSE /\ phase' = "loop"
              /\ UNCHANGED <<pc, count>>
    /\ UNCHANGED <<workers, i, cancel, requested, cur, workVars, keys, process, failed>>

(* pthread_create fails: master() returns -1 at once, and the workers that *)
(* were created are neither cancelled nor joined.                          *)
CreateFailure ==
    /\ phase = "create" /\ count < workers
    /\ phase' = "deinit"
    /\ failed' = TRUE
    /\ UNCHANGED <<workers, i, count, cancel, requested, pc, cur, workVars, keys, process>>

(* SIGINT, from sigaction(2) on: _signal.                                  *)
Interrupt ==
    /\ phase \notin {"init", "done"}
    /\ cancel' = TRUE
    /\ UNCHANGED <<workers, phase, i, count, requested, pc, cur, workVars, keys, process, failed>>

(* Mutant of Signalled: no signal is sent.                                 *)
SignalledNot(p) == {p}

(* pthread_cond_signal on top of the step p of the calling thread.         *)
Signalled(p) ==
    IF \A w \in Workers : p[w] # "wait" THEN {p}
    ELSE { [p EXCEPT ![w] = "pop"] : w \in { w \in Workers : p[w] = "wait" } }

(* The tick of a module schedules a task whose event came.                 *)
Tick(t) ==
    /\ phase = "loop"
    /\ t \in waiting
    /\ waiting' = waiting \ {t}
    /\ taskq' = Append(taskq, t)
    /\ pc' \in Signalled(pc)
    /\ UNCHANGED <<masterVars, cur, tasks, finished, keys, left, process>>

(* Mutant of MayLeave: the loop looks at the run queue.                    *)
MayLeaveEarly == cancel \/ taskq = <<>>

MayLeave == cancel \/ tasks = {}

(* Mutant of LastIndex: off by one.                                             *)
BeyondLastIndex == count + 1

(* Where the loops of _scaledown, which go down, begin.                    *)
LastIndex == count

(* The main loop ends, and threadpool_scale(tp, 0) is called.              *)
LoopEnd ==
    /\ phase = "loop"
    /\ MayLeave
    /\ phase' = "cancel"
    /\ i' = LastIndex
    /\ UNCHANGED <<workers, count, cancel, requested, pc, cur, workVars, keys, process, failed>>

(* An iteration of the first loop of _scaledown, or its end.               *)
CancelWorker ==
    /\ phase = "cancel"
    /\ IF i > 0
         THEN /\ requested' = requested \cup {i}
              /\ i' = i - 1
              /\ UNCHANGED phase
         ELSE /\ phase' = "join"
              /\ i' = LastIndex
              /\ UNCHANGED requested
    /\ UNCHANGED <<workers, count, cancel, pc, cur, workVars, keys, process, failed>>

(* Mutant of Ended: pthread_join does not wait.                            *)
EndedOrNot(w) == pc[w] # "none"

Ended(w) == pc[w] = "exited"

(* An iteration of the second loop of _scaledown: pthread_join blocks      *)
(* until the thread has ended.                                             *)
JoinWorker ==
    /\ phase = "join"
    /\ IF i > 0
         THEN /\ Ended(i)
              /\ i' = i - 1
              /\ count' = count - 1
              /\ UNCHANGED phase
         ELSE /\ phase' = "free"
              /\ UNCHANGED <<i, count>>
    /\ UNCHANGED <<workers, cancel, requested, pc, cur, workVars, keys, process, failed>>

(* An iteration of the last loop of master(), or its end.                  *)
FreeTask ==
    /\ phase = "free"
    /\ IF tasks # {}
         THEN /\ \E t \in tasks : tasks' = tasks \ {t}
              /\ UNCHANGED phase
         ELSE /\ phase' = "deinit"
              /\ UNCHANGED tasks
    /\ UNCHANGED <<workers, i, count, cancel, requested, pc, cur, taskq, waiting, finished, keys, left, process, failed>>

(* master_deinit: state is zeroed, and pcaio() returns.                    *)
MasterDeinit ==
    /\ phase = "deinit"
    /\ phase' = "done"
    /\ keys' = FALSE
    /\ taskq' = <<>>
    /\ cancel' = TRUE
    /\ UNCHANGED <<workers, i, count, requested, pc, cur, tasks, waiting, finished, left, process, failed>>
-----------------------------------------------------------------------------
(* The worker's loop and the task on it.                                   *)
Pop(w) ==
    /\ pc[w] = "pop"
    /\ IF taskq = <<>>
         THEN /\ pc' = [pc EXCEPT ![w] = "wait"]
              /\ UNCHANGED <<cur, taskq>>
         ELSE /\ pc' = [pc EXCEPT ![w] = "run"]
              /\ cur' = [cur EXCEPT ![w] = Head(taskq)]
              /\ taskq' = Tail(taskq)
    /\ UNCHANGED <<masterVars, tasks, waiting, finished, keys, left, process>>

Suspends(w) ==
    /\ pc[w] = "run"
    /\ left[cur[w]] > 0
    /\ left' = [left EXCEPT ![cur[w]] = @ - 1]

(* relaxA(0), landing and the push by the worker.  Without the keys relaxA *)
(* returns -1, and the task goes on.                                       *)
Relax(w) ==
    /\ Suspends(w)
    /\ IF keys
         THEN /\ pc' \in Signalled([pc EXCEPT ![w] = "pop"])
              /\ cur' = [cur EXCEPT ![w] = NoTask]
              /\ taskq' = Append(taskq, cur[w])
         ELSE UNCHANGED <<pc, cur, taskq>>
    /\ UNCHANGED <<masterVars, tasks, waiting, finished, keys, process>>

(* A module's await; without the keys pcaio_self() is NULL and it fails.   *)
Await(w) ==
    /\ Suspends(w)
    /\ IF keys
         THEN /\ pc' = [pc EXCEPT ![w] = "pop"]
              /\ cur' = [cur EXCEPT ![w] = NoTask]
              /\ waiting' = waiting \cup {cur[w]}
         ELSE UNCHANGED <<pc, cur, waiting>>
    /\ UNCHANGED <<masterVars, taskq, tasks, finished, keys, process>>

(* The task returns: it lands and the worker frees it.  Without the keys   *)
(* there is no landing context, and leaving _taskmain (whose uc_link is    *)
(* NULL) ends the process.                                                 *)
End(w) ==
    /\ pc[w] = "run"
    /\ finished' = finished \cup {cur[w]}
    /\ IF keys
         THEN /\ pc' = [pc EXCEPT ![w] = "pop"]
              /\ cur' = [cur EXCEPT ![w] = NoTask]
              /\ tasks' = tasks \ {cur[w]}
              /\ UNCHANGED process
         ELSE /\ process' = "ended"
              /\ UNCHANGED <<pc, cur, tasks>>
    /\ UNCHANGED <<masterVars, taskq, waiting, keys, left>>

(* The worker is cancelled; _cleanup deletes the keys, for all threads.    *)
Cancelled(w) ==
    /\ w \in requested
    /\ pc[w] = "wait" \/ (Points /\ pc[w] = "run")
    /\ pc' = [pc EXCEPT ![w] = "exited"]
    /\ cur' = [cur EXCEPT ![w] = NoTask]
    /\ keys' = FALSE
    /\ UNCHANGED <<masterVars, workVars, process>>

MasterStep ==
    \/ MasterInit \/ ScaleUp \/ CreateFailure \/ LoopEnd \/ CancelWorker \/ JoinWorker \/ FreeTask \/ MasterDeinit

WorkerStep(w) == Pop(w) \/ Relax(w) \/ Await(w) \/ End(w) \/ Cancelled(w)

(* Nothing happens once pcaio() has returned or the process has ended.     *)
Over == (phase = "done" \/ process = "ended") /\ UNCHANGED vars

Next ==
    \/ /\ process = "up"
       /\ \/ MasterStep
          \/ Interrupt
          \/ \E t \in Tasks : Tick(t)
          \/ \E w \in Workers : WorkerStep(w)
    \/ Over

Spec == Init /\ [][Next]_vars

(* Every thread runs, an awaited event comes, and a pending cancellation   *)
(* is acted upon at the cancellation point the thread is in.  Nobody has   *)
(* to interrupt.                                                           *)
FairSpec ==
    /\ Spec
    /\ WF_vars(process = "up" /\ MasterStep)
    /\ \A t \in Tasks : WF_vars(process = "up" /\ Tick(t))
    /\ \A w \in Workers : WF_vars(process = "up" /\ WorkerStep(w))
-----------------------------------------------------------------------------
(* A running task knows itself and its landing context, and so the process *)
(* survives, except when SIGINT stops several workers: the first of them   *)
(* to go deletes the keys of all (worker.c:39-44), or pthread_create has   *)
(* failed: then pcaio() takes everything down under the workers.           *)
SelfKnown ==
    (~failed /\ (~cancel \/ workers = 1)) =>
      /\ \A w \in Workers : pc[w] = "run" => keys
      /\ process = "up"

(* The master frees tasks and takes the queue and the thread pool down     *)
(* only when every worker it created has ended; not so after a failed      *)
(* start.                                                                  *)
FreedAlone ==
    phase \in {"free", "deinit", "done"} =>
      failed \/ (count = 0 /\ \A w \in 1..workers : pc[w] = "exited")

(* Without SIGINT, and once all workers are created, pcaio() shuts them    *)
(* down only after each task ran to its end, so that a worker is cancelled *)
(* in cond_wait, where it has the mutex that _cleanup unlocks.             *)
ShutdownWhenDone ==
    (phase \in {"cancel", "join", "free", "deinit"} /\ ~cancel /\ ~failed) =>
      /\ finished = Tasks /\ tasks = {} /\ taskq = <<>> /\ waiting = {}
      /\ \A w \in Workers : pc[w] # "run"

(* pcaio() returns, or SIGINT has made the process end.                    *)
Returns == <>(phase = "done" \/ process = "ended")
=============================================================================
