------------------------------ MODULE IoTasks -------------------------------
(***************************************************************************)
(* The side of the scheduler that is common to the IO modules: one worker, *)
(* the run queue, and tasks that yield, end, and call the await of a       *)
(* module, which modepoll.c and modselect.c both call monitorA.  There is  *)
(* one worker: what goes wrong with more than one is in Scheduler.  The    *)
(* event, a struct on the stack of the task in monitorA, is named by its   *)
(* task.                                                                   *)
(***************************************************************************)
EXTENDS Integers, Sequences, SequencesExt, FiniteSets

CONSTANTS
    Tasks,        \* the tasks, all of them given to pcaio()
    Fds,          \* file descriptors
    FdsOf,        \* FdsOf[t]: those that t awaits, one at a time
    NoTask        \* NULL

ASSUME IoTasksAssumption ==
    /\ IsFiniteSet(Tasks) /\ IsFiniteSet(Fds)
    /\ FdsOf \in [Tasks -> SUBSET Fds]
    /\ NoTask \notin Tasks

VARIABLES
    queue,      \* state.taskq
    running,    \* the task on the worker, or NoTask
    pc,         \* where each task is, in or outside monitorA
    fd, error   \* e.fd and (e.events & IOERR) of each task's event

taskVars == <<queue, running, pc, fd, error>>

(* Between the first line of monitorA and its return.                      *)
InCall(t) == pc[t] \in {"enter", "hold", "await"}

TasksOK ==
    /\ queue \in Seq(Tasks)
    /\ running \in Tasks \cup {NoTask}
    /\ pc \in [Tasks -> {"run", "enter", "hold", "await", "done"}]
    /\ \A t \in Tasks : fd[t] \in Fds \/ (fd[t] = NoTask /\ ~InCall(t))
    /\ error \in [Tasks -> BOOLEAN]

TasksInit ==
    /\ queue \in SetToSeqs(Tasks)
    /\ running = NoTask
    /\ pc = [t \in Tasks |-> "run"]
    /\ fd = [t \in Tasks |-> NoTask]
    /\ error = [t \in Tasks |-> FALSE]

At(t, place) == running = t /\ pc[t] = place

(* Mutant of Enqueue: the task is not scheduled.                           *)
EnqueueNot(q, t) == q

(* pcaio_schedule: a task that is queued already is not queued again.      *)
Enqueue(q, t) == IF t \in ToSet(q) THEN q ELSE Append(q, t)

(* The worker pops a task; one inside monitorA returns from it, and its    *)
(* event is gone with the stack frame.                                     *)
Resume ==
    /\ running = NoTask
    /\ queue # <<>>
    /\ running' = Head(queue)
    /\ queue' = Tail(queue)
    /\ pc' = [pc EXCEPT ![Head(queue)] = "run"]
    /\ UNCHANGED <<fd, error>>

(* pcaio_relaxA(0): back to the end of the queue.                          *)
Relax(t) ==
    /\ At(t, "run")
    /\ running' = NoTask
    /\ queue' = Enqueue(queue, t)
    /\ UNCHANGED <<pc, fd, error>>

(* The task ends.                                                          *)
Finish(t) ==
    /\ At(t, "run")
    /\ running' = NoTask
    /\ pc' = [pc EXCEPT ![t] = "done"]
    /\ UNCHANGED <<queue, fd, error>>

(* The start of monitorA: the event is made.                               *)
Enter(t, f) ==
    /\ At(t, "run")
    /\ f \in FdsOf[t]
    /\ pc' = [pc EXCEPT ![t] = "enter"]
    /\ fd' = [fd EXCEPT ![t] = f]
    /\ error' = [error EXCEPT ![t] = FALSE]
    /\ UNCHANGED <<queue, running>>

(* The event is registered with the module.                                *)
Register(t) ==
    /\ At(t, "enter")
    /\ pc' = [pc EXCEPT ![t] = "hold"]
    /\ UNCHANGED <<queue, running, fd, error>>

(* pcaio_relaxA(TASK_NOSCHEDULE), and the worker's test of the flag.       *)
Hold(t) ==
    /\ At(t, "hold")
    /\ running' = NoTask
    /\ pc' = [pc EXCEPT ![t] = "await"]
    /\ UNCHANGED <<queue, fd, error>>

(* What a worker does outside the module.                                  *)
Turn == Resume \/ \E t \in Tasks : Relax(t) \/ Finish(t) \/ Hold(t)

(* The contract of an IO module: a task inside monitorA that is scheduled  *)
(* has been woken.                                                         *)
Awaits ==
    [t \in Tasks |-> IF ~InCall(t) THEN "none"
                     ELSE IF t \notin ToSet(queue) THEN "waiting"
                     ELSE IF error[t] THEN "failed" ELSE "ready"]

Io == INSTANCE IoModule WITH call <- Awaits
=============================================================================
