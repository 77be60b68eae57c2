----------------------------- MODULE Scheduler -----------------------------
(***************************************************************************)
(* The core of pcaio: worker threads run tasks (src/pcaio/worker.c), each  *)
(* on its own stack, and a task that is running suspends itself, creates,  *)
(* gathers or awaits, and ends (pcaio.c, task.c, gather.c).  The run queue *)
(* is the abstract queue TaskQueue implements.  IO modules are seen from   *)
(* outside: a task registers with one and the master thread pushes the     *)
(* task back.                                                              *)
(*                                                                         *)
(* A step is what one thread does between two accesses to state another    *)
(* thread can reach.  t->flags is accessed only by the thread that runs t  *)
(* or has just landed from it, so a test of it is one step with what it    *)
(* decides, as long as no two threads do that at once (OneStack).          *)
(***************************************************************************)
EXTENDS Integers, Sequences, FiniteSets, Functions

CONSTANTS
    Workers,      \* the worker threads
    Tasks,        \* all tasks there may ever be
    Roots,        \* the tasks given to pcaio()
    Endless,      \* the roots that may go on suspending for ever
    NoTask,       \* NULL
    Operations,   \* what tasks call: "relax", "fschedule", "gather", "await"
    UShort,       \* number of values of atomic_ushort (gather.h:34)
    MaxLeft       \* BOUND on the suspensions of a task that is not endless

ASSUME SchedulerAssumption ==
    /\ IsFiniteSet(Workers) /\ IsFiniteSet(Tasks)
    /\ Roots \subseteq Tasks /\ Roots # {} /\ Endless \subseteq Roots
    /\ NoTask \notin Tasks
    /\ Operations \subseteq {"relax", "fschedule", "gather", "await"}
    /\ UShort \in Nat \ {0}
    /\ MaxLeft \in Nat

VARIABLES
    queue,      \* state.taskq, oldest first
    life,       \* life[t]: "unborn", "live" (allocated, in state.tasks), "freed"
    flags,      \* t->flags
    finished,   \* the tasks whose *t->status is stored
    gather,     \* t->gather, named by the task whose stack holds the struct
    frame,      \* frame[p]: the tasks of the gatherA call p is in
    gcount,     \* g.count of that call
    waiting,    \* the tasks an IO module will schedule
    left,       \* left[t]: the suspensions t may still make
    pc, cur,    \* where each worker is, and its task
    master      \* "loop" or "exited" (master.c:141)

vars == <<queue, life, flags, finished, gather, frame, gcount, waiting, left,
          pc, cur, master>>

Live   == { t \in Tasks : life[t] = "live" }
Queued == Range(queue)
OnCPU  == { w \in Workers : pc[w] \in {"run", "spawn", "hold", "hook", "wake"} }

TypeOK ==
    /\ queue \in Seq(Tasks)
    /\ life \in [Tasks -> {"unborn", "live", "freed"}]
    /\ flags \in [Tasks -> SUBSET {"terminated", "noschedule"}]
    /\ finished \in SUBSET Tasks
    /\ gather \in [Tasks -> Tasks \cup {NoTask}]
    /\ frame \in [Tasks -> SUBSET Tasks]
    /\ gcount \in [Tasks -> 0..UShort - 1]
    /\ waiting \in SUBSET Tasks
    /\ left \in [Tasks -> 0..MaxLeft]
    /\ pc \in [Workers -> {"pop", "switch", "run", "spawn", "hold", "hook",
                           "wake", "landed", "dead"}]
    /\ cur \in [Workers -> Tasks \cup {NoTask}]
    /\ \A w \in Workers : cur[w] = NoTask <=> pc[w] \in {"pop", "dead"}
    /\ master \in {"loop", "exited"}

Init ==
    /\ queue \in { q \in [1..Cardinality(Roots) -> Roots] : IsInjective(q) }
    /\ life = [t \in Tasks |-> IF t \in Roots THEN "live" ELSE "unborn"]
    /\ flags = [t \in Tasks |-> {}]
    /\ finished = {}
    /\ gather = [t \in Tasks |-> NoTask]
    /\ frame = [t \in Tasks |-> {}]
    /\ gcount = [t \in Tasks |-> 0]
    /\ waiting = {}
    /\ left = [t \in Tasks |-> MaxLeft]
    /\ pc = [w \in Workers |-> "pop"]
    /\ cur = [w \in Workers |-> NoTask]
    /\ master = "loop"
-----------------------------------------------------------------------------
(* Mutant of Enqueue: the queue is a stack.                                *)
EnqueueFirst(t) == queue' = IF t \in Queued THEN queue ELSE <<t>> \o queue

(* taskqueue_push: refuses a task that is in the queue already.  Its test  *)
(* is outside the mutex and one step with the append here: that is right   *)
(* while no two threads push one task (OnePlace), not after two have been  *)
(* on one stack, where both can pass it.                                   *)
Enqueue(t) == queue' = IF t \in Queued THEN queue ELSE Append(queue, t)

At(w, place) == pc[w] = place
Goto(w, place) == pc' = [pc EXCEPT ![w] = place]

(* taskqueue_pop and the start of the loop body, before swapcontext.       *)
Pop(w) ==
    /\ At(w, "pop")
    /\ master = "loop"
    /\ queue # <<>>
    /\ cur' = [cur EXCEPT ![w] = Head(queue)]
    /\ queue' = Tail(queue)
    /\ Goto(w, "switch")
    /\ UNCHANGED <<life, flags, finished, gather, frame, gcount, waiting, left, master>>

(* swapcontext(&landing, &t->context): the task continues after its last   *)
(* relaxA.  When that was the one in gatherA, the call returns and its     *)
(* struct gather is gone.                                                  *)
Switch(w) ==
    /\ At(w, "switch")
    /\ frame' = [frame EXCEPT ![cur[w]] = {}]
    /\ Goto(w, "run")
    /\ UNCHANGED <<queue, life, flags, finished, gather, gcount, waiting, left, cur, master>>

(* A task that is not endless suspends itself only so many times.          *)
Suspends(t) ==
    IF t \in Endless THEN UNCHANGED left
    ELSE left[t] > 0 /\ left' = [left EXCEPT ![t] = @ - 1]

(* Mutant of Relax: the task schedules itself before its stack is saved.   *)
RelaxScheduled(w) ==
    /\ At(w, "run")
    /\ "relax" \in Operations
    /\ Suspends(cur[w])
    /\ Enqueue(cur[w])
    /\ Goto(w, "landed")
    /\ UNCHANGED <<life, flags, finished, gather, frame, gcount, waiting, cur, master>>

(* pcaio_relaxA(0): the stack is saved, the worker lands.                  *)
Relax(w) ==
    /\ At(w, "run")
    /\ "relax" \in Operations
    /\ Suspends(cur[w])
    /\ Goto(w, "landed")
    /\ UNCHANGED <<queue, life, flags, finished, gather, frame, gcount, waiting, cur, master>>

(* pcaio_fschedule: task_new puts the task in state.tasks, then it is      *)
(* pushed; nobody else can know the task between the two.                  *)
FSchedule(w, c) ==
    /\ At(w, "run")
    /\ "fschedule" \in Operations
    /\ life[c] = "unborn"
    /\ life' = [life EXCEPT ![c] = "live"]
    /\ Enqueue(c)
    /\ UNCHANGED <<flags, finished, gather, frame, gcount, waiting, left, pc, cur, master>>

(* pcaio_task_new for each task of the array, then pcaio_gatherA up to its *)
(* loop: g.count = count.                                                  *)
Gather(w, cs) ==
    /\ At(w, "run")
    /\ "gather" \in Operations
    /\ cs # {} /\ \A c \in cs : life[c] = "unborn"
    /\ Suspends(cur[w])
    /\ life' = [t \in Tasks |-> IF t \in cs THEN "live" ELSE life[t]]
    /\ frame' = [frame EXCEPT ![cur[w]] = cs]
    /\ gcount' = [gcount EXCEPT ![cur[w]] = Cardinality(cs) % UShort]
    /\ Goto(w, "spawn")
    /\ UNCHANGED <<queue, flags, finished, gather, waiting, cur, master>>

(* The tasks of p's array the loop of gatherA has not come to.             *)
Unpushed(p) == { c \in frame[p] : gather[c] = NoTask }

(* An iteration of the loop of gatherA.  A push that is refused makes the  *)
(* call fail: it returns at once and its struct gather is gone.            *)
Spawn(w) ==
    /\ At(w, "spawn")
    /\ \E c \in Unpushed(cur[w]) :
         /\ gather' = [gather EXCEPT ![c] = cur[w]]
         /\ Enqueue(c)
         /\ IF c \in Queued
              THEN /\ Goto(w, "run")
                   /\ frame' = [frame EXCEPT ![cur[w]] = {}]
              ELSE /\ Goto(w, IF Unpushed(cur[w]) = {c} THEN "hold" ELSE "spawn")
                   /\ UNCHANGED frame
    /\ UNCHANGED <<life, flags, finished, gcount, waiting, left, cur, master>>

(* A module's await: the task is registered for its event; from here on    *)
(* the module may schedule it.                                             *)
Await(w) ==
    /\ At(w, "run")
    /\ "await" \in Operations
    /\ Suspends(cur[w])
    /\ waiting' = waiting \cup {cur[w]}
    /\ Goto(w, "hold")
    /\ UNCHANGED <<queue, life, flags, finished, gather, frame, gcount, cur, master>>

(* pcaio_relaxA(TASK_NOSCHEDULE), at the end of await and of gatherA.      *)
Hold(w) ==
    /\ At(w, "hold")
    /\ flags' = [flags EXCEPT ![cur[w]] = @ \cup {"noschedule"}]
    /\ Goto(w, "landed")
    /\ UNCHANGED <<queue, life, finished, gather, frame, gcount, waiting, left, cur, master>>

(* The task's function returns: _taskmain flags the task, stores the       *)
(* status, and calls t->terminated, which gatherA has set.  The flag is    *)
(* set before the status; one step here, for as long as OneStack holds     *)
(* nobody reads either before this worker is in the hook or has landed.    *)
Return(w) ==
    /\ At(w, "run")
    /\ flags' = [flags EXCEPT ![cur[w]] = @ \cup {"terminated"}]
    /\ finished' = finished \cup {cur[w]}
    /\ Goto(w, IF gather[cur[w]] = NoTask THEN "landed" ELSE "hook")
    /\ UNCHANGED <<queue, life, gather, frame, gcount, waiting, left, cur, master>>

(* Mutant of LastOne: off by one.                                          *)
LastButOne(n) == n <= 1

LastOne(n) == n = 0

(* gather_taskterminated, under g->mutex.                                  *)
Hook(w) ==
    /\ At(w, "hook")
    /\ LET p == gather[cur[w]]
           n == (gcount[p] - 1) % UShort IN
         /\ gcount' = [gcount EXCEPT ![p] = n]
         /\ Goto(w, IF LastOne(n) THEN "wake" ELSE "landed")
    /\ UNCHANGED <<queue, life, flags, finished, gather, frame, waiting, left, cur, master>>

(* pcaio_schedule(g->task) by the last task of the gather.                 *)
Wake(w) ==
    /\ At(w, "wake")
    /\ Enqueue(gather[cur[w]])
    /\ Goto(w, "landed")
    /\ UNCHANGED <<life, flags, finished, gather, frame, gcount, waiting, left, cur, master>>

(* Mutant of Lands: threadlocaltask_set(NULL) is missing.                  *)
LandsStill(w, place) == Goto(w, place) /\ UNCHANGED cur

Lands(w, place) ==
    /\ Goto(w, place)
    /\ cur' = [cur EXCEPT ![w] = NoTask]

(* The worker is back on its own stack: the task has terminated.           *)
Free(w) ==
    /\ At(w, "landed")
    /\ "terminated" \in flags[cur[w]]
    /\ life' = [life EXCEPT ![cur[w]] = "freed"]
    /\ Lands(w, "pop")
    /\ UNCHANGED <<queue, flags, finished, gather, frame, gcount, waiting, left, master>>

(* Mutant of Unheld: the flag stays set.                                   *)
HeldStill(t) == flags

Unheld(t) == [flags EXCEPT ![t] = @ \ {"noschedule"}]

(* ... the task is held by a module or a gather.                           *)
Unhold(w) ==
    /\ At(w, "landed")
    /\ "terminated" \notin flags[cur[w]]
    /\ "noschedule" \in flags[cur[w]]
    /\ flags' = Unheld(cur[w])
    /\ Lands(w, "pop")
    /\ UNCHANGED <<queue, life, finished, gather, frame, gcount, waiting, left, master>>

(* ... or it goes to the end of the queue; a worker whose push is refused  *)
(* ends with EINVAL.                                                       *)
Repush(w) ==
    /\ At(w, "landed")
    /\ flags[cur[w]] = {}
    /\ Enqueue(cur[w])
    /\ Lands(w, IF cur[w] \in Queued THEN "dead" ELSE "pop")
    /\ UNCHANGED <<life, flags, finished, gather, frame, gcount, waiting, left, master>>

(* The master thread, in the tick of a module: the event of t came.        *)
ModWake(t) ==
    /\ master = "loop"
    /\ t \in waiting
    /\ waiting' = waiting \ {t}
    /\ Enqueue(t)
    /\ UNCHANGED <<life, flags, finished, gather, frame, gcount, left, pc, cur, master>>

(* Mutant of NoneLeft: the loop looks at the run queue.                    *)
NoneQueued == queue = <<>>

NoneLeft == Live = {}

(* The main loop of the master ends when state.tasks is empty.             *)
MasterExit ==
    /\ master = "loop"
    /\ NoneLeft
    /\ master' = "exited"
    /\ UNCHANGED <<queue, life, flags, finished, gather, frame, gcount, waiting, left, pc, cur>>

(* pcaio() has returned.                                                   *)
Stopped == master = "exited" /\ UNCHANGED vars

TaskStep(w) ==
    \/ Relax(w) \/ Await(w) \/ Return(w)
    \/ \E c \in Tasks : FSchedule(w, c)
    \/ \E cs \in SUBSET Tasks : Gather(w, cs)

WorkerStep(w) ==
    \/ Pop(w) \/ Switch(w) \/ TaskStep(w) \/ Spawn(w) \/ Hold(w) \/ Hook(w) \/ Wake(w)
    \/ Free(w) \/ Unhold(w) \/ Repush(w)

Next ==
    \/ \E w \in Workers : WorkerStep(w)
    \/ \E t \in Tasks : ModWake(t)
    \/ MasterExit
    \/ Stopped

Spec == Init /\ [][Next]_vars

(* The operating system runs every thread.  No task blocks its worker for  *)
(* ever (the library is cooperative), and every awaited event comes.       *)
FairSpec ==
    /\ Spec
    /\ \A w \in Workers : WF_vars(WorkerStep(w))
    /\ \A t \in Tasks : WF_vars(ModWake(t))
    /\ WF_vars(MasterExit)
-----------------------------------------------------------------------------
(* The worker will not touch its task again: someone else has it.          *)
Releasing(w) ==
    \/ At(w, "hold")
    \/ At(w, "landed") /\ "noschedule" \in flags[cur[w]]

(* The tasks of p's gather that have not been subtracted from g.count.     *)
Pending(p) ==
    { c \in frame[p] : ~ /\ "terminated" \in flags[c]
                         /\ \A w \in Workers : cur[w] = c => ~At(w, "hook") }

(* p sleeps in gatherA: a task of its gather is to wake it.                *)
Joining(p) ==
    /\ \A w \in Workers : cur[w] = p => ~At(w, "spawn")
    /\ \/ Pending(p) # {}
       \/ \E w \in Workers : At(w, "wake") /\ gather[cur[w]] = p

(* Who is to make t go on.                                                 *)
Places(t) ==
    { x \in {"queue", "worker", "module", "gather", "array"} :
        \/ x = "queue"  /\ t \in Queued
        \/ x = "worker" /\ \E w \in Workers : cur[w] = t /\ ~Releasing(w)
        \/ x = "module" /\ t \in waiting
        \/ x = "gather" /\ Joining(t)
        \/ x = "array"  /\ \E p \in Tasks : t \in Unpushed(p) }

(* A task is never lost and never in two hands: each allocated task is     *)
(* either once in the run queue, or with one worker that will push or free *)
(* it, or with an IO module, or asleep in gatherA with a child left to     *)
(* wake it, or still in the array of a gatherA call.  A freed task is in   *)
(* none of them.  So whoever pushes a task is the only one to have it:     *)
(* what the unlocked test of queue_push relies on (MayPush of TaskQueue).  *)
OnePlace ==
    /\ IsInjective(queue)
    /\ \A w, x \in Workers :
         cur[w] # NoTask /\ cur[w] = cur[x] /\ ~Releasing(w) /\ ~Releasing(x) => w = x
    /\ \A p, q \in Tasks : Unpushed(p) \cap Unpushed(q) # {} => p = q
    /\ \A t \in Tasks : IF t \in Live THEN \E x \in Places(t) : Places(t) = {x}
                                      ELSE Places(t) = {}

(* Two workers never execute on the stack of one task at the same time.    *)
OneStack == \A w, x \in OnCPU : cur[w] = cur[x] => w = x

(* A worker's task is allocated until that worker frees it, and the struct *)
(* gather on the parent's stack that the termination hook of a child uses  *)
(* belongs to a gatherA call that has not returned.                        *)
NoUseAfterFree ==
    \A w \in Workers :
      /\ cur[w] # NoTask => cur[w] \in Live
      /\ pc[w] \in {"hook", "wake"} =>
           /\ gather[cur[w]] \in Live
           /\ cur[w] \in frame[gather[cur[w]]]

(* gatherA returns only when each of its tasks has stored its status       *)
(* (test_gather.c sums the statuses right after the call).                 *)
GatherBarrier ==
    [][\A p \in Tasks : frame[p] # {} /\ frame'[p] = {} => frame[p] \subseteq finished]_vars

(* A worker never ends because its push was refused (worker.c:94-98).      *)
WorkersStay == \A w \in Workers : pc[w] # "dead"

(* pcaio() leaves its main loop only when every task it was given or that  *)
(* was created since has stored its status, and no worker, queue or module *)
(* still has one.                                                          *)
ExitWhenDone ==
    master = "exited" =>
      /\ { t \in Tasks : life[t] # "unborn" } \subseteq finished
      /\ queue = <<>> /\ waiting = {}
      /\ \A w \in Workers : cur[w] = NoTask

(* Round robin starves nobody: a task that suspends itself finitely often  *)
(* ends and is freed, whatever the endless tasks do.                       *)
Finishes == \A t \in Tasks \ Endless : life[t] = "live" ~> life[t] = "freed"

(* What a task is doing, for the task: it runs while a worker is on its    *)
(* stack, waits from the call of a module or of gatherA until it is pushed *)
(* again, and is ready when it is queued, about to be switched to, just    *)
(* landed, or in the array of gatherA.                                     *)
Doing(t) ==
    IF \E w \in Workers : cur[w] = t /\ At(w, "run") THEN "running"
    ELSE IF life[t] = "unborn" THEN "none"
    ELSE IF t \in finished THEN "ended"
    ELSE IF t \in waiting THEN "awaiting"
    ELSE IF /\ frame[t] # {} /\ t \notin Queued
            /\ \A w \in Workers : cur[w] = t => ~At(w, "switch") THEN "joining"
    ELSE "ready"

States == [t \in Tasks |-> Doing(t)]

(* Workers, queue, flags and hooks implement coroutines: see Coroutines.   *)
Tasking ==
    INSTANCE Coroutines WITH
        state <- States, team <- frame, MaxRunning <- Cardinality(Workers)
CoroutineSpec == Tasking!Spec
=============================================================================
