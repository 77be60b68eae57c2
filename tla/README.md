# pcaio in TLA+

pcaio is a C library that runs *tasks* (stackful coroutines made with `ucontext`)
on a pool of worker threads. A task suspends itself, at a yield, in a gather or in
an IO call, and some thread makes it go on later. This directory models the
library's control: which thread may touch which task when, what the queues between
them hold, and how a call of `pcaio()` begins and ends. The modules are
model-checked with TLC on small instances, and the results that matter most are
proved with TLAPS for every number of threads and tasks.

Paths below are relative to the repository (`src/pcaio/worker.c` is the scheduler's
worker, `src/include/pcaio/queueT.c` the queue template).

## 1. Inventory

| Component | Code | State | Operations | Modelled in |
|---|---|---|---|---|
| task queue | `queueT.c` | `head`, `tail`, `count`, each item's `next`, a mutex, a condition variable | push (guard outside the mutex), pushall, pop | `FifoQueue`, `TaskQueue` |
| tasks and workers | `worker.c`, `task.c`, `pcaio.c` | `state.taskq`, `state.tasks`, each task's `flags`, `status`, saved context; the landing context and current task of each thread | relaxA, schedule, fschedule, the worker's loop, `_taskmain`, `task_free` | `Coroutines`, `Scheduler` |
| gather | `gather.c` | `struct gather` on the parent's stack: count, parent, mutex; `t->gather` | gatherA, the termination hook | `Coroutines`, `Scheduler` |
| epoll module | `modepoll.c` | the list of waiting events, the epoll instance, one event per call on the caller's stack | monitorA, `_tick` | `ModEpoll` |
| select module | `modselect.c` | the ring of events, the `fd_set`s and the array built at each tick | monitorA, `_tick` | `ModSelect` |
| ring | `ringT.c` | `head`, `tail`, the slots, two mutexes | push, pop, with tests outside the mutexes | `Ring`, used by `ModSelect` |
| list | `listT.c` | a doubly linked list with a mutex | append, delete, pop, with tests outside the mutex | `OrderedList`, `LinkedList` |
| IO calls, timer | `modio.c`, `timer.c` | the caller's stack, `errno` of each thread, one timerfd | retry loops over await; set and await | `ModIO` |
| master, life cycle | `pcaio.c`, `master.c` | `state`, SIGINT's cancel flag, the modules' flags | init, main loop, shutdown, deinit | `Lifecycle` (the modules' panic: `ModEpoll`, `ModSelect`, `ModIO`) |
| thread pool | `threadpool.c` | `threads[]`, `count` | scale up, scale down (cancel, join) | `Lifecycle` |
| thread-specific keys | `threadlocalT.c`, `context.c` | two process-wide `pthread_key_t` | create, set, delete | `Lifecycle` |
| examples, tests | `src/examples`, `src/tests` | a pipe, a timer | producers, consumers, sleepers | the programs `ModIO` runs |

How they interact. The *master* thread (the caller of `pcaio()`) creates the
workers, then loops over the installed modules' `tick` functions until
`state.tasks` is empty or SIGINT came. A *worker* pops a task from the shared run
queue and swaps to the task's stack. The task runs until it swaps back
("lands"); its `flags` tell the worker what to do: free it (`TASK_TERMINATED`),
leave it (`TASK_NOSCHEDULE`: a module or a gather has it) or push it back. A module
that has a task pushes it from the master's thread when its event came; the last
child of a gather pushes the parent from the child's worker. All of that is
shared memory; the locks are one mutex per queue, list, ring and gather, and the
tasks themselves are protected by nothing but the discipline that one thread at a
time has a task.

What is hard about it:

* The thread that takes a suspended task over (a module, or the last child) may do
  so *before* the suspending thread has left the task's stack.
* The queue's guard, `v->next || v == q->tail`, is read without the mutex.
* One `pthread_cond_signal` per push, with workers that do not sleep competing for
  the item.
* `struct gather` and the epoll events live on stacks: who still uses them when the
  call returns, and when does the call return?
* epoll, the module's list and the tick change in different orders on two threads.
* The ring and the list test their state before they take the mutex, on two threads.
* An IO call may be woken and find that another task took what it was woken for; it
  may go on with another worker, whose `errno` is another one.
* The shutdown cancels threads that may be running tasks, and a cancelled worker
  deletes keys that belong to all threads.

What makes each component right:

* *Queue*: pointers and count describe the items put and not taken, in order; a
  refused push means "it is in the queue"; no wakeup is lost; nothing is starved.
* *Scheduler*: an allocated task is always in exactly one hand; no stack is used by
  two workers; nothing freed is used; every finite task ends whatever others do.
* *Gather*: a barrier; its struct outlives the hooks.
* *IO modules*: await is a promise, the same for both (`IoModule`): no waiting task is
  forgotten, woken twice, woken falsely or touched after its call returned.
* *Ring and list*: they hold what was put in and not taken out, whatever their
  callers do between a test and the critical section.
* *IO calls*: a call never fails because another task was faster; what is written is
  read once and in order; the end of the file comes at the end; a sleep lasts.
* *Life cycle*: without SIGINT the shutdown begins when everything has ended, and
  hits only idle workers; the master frees tasks and state alone; `pcaio()` returns.

`PROJECT.json` lists the hazards line by line, with the properties that cover each.

## 2. Modules

**`FifoQueue`** is the abstract queue: the items waiting, and the item each thread
took and still works on. An item is in one place at a time. A put hands over what
the putting thread had.

**`TaskQueue`** is `queueT.c` at the level of its pointers. A critical section is one
action; the two unlocked reads of push's guard are one action each
(`PushGuardNext` for `v->next`, `PushGuardTail` for `q->tail`), so another thread
can run between them and before the mutex is taken (`Push`). `Pop` and `PopWait` are
the two ways through the `while` loop of pop; `SpuriousWake` is what POSIX allows.
`MayPush` is the callers' part of the contract, which no test of the code enforces: a
worker pushes the item it works on or one nobody has, another thread one nobody has.
`OnePlace` of `Scheduler` is what makes the program keep to it, and in the race of
`sched_race` it does not. `Release` is the moment a task is handed to a
module or a gather, which may push it while the worker is still on its way back.
`PushAll` comes once, first (`pcaio.c` calls it before there is a worker). `refused` (a
push returned -1) and `contents` are history variables, the latter the refinement
mapping to `FifoQueue`.

| Variable | Code |
|---|---|
| `head`, `tail`, `next`, `count` | `q->head`, `q->tail`, `v->queue_next`, `q->count` |
| `pc`, `arg` | where a thread is in push or pop, and what it pushes |
| `got` | the task a worker popped and has not given away |

**`Scheduler`** is `worker.c`, `task.c`, `gather.c` and the entry points of `pcaio.c`
over an abstract run queue (what `TaskQueue` is shown to implement). A step is what
one thread does between two accesses to state that another can reach. `pc[w]` is the
worker's place:

| `pc` | Code |
|---|---|
| `pop` | in or before `taskqueue_pop` |
| `switch` | between pop and the task's first instruction |
| `run` | the task's own code |
| `spawn` | the loop of `gatherA` that pushes the children |
| `hold` | between the loop of `gatherA` (or the registration in a module) and `swapcontext` in `relaxA(TASK_NOSCHEDULE)` |
| `hook`, `wake` | `gather_taskterminated`, before and after its critical section |
| `landed` | back on the worker's stack, about to look at the flags |
| `dead` | the worker left its loop because a push was refused |

`frame[p]` is the struct gather of the `gatherA` call `p` is in, by its tasks (empty:
there is no such call, the struct is gone); `gcount[p]` is its 16-bit counter;
`waiting` stands for the modules, which may schedule a task from its registration on.
Two actions are one step where the code has two: `Enqueue` (the guard of push and its
critical section) and `Return` (TASK_TERMINATED is set before the status is stored). The
difference can be seen only when two threads have one task, so that these actions are
the code's exactly as long as `OnePlace` and `OneStack` hold; nothing is claimed of what
follows once they are violated.

**`Coroutines`** is what all of that promises to the functions that run as tasks: a task
is absent, ready, running, awaiting, gathering or ended; it goes on where it suspended itself; a
gather lasts until every task of its team has ended; at most as many run as there are
workers. `Scheduler` maps to it (`Doing`, `CoroutineSpec`).

**`IoModule`** is the contract of `await` in `struct pcaio_iomodule` (`modio.h`): a call
waits, is woken once, ready or with IOERR, and returns which of the two it was.
`ModEpoll` and `ModSelect` implement it (`IoSpec`); `ModIO` is built on it. **`IoTasks`**
is the part of the scheduler both modules see: one worker, its queue, tasks that call
`monitorA`.

**`ModEpoll`** is `modepoll.c` against epoll (external; modelled as the code uses it:
`EPOLLONESHOT`, one `data.ptr` per file descriptor, `MOD` replacing it). `Ctl` and
`AppendEvent` are the two halves of `monitorA`, in the code's order; the `Tick…`
actions are `_tick`, from the read of the list's count to each event of the batch.
An event is named by the task whose stack holds it. Tasks may share a descriptor.

**`Ring`** holds the operators of `ringT.c`: indices under a mask, the test for empty or
full, and what push and pop do under their mutexes. **`ModSelect`** is `modselect.c` over
it, a test and its push or pop being two steps: `_tick` empties the ring into its
array, builds the sets, selects, scans, and wakes an event or pushes it back, one event
a step, while `monitorA` pushes on the worker's thread. `select` looks at the descriptors
below `maxfileno` (`Watched`); the bit of `maxfileno` itself is cleared when it shares a
word with them and stays set when it does not (`Untouched`, `WordBits`).

**`OrderedList`** is what callers expect of `listT.c`; the result of a call says which call
it was, with what element, and whether it succeeded, and an append always does.
**`LinkedList`** is the pointers, the unlocked test and the critical section of each
operation, and the two ways the program uses it: the waiting events of `modepoll.c` and
the tasks of `task.c`.

**`ModIO`** is `modio.c` and `timer.c`: each call yields, tries its system call, tests
`errno` in a step of its own, awaits and tries again. The programs are those of the
examples: producers and consumers of a pipe (`epoll_pipe.c`, `select_pipe.c`), sleepers
that use their timer again (`asleep.c`), and acceptors with clients. The pipe, the
sockets, timerfd and the time are external. An await may be refused at once
(`Suspend`), may fail alone (epoll reports EPOLLERR for a pipe without a reader,
`Broken`), or the tick may fail (`TickFails`): it hands IOERR to waiting tasks (`Fail`) and
the module panics (`Panic`), after which no await returns. A task may go on with
another worker; its await is atomic here, what can happen inside it being the subject
of `Scheduler`, `ModEpoll` and `ModSelect`. `Connect` is what `connectA` does: it
compares `fd` instead of `ret` with -1 (`modio.c:188`), so that a connection that is in
progress is answered with -1 and never awaited.

**`Lifecycle`** is a whole call of `pcaio()`: `MasterInit`, `ScaleUp` thread by thread
(or `CreateFailure`, after which the deinit runs under the workers there are), the
main loop, `LoopEnd`, the two loops of `_scaledown` (`CancelWorker`, `JoinWorker`),
`FreeTask`, `MasterDeinit`; `Interrupt` is SIGINT at any point after `sigaction`;
`Cancelled` is a worker acting on `pthread_cancel`, with the deletion of the keys by its
`_cleanup`. What a task does without the keys (`relaxA` and await fail, the end of the
task leaves `_taskmain` and ends the process) is in `Relax`, `Await` and `End`.

**`TaskQueueProofs`**, **`SchedulerProofs`**, **`LifecycleProofs`**, **`LinkedListProofs`**,
**`ModEpollProofs`**, **`ModSelectProofs`** and **`ModIOProofs`** hold the proofs about the module
each is named after, over the lemmas about sequences of **`QueueLemmas`**, and the
**`MC…`** modules the instances of the runs. A definition whose comment begins with
"Mutant of" is a faulty variant of the next one; `PROJECT.json` says which property
it breaks.

## 3. Runs

| Run | Configuration | Properties | What it shows |
|---|---|---|---|
| `queue_threads` | `MCTaskQueue_threads`: a master thread, three workers, three items | `TypeOK` `Represents` `NoPushRefused` `NoLostWakeup` `FifoSpec` `Served` | the list is the queue, the unlocked guard refuses nothing that is outside it, no wakeup is lost, FIFO, no starvation |
| `sched_coop` | `MCScheduler_coop`: three workers, four tasks, yield and fschedule, an endless root | `TypeOK` `OneStack` `OnePlace` `NoUseAfterFree` `WorkersStay` `ExitWhenDone` | with several workers, tasks that are never held are safe |
| `sched_hold` | `MCScheduler_hold`: one worker, four tasks, all operations, an endless root | `OnePlace` `NoUseAfterFree` `GatherBarrier` `Finishes` `CoroutineSpec` | with one worker, gathers (also nested) and awaits are safe, gather is a barrier, finite tasks end, and the whole implements `Coroutines` |
| `sched_race` | `MCScheduler_race`: two workers, two tasks, gather | `OneStack`, **violated** | the parent of a gather can be resumed on a second worker before it left its stack |
| `epoll_safe` | `MCModEpoll_safe`: three tasks, two descriptors, shared, `epoll_wait` may fail | `EventsAlive` `NoneForgotten` `NoFalseReady` `IoSpec` `WokenUnlessPanic` | the module loses, duplicates and fakes no event until it panics, and implements `IoModule` |
| `epoll_lost` | `MCModEpoll_lost`: two tasks, three descriptors | `WokenWhenReady`, **violated** | it panics without any failure of the system, and waiting tasks sleep for ever |
| `select_safe` | `MCModSelect_safe`: three tasks, `maxfileno` 3, `select` may fail | `RingHolds` `NoneForgotten` `IoSpec` `WokenWhenReady` | with a ring that has room the module loses and duplicates no event, wakes whom it should, and implements `IoModule` |
| `select_full` | `MCModSelect_full`: two tasks, `maxfileno` 2 | `RingHolds`, **violated** | two threads push into the last free slot and the ring is empty |
| `list_threads` | `MCLinkedList_threads`: the master thread, two workers, four elements | `Represents` `PopFinds` `ListSpec` | the pointers are the list, pop finds an element, `OrderedList` is implemented |
| `io_calls` | `MCModIO_calls`: two workers, three tasks, five programs, awaits may fail, the module may panic | `TypeOK` `NoFalseError` `Delivered` `EndOfFile` `SleptEnough` `Ends` | the retry loops are right under competition and after failed awaits, and all ends unless the module panics |
| `io_errno` | `MCModIO_errno`: the same, competing readers, `errno`'s address kept | `NoFalseError`, **violated** | in an optimised build a call fails with EAGAIN's -1 instead of waiting |
| `lifecycle` | `MCLifecycle_all`: one or two workers, three tasks, SIGINT at any time, `pthread_create` may fail | `TypeOK` `SelfKnown` `FreedAlone` `ShutdownWhenDone` `Returns` | start and shutdown |

`EventsAlive` (epoll), `RingHolds` and `Represents` (list) begin with their module's `TypeOK`.

### The four violations

* `sched_race`. `gatherA` pushes its children before it suspends (`gather.c:67-75`).
  On a second worker the last child can end and push the parent while the first
  worker is still on the parent's stack, and a worker resumes the context saved by
  an *earlier* suspension (or the initial one). The repository's `README.md` calls the suspension a
  "pause/resume at/from this point". The modules' awaits
  have the same order: `monitorA` registers its event before `relaxA` saves the stack
  (`modselect.c:187-191`, `modepoll.c:147-161`), and the tick can schedule the task before it has
  left; with `Operations = {"await"}` in this configuration TLC finds that too, and
  `examples/epoll_pipe.c` awaits with two workers. This is why `sched_hold` has one
  worker and `sched_coop` no gather and no await, why the theorems about the scheduler
  have the same hypothesis (`Safe` in `SchedulerProofs`), and why `IoTasks` has one worker.
* `epoll_lost`. `monitorA` tells epoll about the event before it appends it to the
  list. A tick that waits for another descriptor can be given the event in between;
  `list_delete` does not find it, `_tick` returns -1, which the master takes for a
  panic, and no event is looked at again.
* `select_full`. `ring_push` tests for a free slot outside its mutex (`ringT.c:71`). The
  worker and the tick, which pushes back what was not ready, can both see the last
  slot; the second push wraps the ring round, and all its events are gone.
* `io_errno`. `__errno_location()` is declared `const`, so `gcc -O2` may compute
  `errno`'s address once per function; after an await that ended on another worker
  the loop clears, and tests, the `errno` of the worker it left. `CachedErrno` is that
  choice of the compiler: TRUE in `io_errno` (a Release build), FALSE in `io_calls`.

### Bounds, and why they suffice

* *Queue*: three items are the first number with a head, an inner item and a tail,
  so each of the branches of push and pop is taken in each shape of the list. With
  three workers a signalled worker can lose its item to one that does not sleep
  while another sleeps. The proofs remove the bound for everything but liveness.
  `pushall` comes once, on an empty queue, as `pcaio.c` calls it; on a queue in use the
  chain it builds would lose `v[0]` (`Chain`), which no caller meets.
* *Scheduler*: four tasks allow a gather of two by a root while the other root is in
  the queue, and nested gathers; three workers are needed to see two others race
  about a task that one holds. `MaxLeft` bounds how often a task suspends itself
  (once, or twice in `sched_hold`); endless tasks have no bound. `UShort` has its real
  value, and the gathers stay below it: the overflow of the counter is a hazard that
  is listed and not covered.
* *ModEpoll*: with three tasks, one of which may await either descriptor, a task
  registers while the tick is in `epoll_wait` for another, a third waits meanwhile,
  and a descriptor changes hands (`Superseded`). Tasks register any number of times.
* *ModSelect*: `maxfileno` 3 gives four slots, so three tasks never fill the ring, and
  the indices wrap; one descriptor is `maxfileno` itself, which `monitorA` accepts and
  `select` does not look at. `maxfileno` 2 is the smallest that leaves a slot. `WordBits`
  has its real value, 64, so that TLC sees the case in which `maxfileno` waits in vain; the
  proofs cover every value of both.
* *LinkedList*: four elements are the first number with two neighbouring inner
  ones; two workers and the master meet in every pair of operations. Threads and elements are
  interchangeable (`SYMMETRY`; only safety is checked there).
* *ModIO*: two competitors and the task they compete for is the smallest case of a lost
  race; two chunks through a pipe for one make writers wait as well as readers; two
  sleeps on one timer are the second use. Two workers let a task change workers.
* *Lifecycle*: with two workers one is cancelled while the other runs, and both loops
  of `_scaledown` go round more than once; one worker is the case without such
  interference. Tasks suspend at most once (`MaxLeft`), so every task is finite: an
  endless one under SIGINT is a listed hazard.

### Fairness

Every thread runs: weak fairness of each worker's step, of the master's and of the
tick's. Besides short critical sections the modelled code blocks in `pthread_cond_wait`,
`epoll_wait`, `select` (with a timeout) and `pthread_join`, and those are guards of the
actions. That a task reaches its next suspension is the contract of cooperative
scheduling. Awaited events come: `WF(ModWake(t))`, `WF(Tick(t))`; in `ModEpoll`, where a
tick may time out again and again, strong fairness of the report of an armed
descriptor. In `ModSelect` nothing forces a descriptor to be ready: `WokenWhenReady`
is about one that stays so. In `ModIO` a module wakes whom it can (`WF(Wake(t))`, what
`WokenUnlessPanic` shows of a module) until it panics, and time passes; nobody forces a
connection to be made, nor a failing tick to reach anybody. `Ends` excepts the panic: a task
that awaits after it, a sleeper its second time, never ends. Nothing forces the master thread of `TaskQueue` to push, nor SIGINT to come.
`Finishes` is stated for the tasks that are not endless, and the endless ones compete
with them without limit.

## 4. Proofs

Every safety invariant, action property and refinement that a passing run checks is also
a theorem, for every value of the constants that satisfies the module's assumption
(`QueueAssumption`, `SchedulerAssumption`, `LifecycleAssumption`, `ListAssumption`,
`IoTasksAssumption`, `SelectAssumption`, `IoAssumption`: the sets of tasks, roots and items
that the program allocates are finite, null is no task or item, flags are Booleans; TLC
evaluates them in the runs). Where a theorem needs more, it has a hypothesis of its own:

| Theorems | Hypothesis | Why |
|---|---|---|
| `NoWakeupIsLost` (queue) | `Workers # {}` | who should be awake otherwise |
| `SchedulerProofs`, but for `TypeCorrect` | `Safe` | `sched_race` shows what happens without it |
| all of `ModSelectProofs` | `Room`: fewer tasks than slots | `select_full` shows it |
| `NoCallFailsFalsely`, `EndOfFileIsTheEnd` (IO calls) | `ErrnoFound`: `errno`'s address is not kept | `io_errno` shows it |
| `EndOfFileIsTheEnd` | `PipesAreRead`: a pipe with a writer has a reader | else the first write is a SIGPIPE |

The layout is the same everywhere: `IInv` joins the properties with what makes them
inductive; there is a lemma per action (`…IInv`) that it is preserved, and the theorems of
the component come last. TLC checked each `IInv` before it was proved.

**Queue** (`TaskQueueProofs`). `IInv` is `TypeOK`, `Represents` and `NoPushRefused` with three
conjuncts:

* `OneOwner`: no item is in the queue twice; a thread has an `arg` exactly while it
  is in push; what a worker got is not queued and no other worker got it. Without
  it `Represents` is not inductive (a second copy of an item would break the chain).
* `KeptOut`: the item of a thread in push is not queued and no other thread pushes it.
  It follows from `MayPush`, and is what `Represents` needs between the guard and the mutex.
* `NotStarted`: before pushall nothing is in use, so that pushall meets an empty queue.

`NoPushRefused` follows from `Represents`: an item outside the queue has no `next` and is not
the tail, whenever the guard looks. The theorems are `TypeCorrect`, `ListRepresentsQueue`,
`PushSucceeds` (`NoPushRefused`) and, with a
step-by-step mapping (push's critical section is a put, pop a take, pushall one put of the
whole array, the rest stutters or drops), `ImplementsFifo`: `Spec => FifoSpec`.
`NoWakeupIsLost` needs besides that only workers wait on the condition variable
(`OnlyWorkersWait`): a push that leaves somebody asleep has signalled a worker.

**Scheduler** (`SchedulerProofs`). `AnyInv` holds in every configuration, and yields
`TypeCorrect`. TLC finds each of the other properties violated with two workers, three tasks and
two gathers of one parent. For those there is `Safe`, one of two cases, each with an invariant
of its own. `NoTaskIsLost` (`OnePlace`) also says that of two workers at most one keeps a task,
and that arrays of gathers are disjoint: who pushes a task is alone in having it, which is what
`TaskQueue` assumes of its callers.

* `NothingHolds`: tasks call neither gather nor await, and there are any number of
  workers. `UnheldInv` says that flags, places and gathers of held tasks do not occur
  (`NothingHeld`); that queue and workers share no task and the allocated tasks are exactly
  those in a hand (`OneHand`); that a terminated task is with the worker that will free it,
  its status stored (`Flagged`); and that no task is allocated once the master left its loop
  (`AfterExit`).
* `OneWorker /\ FewTasks`: one worker, and fewer tasks than 2^16, so that the counter of a gather does
  not wrap. `LoneInv` follows every task through the flags (`FlagsOf`), a parent through its
  gather (`FrameOf`: the counter is the number of children that have not come through their
  hook, and a parent whose children are all done is about to be pushed, or was), a child
  through its (`Child`), and says in whose hand each allocated task is (`HandOf`). A parent
  that is in the queue while the worker is still on its stack is allowed: nobody else can
  pop it. That is the step at which the proof needs the one worker.

In both cases: `StacksAreNotShared`, `NoTaskIsLost`, `NothingUsedAfterFree`, `NoWorkerEnds`,
`ExitsWhenAllIsDone`, `GatherWaits`, and `ImplementsCoroutines`: `Spec => CoroutineSpec`.

**Life cycle** (`LifecycleProofs`). `IInv` adds what exists before `master_init` (`Started`), which
workers `tp->count` counts in each phase (`Pool`), that only a cancelled worker exits and only
then the keys are gone before their time (`KeysGone`), one place per task (`OnePlace`), and
that until the first cancel an allocated task is wherever the scheduler can find it and a
task that is not allocated has ended (`Live`). `Live` is what makes `ShutdownComesLast` hold: the loop
ends on an empty list of tasks. Further `TasksKnowThemselves`, `MasterFreesAlone`, `TypeCorrect`.

**List** (`LinkedListProofs`). `IInv` is `Represents` and `PopFinds` with `NoRepeats` and `Calls`: who
may be in which call, and that no two threads are busy with the same element. `Calls` is the
part of the two callers that the unlocked tests rely on. `PointersRepresentList`,
`PopNeverFollowsNull`, `ImplementsList`.

**epoll module** (`ModEpollProofs`). `Places` says where a task and its event are (run queue, list,
batch), `Ticks` what `_tick` holds, `Watch` what epoll knows: an armed descriptor belongs to a call
that waits, an event of the batch is disarmed, and a call that waits and is the last of its
descriptor is armed or in the batch. With them `NoEventIsStale` (`EventsAlive`),
`NoWaiterIsForgotten`, `NothingIsFalselyReady` and `KeepsContract`: `Spec => IoSpec`, for any tasks and
descriptors, shared or not.

**select module** (`ModSelectProofs`). First the ring, under a mask: pushing and popping are appending
and taking the head (`PushedLast`, `PoppedFirst`), as long as a slot stays free. `Places` says that a
waiting task is once in the queue, the ring or the tick's array, so that with `Room` the test for
a free slot, made before the mutex is taken, cannot become false. `RingIsAQueue`,
`NoWaiterIsForgotten`, `KeepsContract`. `Room` also says that ceil(log2(n)) is a number: to prove that
would be an induction.

**IO calls** (`ModIOProofs`). `IInv` is `TypeOK` and `Delivered` with `Hands` (a task is with one worker, in
the queue or in await), `Role` (which calls a role makes, and that inside a call there is something
left to do), `Pipe` (whose ends are open; who is told the end of the file finds the pipe empty and
all producers gone), `Sleeping` (time slept plus time left covers the delay) and `Client` (a
connection is in progress, in the backlog or accepted, one of them and once). `NothingIsLostOrDoubled`,
`SleepsLast` (`SleptEnough`), `TypeCorrect`. With `ErrnoFresh` (a task about to test `errno` finds what its call left
there, for its worker runs nobody else and no other worker clears it), `NoCallFailsFalsely`; and from that
`EndOfFileIsTheEnd`.

**Only model-checked**: liveness, which is out of the prover's reach: `Served`, `Finishes`,
`WokenUnlessPanic`, `WokenWhenReady`, `Ends`, `Returns`.

## 5. Not modelled

* What the `…_use` functions of the modules refuse (limits, memory), the size of
  `events[]` in `modepoll.c`, creating a timer.
* `accept4A` and `writevA` have the loop of `acceptA` and `writeA`; `getaddrinfoA` is in
  `ModIO` (`LookupCall`, `Lookup`), the lookup being external.
* Failing calls: `malloc` and `mmap` in `task_new`, `swapcontext`, the `pthread_…`
  functions other than `pthread_create`.
* The unlock, by a cancelled worker's `_cleanup`, of a mutex that another thread holds.
* Callbacks of tasks, tasks scheduled before `pcaio()`, gathers of no task or of tasks
  that are scheduled already, an endless task under SIGINT, timers shared by tasks:
  listed hazards no property covers.
* Task arguments, statuses' values, stack sizes, logging, the command line of the
  examples: data no property tells apart.
* The C memory model: a read or write of a pointer-sized field is taken as atomic
  and sequentially consistent.

## 6. Plan

1. *Done*: `FifoQueue`, `TaskQueue`, `Scheduler`, `ModEpoll`, `Lifecycle`, their runs, the
   proofs about the queue and about the scheduler without holds.
2. *Done*: `Coroutines`; `IoModule` with `ModEpoll` and `ModSelect` as implementations and
   `ModIO` as its user; `Ring`; `OrderedList` and `LinkedList`; shared descriptors in
   `ModEpoll`; the failing `pthread_create` in `Lifecycle`.
3. *Done*: proofs of all safety properties and refinements that the runs check, section 4.
4. *Prove more*: that only gathers and awaits endanger the scheduler, stated as a condition on
   what tasks do at a time instead of on the configuration; what of `ModSelect` holds without `Room`.
