------------------------------ MODULE ModEpoll ------------------------------
(***************************************************************************)
(* src/pcaio/modepoll.c between the scheduler (IoTasks) and the kernel: a  *)
(* task that awaits a file descriptor (monitorA, on the worker's thread)   *)
(* and the module's tick (on the master thread) share the list of waiting  *)
(* events (listT.c) and an epoll instance, which is modelled from how the  *)
(* module uses it (level triggered, ONESHOT).                              *)
(***************************************************************************)
EXTENDS IoTasks

CONSTANT EpollFails    \* TRUE: epoll_wait may return -1

ASSUME EpollAssumption == EpollFails \in BOOLEAN

VARIABLES
    list,       \* waitingevents
    interest,   \* the data.ptr epoll keeps for a file descriptor
    armed,      \* the file descriptors epoll may report
    tick,       \* where the master thread is in _tick
    limit,      \* the maxevents argument of its epoll_wait
    batch,      \* the events epoll_wait returned and _tick has not handled
    panic       \* MOD_PANIC is set: the module is not ticked again

vars == <<taskVars, list, interest, armed, tick, limit, batch, panic>>
kernelVars == <<interest, armed>>
tickVars   == <<tick, limit, batch, panic>>

TypeOK ==
    /\ TasksOK
    /\ list \in Seq(Tasks)
    /\ interest \in [Fds -> Tasks \cup {NoTask}]
    /\ armed \in SUBSET Fds
    /\ tick \in {"out", "wait", "batch", "error"}
    /\ limit \in 0..Cardinality(Tasks)
    /\ batch \in Seq(Tasks)
    /\ panic \in BOOLEAN

Init ==
    /\ TasksInit
    /\ list = <<>>
    /\ interest = [f \in Fds |-> NoTask]
    /\ armed = {}
    /\ tick = "out" /\ limit = 0 /\ batch = <<>> /\ panic = FALSE
-----------------------------------------------------------------------------
(* monitorA up to epoll_ctl, MOD or else ADD: epoll now knows the event,   *)
(* and no more the one another task gave it for the same file descriptor.  *)
(* (When epoll_ctl refuses the file descriptor monitorA returns -1 and     *)
(* nothing has changed.)                                                   *)
Ctl(t, f) ==
    /\ Enter(t, f)
    /\ interest' = [interest EXCEPT ![f] = t]
    /\ armed' = armed \cup {f}
    /\ UNCHANGED <<list, tickVars>>

(* Mutant of Listed: the event is not put in the list.                     *)
ListedNot(t) == list

Listed(t) == Append(list, t)

(* list_append; the event is fresh, so its guard accepts it.               *)
AppendEvent(t) ==
    /\ Register(t)
    /\ list' = Listed(t)
    /\ UNCHANGED <<kernelVars, tickVars>>

MaxEvents == Len(list)

(* _tick is called and calls epoll_wait.  The list only grows between the  *)
(* two reads of its count.                                                 *)
TickStart ==
    /\ tick = "out"
    /\ ~panic
    /\ list # <<>>
    /\ tick' = "wait"
    /\ limit' = MaxEvents
    /\ UNCHANGED <<taskVars, list, kernelVars, batch, panic>>

(* epoll_wait times out, _tick returns PMSAGAIN.                           *)
TickTimeout ==
    /\ tick = "wait"
    /\ tick' = "out"
    /\ UNCHANGED <<taskVars, list, kernelVars, limit, batch, panic>>

(* Mutant of Disarmed: EPOLLONESHOT is missing.                            *)
DisarmedNot(fs) == armed

Disarmed(fs) == armed \ fs

(* epoll_wait reports some of the armed file descriptors and, they being   *)
(* ONESHOT, disarms them.                                                  *)
TickReport(fs) ==
    /\ tick = "wait"
    /\ fs # {} /\ fs \subseteq armed /\ Cardinality(fs) <= limit
    /\ \E order \in SetToSeqs(fs) :
         batch' = [i \in 1..Len(order) |-> interest[order[i]]]
    /\ armed' = Disarmed(fs)
    /\ tick' = "batch"
    /\ UNCHANGED <<taskVars, list, interest, limit, panic>>

(* An event of the batch: what epoll reported, EPOLLERR (isErr) or not, is *)
(* stored in it, then list_delete and pcaio_schedule.  When the event is   *)
(* not in the list _tick returns -1, which the master takes for a panic,   *)
(* and the rest of the batch is forgotten.                                 *)
TickEvent(isErr) ==
    /\ tick = "batch"
    /\ LET t == Head(batch) IN
         /\ error' = [error EXCEPT ![t] = isErr]
         /\ IF t \in ToSet(list)
              THEN /\ list' = RemoveFirst(list, t)
                   /\ queue' = Enqueue(queue, t)
                   /\ batch' = Tail(batch)
                   /\ tick' = IF Tail(batch) = <<>> THEN "out" ELSE "batch"
                   /\ UNCHANGED panic
              ELSE /\ batch' = <<>>
                   /\ tick' = "out"
                   /\ panic' = TRUE
                   /\ UNCHANGED <<list, queue>>
    /\ UNCHANGED <<running, pc, fd, kernelVars, limit>>

(* epoll_wait fails.                                                       *)
TickFails ==
    /\ tick = "wait"
    /\ EpollFails
    /\ tick' = "error"
    /\ UNCHANGED <<taskVars, list, kernelVars, limit, batch, panic>>

(* Mutant of WithError: IOERR is not set.                                  *)
WithoutError(t) == error

WithError(t) == [error EXCEPT ![t] = TRUE]

(* An iteration of the loop that wakes every waiting task with IOERR, and  *)
(* at its end the return of PMSPANIC.                                      *)
TickDrain ==
    /\ tick = "error"
    /\ IF list = <<>>
         THEN /\ tick' = "out"
              /\ panic' = TRUE
              /\ UNCHANGED <<list, error, queue>>
         ELSE /\ list' = Tail(list)
              /\ error' = WithError(Head(list))
              /\ queue' = Enqueue(queue, Head(list))
              /\ UNCHANGED <<tick, panic>>
    /\ UNCHANGED <<running, pc, fd, kernelVars, limit, batch>>

(* The master goes round its loop: _tick has nothing to wait for and       *)
(* returns PMSIDLE, or is not called any more.                             *)
TickIdle ==
    /\ tick = "out"
    /\ panic \/ list = <<>>
    /\ UNCHANGED vars

WorkerStep ==
    \/ Turn /\ UNCHANGED <<list, kernelVars, tickVars>>
    \/ \E t \in Tasks : AppendEvent(t) \/ \E f \in Fds : Ctl(t, f)

TickStep ==
    \/ TickStart \/ TickTimeout \/ TickDrain \/ TickFails
    \/ \E isErr \in BOOLEAN : TickEvent(isErr)
    \/ \E fs \in SUBSET Fds : TickReport(fs)

Next == WorkerStep \/ TickStep \/ TickIdle

Spec == Init /\ [][Next]_vars

(* The worker and the master thread run; a file descriptor that is awaited *)
(* becomes ready, and stays so until it is reported.                       *)
FairSpec ==
    /\ Spec
    /\ WF_vars(WorkerStep)
    /\ WF_vars(TickStep)
    /\ \A f \in Fds : SF_vars(\E fs \in SUBSET Fds : f \in fs /\ TickReport(fs))
-----------------------------------------------------------------------------
(* epoll has another task's event for the descriptor t sleeps on: of the   *)
(* tasks that share a descriptor it knows only the last one.               *)
Superseded(t) == interest[fd[t]] # t

(* The pointers the kernel keeps and those _tick has in its array point to *)
(* events on the stack of a monitorA call that has not returned.  (After a *)
(* failure of epoll_wait stale pointers remain armed, but the module is in *)
(* panic and never looks at them.)  And an event wakes its task once: a    *)
(* scheduled task is in the queue once, and has no event left in the list  *)
(* or in the array.                                                        *)
EventsAlive ==
    /\ TypeOK
    /\ \A i \in 1..Len(batch) : InCall(batch[i])
    /\ (~panic /\ tick # "error") =>
         \A f \in armed : InCall(interest[f]) /\ fd[interest[f]] = f
    /\ IsInjective(queue) /\ IsInjective(list)
    /\ \A t \in ToSet(queue) : t \notin ToSet(list) /\ t \notin ToSet(batch)

(* Until the module is in panic a task that sleeps in monitorA is          *)
(* forgotten only because another one has taken over its descriptor: else  *)
(* it is scheduled, or _tick has its event, or epoll watches its file      *)
(* descriptor for it and _tick will find its event in the list.            *)
NoneForgotten ==
    ~panic => \A t \in Tasks : pc[t] = "await" =>
        \/ t \in ToSet(queue)
        \/ t \in ToSet(list) /\ (tick = "error" \/ t \in ToSet(batch))
        \/ t \in ToSet(list) /\ (fd[t] \in armed \/ Superseded(t))

(* monitorA returns 0 only when its file descriptor was reported: a task   *)
(* scheduled for any other reason has IOERR in its event.                  *)
NoFalseReady ==
    \A t \in ToSet(queue) :
        (InCall(t) /\ ~error[t]) => fd[t] \notin armed \/ Superseded(t)

(* modepoll.c is an IO module: what it does to its callers' events, list   *)
(* and queue implements await as modio.h promises it, also when epoll_wait *)
(* fails and when the module panics.                                       *)
IoSpec == Io!Spec

(* README.md: the task is resumed when the data becomes available, that    *)
(* is, after epoll has reported the file descriptor the task sleeps on.    *)
WokenWhenReady ==
    \A t \in Tasks : (pc[t] = "await" /\ fd[t] \notin armed) ~> pc[t] # "await"

(* As long as the module does not panic every task that awaits a file      *)
(* descriptor is resumed, unless another task awaits the same one after it.*)
WokenUnlessPanic ==
    []~panic => \A t \in Tasks : pc[t] = "await" ~> pc[t] # "await" \/ Superseded(t)
=============================================================================
