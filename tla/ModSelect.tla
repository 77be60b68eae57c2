----------------------------- MODULE ModSelect ------------------------------
(***************************************************************************)
(* src/pcaio/modselect.c between the scheduler (IoTasks) and select(2):    *)
(* waiting events are in a ring (Ring).  monitorA, on the worker's thread, *)
(* pushes an event; the module's tick, on the master thread, pops them all *)
(* into an array, calls select, wakes the tasks whose descriptors are      *)
(* ready and pushes the other events back.  So there are two pushing       *)
(* threads, and each tests for a free slot before it takes the mutex.      *)
(***************************************************************************)
EXTENDS IoTasks, Ring

CONSTANTS
    MaxFileNo,      \* the maxfileno argument of modselect_use
    WordBits,       \* the bits of a word of an fd_set: 64
    SelectFails     \* TRUE: select may return -1

ASSUME SelectAssumption ==
    /\ MaxFileNo \in Nat \ {0} /\ WordBits \in Nat \ {0}
    /\ Fds \subseteq Nat /\ NoTask \notin Nat
    /\ SelectFails \in BOOLEAN

VARIABLES
    events,     \* _mod->events
    contents,   \* what was pushed and not popped, oldest first
    ready,      \* the file descriptors that are ready
    tick,       \* where the master thread is in _tick
    swap,       \* the part of _mod->swap that _tick has not done with
    rfds, efds, \* the sets select filled (rfds stands for wfds too)
    status,     \* ret, the result of the tick
    panic       \* MOD_PANIC is set: the module is not ticked again

ringVars == <<events, contents>>
tickVars == <<tick, swap, rfds, efds, status, panic>>
vars == <<taskVars, ringVars, ready, tickVars>>

(* Mutant of StorageBits: rounded down.                                    *)
StorageBitsFloor(n) == CHOOSE b \in 0..n : 2^b <= n /\ n < 2^(b + 1)

(* ceil(log2(n))                                                           *)
StorageBits(n) == CHOOSE b \in 0..n : n <= 2^b /\ (b = 0 \/ 2^(b - 1) < n)

TypeOK ==
    /\ TasksOK
    /\ events \in [head : 0..events.mask, tail : 0..events.mask, mask : {2^StorageBits(MaxFileNo) - 1},
                   backend : [0..events.mask -> Tasks \cup {NoTask}]]
    /\ contents \in Seq(Tasks)
    /\ ready \in SUBSET Fds
    /\ tick \in {"out", "swap", "select", "scan", "push"}
    /\ swap \in Seq(Tasks) /\ Len(swap) <= MaxFileNo
    /\ rfds \in SUBSET Fds /\ efds \in SUBSET Fds
    /\ status \in {"again", "panic"} /\ panic \in BOOLEAN

Init ==
    /\ TasksInit
    /\ events = NewRing(StorageBits(MaxFileNo), NoTask)
    /\ contents = <<>>
    /\ ready = {}
    /\ tick = "out" /\ swap = <<>> /\ rfds = {} /\ efds = {}
    /\ status = "again" /\ panic = FALSE
-----------------------------------------------------------------------------
(* The tests of monitorA, the last one being ring_push's, made before it   *)
(* takes the mutex.                                                        *)
Accepts(f) == f <= MaxFileNo /\ ~IsFull(events)

(* monitorA up to there: the call is refused, -1, or it goes on.           *)
Monitor(t, f) ==
    /\ IF Accepts(f) THEN Enter(t, f)
         ELSE At(t, "run") /\ f \in FdsOf[t] /\ UNCHANGED taskVars
    /\ UNCHANGED <<ringVars, ready, tickVars>>

Push(t) ==
    /\ events' = Pushed(events, t)
    /\ contents' = Append(contents, t)

(* ring_push of monitorA, under its mutex.                                 *)
PushEvent(t) ==
    /\ Register(t)
    /\ Push(t)
    /\ UNCHANGED <<ready, tickVars>>

(* _tick is called.                                                        *)
TickStart ==
    /\ tick = "out"
    /\ ~panic
    /\ ~IsEmpty(events)
    /\ tick' = "swap"
    /\ swap' = <<>> /\ status' = "again"
    /\ UNCHANGED <<taskVars, ringVars, ready, rfds, efds, panic>>

(* An iteration of the loop that empties the ring, and its end.            *)
TickSwap ==
    /\ tick = "swap"
    /\ IF Len(swap) >= MaxFileNo \/ IsEmpty(events)
         THEN tick' = "select" /\ UNCHANGED <<swap, ringVars>>
         ELSE /\ swap' = Append(swap, Oldest(events))
              /\ events' = Popped(events, NoTask)
              /\ contents' = Tail(contents)
              /\ UNCHANGED tick
    /\ UNCHANGED <<taskVars, ready, rfds, efds, status, panic>>

(* The descriptors select was given ...                                    *)
Given == { fd[swap[i]] : i \in 1..Len(swap) }

(* ... those it looks at ...                                               *)
Watched == Given \cap 0..MaxFileNo - 1

(* ... and maxfileno when its bit is in a word that select does not touch: *)
(* the bit stays set.                                                      *)
Untouched == { f \in Given : f = MaxFileNo /\ MaxFileNo % WordBits = 0 }

(* select returns which descriptors are ready, none after its timeout, and *)
(* which are in an exceptional condition.                                  *)
Select(exceptional) ==
    /\ tick = "select"
    /\ exceptional \subseteq Watched
    /\ rfds' = (Watched \cap ready) \cup Untouched
    /\ efds' = exceptional \cup Untouched
    /\ tick' = "scan"
    /\ UNCHANGED <<taskVars, ringVars, ready, swap, status, panic>>

(* select fails: every event is going to get IOERR.                        *)
SelectFailure ==
    /\ tick = "select"
    /\ SelectFails
    /\ rfds' = {}
    /\ efds' = Fds
    /\ status' = "panic"
    /\ tick' = "scan"
    /\ UNCHANGED <<taskVars, ringVars, ready, swap, panic>>

Reported(t) == fd[t] \in rfds \cup efds

(* The next event of swap is ready: its task is scheduled.                 *)
TickWake ==
    /\ tick = "scan" /\ swap # <<>>
    /\ LET t == Head(swap) IN
         /\ Reported(t)
         /\ error' = [error EXCEPT ![t] = fd[t] \in efds]
         /\ queue' = Enqueue(queue, t)
    /\ swap' = Tail(swap)
    /\ UNCHANGED <<running, pc, fd, ringVars, ready, tick, rfds, efds, status, panic>>

(* It is not: ring_push tests for a free slot.  Without one _tick returns  *)
(* PMSPANIC and the rest of swap is forgotten.                             *)
TickTest ==
    /\ tick = "scan" /\ swap # <<>>
    /\ ~Reported(Head(swap))
    /\ IF IsFull(events)
         THEN tick' = "out" /\ panic' = TRUE /\ swap' = <<>>
         ELSE tick' = "push" /\ UNCHANGED <<panic, swap>>
    /\ UNCHANGED <<taskVars, ringVars, ready, rfds, efds, status>>

(* Mutant of TickPush: the loop goes on without "continue".                *)
TickPushFallsThrough ==
    /\ tick = "push"
    /\ Push(Head(swap))
    /\ queue' = Enqueue(queue, Head(swap))
    /\ swap' = Tail(swap)
    /\ tick' = "scan"
    /\ UNCHANGED <<running, pc, fd, error, ready, rfds, efds, status, panic>>

(* ... and pushes the event back.                                          *)
TickPush ==
    /\ tick = "push"
    /\ Push(Head(swap))
    /\ swap' = Tail(swap)
    /\ tick' = "scan"
    /\ UNCHANGED <<taskVars, ready, rfds, efds, status, panic>>

(* _tick returns.                                                          *)
TickEnd ==
    /\ tick = "scan" /\ swap = <<>>
    /\ tick' = "out"
    /\ panic' = (status = "panic")
    /\ rfds' = {} /\ efds' = {}
    /\ UNCHANGED <<taskVars, ringVars, ready, swap, status>>

(* The master goes round its loop: _tick has nothing to wait for, or is    *)
(* not called any more.                                                    *)
TickIdle ==
    /\ tick = "out"
    /\ panic \/ IsEmpty(events)
    /\ UNCHANGED vars

(* A file descriptor becomes ready.                                        *)
Arrive(f) ==
    /\ ready' = ready \cup {f}
    /\ UNCHANGED <<taskVars, ringVars, tickVars>>

(* A running task reads from or writes to the descriptor it awaited until  *)
(* it is not ready any more.                                               *)
Drain(t) ==
    /\ At(t, "run")
    /\ ready' = ready \ {fd[t]}
    /\ UNCHANGED <<taskVars, ringVars, tickVars>>

WorkerStep ==
    \/ Turn /\ UNCHANGED <<ringVars, ready, tickVars>>
    \/ \E t \in Tasks : PushEvent(t) \/ \E f \in Fds : Monitor(t, f)

TickStep ==
    \/ TickStart \/ TickSwap \/ SelectFailure \/ TickWake \/ TickTest \/ TickPush \/ TickEnd
    \/ \E exceptional \in SUBSET Fds : Select(exceptional)

Next ==
    \/ WorkerStep \/ TickStep \/ TickIdle
    \/ \E t \in Tasks : Drain(t)
    \/ \E f \in Fds : Arrive(f)

Spec == Init /\ [][Next]_vars

(* The worker and the master thread run: a task that calls monitorA again  *)
(* and again although it is refused still yields in the end.  Nothing says *)
(* that a descriptor becomes ready.                                        *)
FairSpec ==
    /\ Spec
    /\ WF_vars(WorkerStep)
    /\ WF_vars(TickStep)
-----------------------------------------------------------------------------
(* The ring holds what was pushed and not popped, although two threads     *)
(* push and the full test is outside the mutex.  (test_ringT.c:61: a push  *)
(* to a full ring is refused.)                                             *)
RingHolds == TypeOK /\ Window(events) = contents

(* A task that sleeps in monitorA is never forgotten until the module is   *)
(* in panic: it is scheduled, or its event is in the ring or with _tick.   *)
(* It is at one of these places, once, so that it is woken once; and an    *)
(* event in the ring or with _tick is that of a call that has not returned.*)
NoneForgotten ==
    LET held == Window(events) \o swap IN
    /\ ~panic => \A t \in Tasks : pc[t] = "await" => t \in ToSet(queue \o held)
    /\ IsInjective(queue \o held)
    /\ \A t \in ToSet(held) : InCall(t)

(* modselect.c is an IO module: it implements await as modio.h promises it.*)
IoSpec == Io!Spec

(* A task is resumed when its descriptor is ready and stays so, unless the *)
(* module panics, or the descriptor is maxfileno, which monitorA accepts   *)
(* and select does not look at: its task waits in vain or, when maxfileno  *)
(* is a multiple of WordBits, is told IOERR at once.                       *)
WokenWhenReady ==
    \A t \in Tasks :
        (pc[t] = "await" /\ fd[t] \in ready /\ fd[t] # MaxFileNo)
            ~> (pc[t] # "await" \/ fd[t] \notin ready \/ panic)
=============================================================================
