------------------------------- MODULE ModIO --------------------------------
(***************************************************************************)
(* The calls of src/pcaio/modio.c and timer.c, made by tasks like those of *)
(* src/examples, over an IO module that keeps its contract (IoModule).  A  *)
(* call yields, tries its system call and, when that would block, awaits   *)
(* the descriptor and tries again, while other tasks may take what it was  *)
(* woken for.  Each task has a descriptor of its own for the shared pipe   *)
(* or listening socket.  A system call and the test of errno after it are  *)
(* two steps: between them another worker can write the errno it tests.    *)
(***************************************************************************)
EXTENDS Integers, Sequences, SequencesExt, FiniteSets

CONSTANTS
    Tasks, Workers, NoTask,
    Programs,       \* what the tasks may do: a set of [Tasks -> roles]
    Count,          \* the chunks of a producer, the connections of an acceptor
    Capacity,       \* the chunks a pipe can hold
    Delays,         \* the sleeps of a sleeper, in milliseconds
    ModuleFails,    \* TRUE: an await may fail alone, and the module may panic
    CachedErrno     \* TRUE: the compiler keeps errno's address over a call

Roles == {"producer", "consumer", "acceptor", "client", "sleeper"}

ASSUME IoAssumption ==
    /\ Workers # {} /\ IsFiniteSet(Tasks) /\ NoTask \notin Tasks
    /\ Programs # {} /\ Programs \subseteq [Tasks -> Roles]
    /\ Count \in Nat /\ Capacity \in Nat \ {0}
    /\ Delays \in Seq(Nat)
    /\ ModuleFails \in BOOLEAN /\ CachedErrno \in BOOLEAN

VARIABLES
    role,               \* what each task does
    module,             \* "ok", "failing" in the tick that panics, "panicked"
    queue, running,     \* state.taskq; the task of each worker
    pc,                 \* "code" outside a call; in a call "try", "test", "await"
    op,                 \* the call a task is in, or made last
    call,               \* the await of each task, as in IoModule
    result,             \* what a task's last call returned
    done,               \* the calls a task has made with success: writes,
                        \* connections accepted, sleeps
    again, home,        \* again[w]: errno of w asks for a retry; home[t]:
                        \* the worker whose errno t tested last
    pipe, received,     \* the chunks in the pipe, and those read from it
    readers, writers,   \* the tasks whose end of the pipe is open
    pending, backlog,   \* clients: being connected; waiting to be accepted
    accepted,           \* connections accepted, in order: by whom, its how
                        \* manieth, and whose
    timer, slept,       \* timerfd: time to expiry, 0 when readable; time
                        \* since the start of the call of sleepA_ms
    failed,             \* the tasks an await of which returned -1
    killed              \* SIGPIPE has ended the process

schedVars  == <<queue, running>>
taskVars   == <<pc, op, result, done>>
errnoVars  == <<again, home>>
pipeVars   == <<pipe, received, readers, writers, killed>>
netVars    == <<pending, backlog, accepted>>
timeVars   == <<timer, slept>>
kernelVars == <<pipeVars, netVars, timeVars>>
vars == <<role, module, schedVars, taskVars, call, failed, errnoVars, kernelVars>>

Io == INSTANCE IoModule

Ops == {"relax", "random", "write", "read", "accept", "lookup", "connect", "sleep"}

WithRole(r) == { t \in Tasks : role[t] = r }

TypeOK ==
    /\ role \in Programs /\ module \in {"ok", "failing", "panicked"}
    /\ queue \in Seq(Tasks) /\ running \in [Workers -> Tasks \cup {NoTask}]
    /\ pc \in [Tasks -> {"code", "try", "test", "await", "done"}]
    /\ op \in [Tasks -> Ops \cup {"start"}]
    /\ call \in [Tasks -> {"none", "waiting", "ready", "failed"}]
    /\ result \in [Tasks -> {"ok", "eof", "error"}]
    /\ done \in [Tasks -> Nat]
    /\ \A t \in Tasks : done[t] <= (IF role[t] = "sleeper" THEN Len(Delays) ELSE Count)
    /\ again \in [Workers -> BOOLEAN] /\ home \in [Tasks -> Workers]
    /\ pipe \in Seq(Tasks \X (1..Count)) /\ Len(pipe) <= Capacity
    /\ received \in Seq(Tasks \X (1..Count))
    /\ readers \subseteq Tasks /\ writers \subseteq Tasks
    /\ pending \subseteq Tasks /\ backlog \subseteq Tasks /\ accepted \in Seq(Tasks \X (1..Count) \X Tasks)
    /\ timer \in [Tasks -> Int] /\ slept \in [Tasks -> Nat]
    /\ failed \subseteq Tasks /\ killed \in BOOLEAN

Init ==
    /\ role \in Programs /\ module = "ok"
    /\ queue \in SetToSeqs(Tasks) /\ running = [w \in Workers |-> NoTask]
    /\ pc = [t \in Tasks |-> "code"] /\ op = [t \in Tasks |-> "start"]
    /\ Io!Init
    /\ result = [t \in Tasks |-> "ok"] /\ done = [t \in Tasks |-> 0]
    /\ again = [w \in Workers |-> FALSE]
    /\ home = [t \in Tasks |-> CHOOSE w \in Workers : TRUE]
    /\ pipe = <<>> /\ received = <<>>
    /\ readers = WithRole("consumer") /\ writers = WithRole("producer")
    /\ pending = {} /\ backlog = {} /\ accepted = <<>>
    /\ timer = [t \in Tasks |-> -1] /\ slept = [t \in Tasks |-> 0]
    /\ failed = {} /\ killed = FALSE
-----------------------------------------------------------------------------
At(w, t, place) == running[w] = t /\ pc[t] = place

Goes(t, place) == pc' = [pc EXCEPT ![t] = place]

(* The call of t returns.                                                  *)
Answers(t, r) == Goes(t, "code") /\ result' = [result EXCEPT ![t] = r]

(* ... with a success that t counts.                                       *)
Succeeds(t) == Answers(t, "ok") /\ done' = [done EXCEPT ![t] = @ + 1]

Leaves(w) == running' = [running EXCEPT ![w] = NoTask]

(* The workers whose errno is cleared when t goes on: its own, at the end  *)
(* of relaxA, and after an await that succeeded the one "errno = 0" finds, *)
(* which may be that of the worker t was on when it tested errno.          *)
Cleared(w, t) ==
    {w} \cup (IF CachedErrno /\ call[t] = "ready" /\ op[t] # "sleep" THEN {home[t]} ELSE {})

(* Mutant of Awaited: what await returned is what the call returns.        *)
AwaitedOnce(t) == Succeeds(t)

(* The await of t has returned 0: it tries again, and sleepA_ms returns 0. *)
Awaited(t) ==
    IF op[t] = "sleep" THEN Succeeds(t)
    ELSE Goes(t, "try") /\ UNCHANGED <<result, done>>

(* A worker takes a task; one that awaits goes on.                         *)
Resume(w) ==
    /\ running[w] = NoTask /\ queue # <<>>
    /\ LET t == Head(queue) IN
         /\ running' = [running EXCEPT ![w] = t]
         /\ again' = IF pc[t] = "code" THEN again
                     ELSE [x \in Workers |-> again[x] /\ x \notin Cleared(w, t)]
         /\ \/ pc[t] # "await" /\ UNCHANGED <<pc, result, done, call, failed>>
            \/ pc[t] = "await" /\ call[t] = "ready" /\ Io!Return(t) /\ Awaited(t) /\ UNCHANGED failed
            \/ /\ pc[t] = "await" /\ call[t] = "failed" /\ Io!Return(t) /\ Answers(t, "error")
               /\ failed' = failed \cup {t}
               /\ UNCHANGED done
    /\ queue' = Tail(queue)
    /\ UNCHANGED <<role, module, op, home, kernelVars>>

(* Mutant of Unfinished: one chunk or connection more.                     *)
UnfinishedYet(t) == done[t] <= Count

(* A producer or an acceptor goes on.                                      *)
Unfinished(t) == done[t] < Count

(* The call that a task makes next; it ends when there is none.            *)
MayCall(t, o) ==
    /\ result[t] = "ok"
    /\ \/ role[t] = "producer" /\ op[t] # "random" /\ Unfinished(t) /\ o = "random"
       \/ role[t] = "producer" /\ op[t] = "random" /\ o = "write"
       \/ role[t] = "consumer" /\ o = "read"
       \/ role[t] = "acceptor" /\ Unfinished(t) /\ o = "accept"
       \/ role[t] = "client" /\ op[t] = "start" /\ o = "lookup"
       \/ role[t] = "client" /\ op[t] = "lookup" /\ o = "connect"
       \/ role[t] = "sleeper" /\ op[t] = "start" /\ o = "relax"
       \/ role[t] = "sleeper" /\ op[t] # "start" /\ done[t] < Len(Delays) /\ o = "sleep"

(* A call that begins with pcaio_relaxA(0): all but two.                   *)
Call(w, t) ==
    /\ At(w, t, "code")
    /\ \E o \in Ops \ {"lookup", "sleep"} : MayCall(t, o) /\ op' = [op EXCEPT ![t] = o]
    /\ Goes(t, "try") /\ Leaves(w) /\ queue' = Append(queue, t)
    /\ UNCHANGED <<role, module, result, done, call, failed, errnoVars, kernelVars>>

Trying(w, t, o) == At(w, t, "try") /\ op[t] = o

(* The system call of t does not block: the descriptor is ready.           *)
Ready(t) ==
    /\ op[t] = "write"  => Len(pipe) < Capacity \/ readers = {}
    /\ op[t] = "read"   => pipe # <<>> \/ writers = {}
    /\ op[t] = "accept" => backlog # {}
    /\ op[t] = "sleep"  => timer[t] = 0

(* It would: -1, and errno is EAGAIN.                                      *)
Block(w, t) ==
    /\ At(w, t, "try") /\ ~Ready(t)
    /\ again' = [again EXCEPT ![w] = TRUE]
    /\ home' = [home EXCEPT ![t] = w]
    /\ Goes(t, "test")
    /\ UNCHANGED <<role, module, schedVars, op, result, done, call, failed, kernelVars>>

(* The await of the module: it suspends the task, or registers nothing and *)
(* returns -1 at once (epoll_ctl failed, the ring is full), and so does    *)
(* the call.                                                               *)
Suspend(w, t) ==
    \/ Io!Await(t) /\ Goes(t, "await") /\ Leaves(w) /\ UNCHANGED <<result, failed>>
    \/ /\ ModuleFails
       /\ Answers(t, "error") /\ failed' = failed \cup {t} /\ UNCHANGED <<running, call>>

(* Mutant of Retry: EAGAIN is not among the values.                        *)
RetryNot(w) == FALSE

(* RETRY(errno)                                                            *)
Retry(w) == again[w]

Test(w, t) ==
    /\ At(w, t, "test")
    /\ IF Retry(w) THEN Suspend(w, t) ELSE Answers(t, "error") /\ UNCHANGED <<running, call, failed>>
    /\ UNCHANGED <<role, module, queue, op, done, errnoVars, kernelVars>>

(* /dev/urandom always has a chunk; and a mere pcaio_relaxA(0) is over.    *)
Random(w, t) ==
    /\ \E o \in {"random", "relax"} : Trying(w, t, o)
    /\ Answers(t, "ok")
    /\ UNCHANGED <<role, module, schedVars, op, done, call, failed, errnoVars, kernelVars>>

(* A chunk goes into the pipe; without a reader SIGPIPE ends the process.  *)
Write(w, t) ==
    /\ Trying(w, t, "write") /\ Ready(t)
    /\ IF readers = {} THEN killed' = TRUE /\ UNCHANGED <<pipe, pc, result, done>>
         ELSE /\ pipe' = Append(pipe, <<t, done[t] + 1>>)
              /\ Succeeds(t) /\ UNCHANGED killed
    /\ UNCHANGED <<role, module, schedVars, op, call, failed, errnoVars, received, readers, writers,
                   netVars, timeVars>>

(* A chunk, or the end of the file.                                        *)
Read(w, t) ==
    /\ Trying(w, t, "read") /\ Ready(t)
    /\ IF pipe = <<>> THEN Answers(t, "eof") /\ UNCHANGED <<pipe, received>>
         ELSE /\ pipe' = Tail(pipe)
              /\ received' = Append(received, Head(pipe))
              /\ Answers(t, "ok")
    /\ UNCHANGED <<role, module, schedVars, op, done, call, failed, errnoVars, readers, writers, killed,
                   netVars, timeVars>>

Accept(w, t) ==
    /\ Trying(w, t, "accept")
    /\ \E c \in backlog :
         /\ backlog' = backlog \ {c}
         /\ accepted' = Append(accepted, <<t, done[t] + 1, c>>)
    /\ Succeeds(t)
    /\ UNCHANGED <<role, module, schedVars, op, call, failed, errnoVars, pending, pipeVars, timeVars>>

(* connect makes the connection, or begins to: -1, and errno is            *)
(* EINPROGRESS.  connectA tests fd where it means ret, so it never awaits. *)
Connect(w, t) ==
    /\ Trying(w, t, "connect")
    /\ \/ backlog' = backlog \cup {t} /\ Answers(t, "ok") /\ UNCHANGED pending
       \/ pending' = pending \cup {t} /\ Answers(t, "error") /\ UNCHANGED backlog
    /\ UNCHANGED <<role, module, schedVars, op, done, call, failed, errnoVars, accepted, pipeVars, timeVars>>

(* getaddrinfoA begins without a yield ...                                 *)
LookupCall(w, t) ==
    /\ At(w, t, "code") /\ MayCall(t, "lookup")
    /\ op' = [op EXCEPT ![t] = "lookup"] /\ Goes(t, "try")
    /\ UNCHANGED <<role, module, schedVars, result, done, call, failed, errnoVars, kernelVars>>

(* ... finds the address, fails, or is told to try again and yields.       *)
Lookup(w, t) ==
    /\ Trying(w, t, "lookup")
    /\ \/ \E r \in {"ok", "error"} : Answers(t, r) /\ UNCHANGED schedVars
       \/ Leaves(w) /\ queue' = Append(queue, t) /\ UNCHANGED <<pc, result>>
    /\ UNCHANGED <<role, module, op, done, call, failed, errnoVars, kernelVars>>

(* Mutant of Armed: a timer that was set before is not set again.          *)
ArmedOnce(t, ms) == [timer EXCEPT ![t] = IF @ = -1 THEN ms ELSE @]

(* timerfd_settime: the timer is not readable until it expires.            *)
Armed(t, ms) == [timer EXCEPT ![t] = ms]

(* sleepA_ms up to its await.                                              *)
Sleep(w, t) ==
    /\ At(w, t, "code") /\ MayCall(t, "sleep")
    /\ op' = [op EXCEPT ![t] = "sleep"]
    /\ slept' = [slept EXCEPT ![t] = 0]
    /\ LET ms == Delays[done[t] + 1] IN
         IF ms = 0
           THEN Answers(t, "error") /\ UNCHANGED <<running, call, failed, timer>>
           ELSE timer' = Armed(t, ms) /\ Suspend(w, t)
    /\ UNCHANGED <<role, module, queue, done, errnoVars, pipeVars, netVars>>

(* Mutant of Close: the task ends without it.                              *)
CloseNot(t) == UNCHANGED <<readers, writers>>

(* close(fd): the end of the pipe that t has.                              *)
Close(t) == readers' = readers \ {t} /\ writers' = writers \ {t}

(* The task closes what it has open and ends.                              *)
Finish(w, t) ==
    /\ At(w, t, "code") /\ \A o \in Ops : ~MayCall(t, o)
    /\ Goes(t, "done") /\ Leaves(w)
    /\ Close(t)
    /\ UNCHANGED <<role, module, queue, op, result, done, call, failed, errnoVars, pipe, received, killed,
                   netVars, timeVars>>
-----------------------------------------------------------------------------
(* The module wakes a task when its descriptor is ready.                   *)
Wake(t) ==
    /\ module = "ok" /\ Ready(t) /\ Io!Wake(t)
    /\ queue' = Append(queue, t)
    /\ UNCHANGED <<role, module, running, taskVars, failed, errnoVars, kernelVars>>

(* epoll says EPOLLERR, which is IOERR, of a pipe that nobody reads;       *)
(* select says that it can be written to.                                  *)
Broken(t) == op[t] = "write" /\ readers = {}

(* The await of t fails: its descriptor is in error, or the tick that      *)
(* panics hands out IOERR.                                                 *)
Fail(t) ==
    /\ module = "failing" \/ (module = "ok" /\ Broken(t))
    /\ Io!Fail(t)
    /\ queue' = Append(queue, t)
    /\ UNCHANGED <<role, module, running, taskVars, failed, errnoVars, kernelVars>>

(* epoll_wait, select or a list or ring of the module fails in a tick ...  *)
TickFails ==
    /\ ModuleFails /\ module = "ok" /\ \E t \in Tasks : call[t] = "waiting"
    /\ module' = "failing"
    /\ UNCHANGED <<role, schedVars, taskVars, call, failed, errnoVars, kernelVars>>

(* ... which ends as a panic: the master never ticks the module again.     *)
(* The tasks that were registering meanwhile, and those that await later,  *)
(* are suspended for ever.                                                 *)
Panic ==
    /\ module = "failing" /\ module' = "panicked"
    /\ UNCHANGED <<role, schedVars, taskVars, call, failed, errnoVars, kernelVars>>

(* A connection that was in progress is made.                              *)
Establish(c) ==
    /\ c \in pending
    /\ pending' = pending \ {c} /\ backlog' = backlog \cup {c}
    /\ UNCHANGED <<role, module, schedVars, taskVars, call, failed, errnoVars, accepted, pipeVars, timeVars>>

(* A millisecond passes while some timer runs.                             *)
Pass ==
    /\ \E t \in Tasks : timer[t] > 0
    /\ timer' = [t \in Tasks |-> IF timer[t] > 0 THEN timer[t] - 1 ELSE timer[t]]
    /\ slept' = [t \in Tasks |-> IF call[t] = "waiting" /\ op[t] = "sleep" THEN slept[t] + 1 ELSE slept[t]]
    /\ UNCHANGED <<role, module, schedVars, taskVars, call, failed, errnoVars, pipeVars, netVars>>

WorkerStep(w) ==
    \/ Resume(w)
    \/ \E t \in Tasks :
         \/ Call(w, t) \/ Block(w, t) \/ Test(w, t) \/ Random(w, t) \/ Write(w, t) \/ Read(w, t)
         \/ Accept(w, t) \/ Connect(w, t) \/ LookupCall(w, t) \/ Lookup(w, t) \/ Sleep(w, t)
         \/ Finish(w, t)

(* All tasks have ended, or the process has, or the master loops on with   *)
(* no module to tick.                                                      *)
Over ==
    /\ killed \/ module = "panicked" \/ \A t \in Tasks : pc[t] = "done"
    /\ UNCHANGED vars

Next ==
    \/ /\ ~killed
       /\ \/ \E w \in Workers : WorkerStep(w)
          \/ \E t \in Tasks : Wake(t) \/ Fail(t) \/ Establish(t)
          \/ TickFails \/ Panic \/ Pass
    \/ Over

Spec == Init /\ [][Next]_vars

(* The workers run, the module wakes whom it can until it panics           *)
(* (WokenUnlessPanic of ModEpoll), and time passes.                        *)
FairSpec ==
    /\ Spec
    /\ \A w \in Workers : WF_vars(~killed /\ WorkerStep(w))
    /\ \A t \in Tasks : WF_vars(~killed /\ Wake(t))
    /\ WF_vars(~killed /\ Pass)
-----------------------------------------------------------------------------
(* No call returns -1 but for a failed await: a task that loses the race   *)
(* for what it was woken for waits again.  connectA and getaddrinfoA,      *)
(* whose failures are not about an await, and a sleep of 0 are excepted.   *)
(* (README.md:38-39: a read whose errno is EAGAIN waits and is retried.)   *)
NoFalseError ==
    \A t \in Tasks \ WithRole("client") :
        result[t] = "error" =>
            t \in failed \/ (op[t] = "sleep" /\ Delays[done[t] + 1] = 0)

(* The members of s are, for each task with role r, its first, its second  *)
(* ... and its last success, each of them once and in this order.          *)
EachOnce(s, r) ==
    /\ { <<m[1], m[2]>> : m \in ToSet(s) }
         = { m \in Tasks \X (1..Count) : role[m[1]] = r /\ m[2] <= done[m[1]] }
    /\ \A i, j \in 1..Len(s) : i < j /\ s[i][1] = s[j][1] => s[i][2] < s[j][2]

(* What a producer was told is written is in the pipe or was read, once    *)
(* and in its order; and each connection is accepted by one task, once,    *)
(* which counts it.                                                        *)
Delivered ==
    /\ EachOnce(received \o pipe, "producer")
    /\ EachOnce(accepted, "acceptor")
    /\ \A i, j \in 1..Len(accepted) : accepted[i][3] = accepted[j][3] => i = j

(* A consumer that ends with 0 leaves nothing in the pipe, now or later;   *)
(* unless an await failed the producers have then written everything, and  *)
(* none is left without a reader (SIGPIPE, which nobody handles).          *)
EndOfFile ==
    /\ \A t \in WithRole("consumer") :
         result[t] = "eof" =>
           /\ pipe = <<>>
           /\ \A p \in WithRole("producer") : pc[p] = "done" /\ (failed = {} => done[p] = Count)
    /\ killed => failed # {}

(* A sleep that returns 0 has lasted as long as it was asked to, although  *)
(* the timer is used again and again and stays readable after it expired.  *)
SleptEnough ==
    [][\A t \in Tasks : op[t] = "sleep" /\ done'[t] > done[t] => slept[t] >= Delays[done'[t]]]_vars

(* Everybody ends unless the module panics: the pipe is drained and        *)
(* closed, every sleeper wakes.  And a connection that was made is         *)
(* accepted, unless every acceptor has accepted all that it wanted or an   *)
(* await of it failed.  After a panic no await returns, and a task that    *)
(* makes one later, a sleeper its second, never ends.                      *)
Ends ==
    <>[](\/ killed \/ module # "ok"
         \/ /\ \A t \in Tasks : role[t] \in {"producer", "consumer", "sleeper"} => pc[t] = "done"
            /\ backlog = {} \/ \A t \in WithRole("acceptor") : t \in failed \/ done[t] = Count)
=============================================================================
