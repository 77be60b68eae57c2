-------------------------- MODULE ModEpollProofs ---------------------------
(***************************************************************************)
(* Proofs about ModEpoll, for any number of tasks and file descriptors,    *)
(* whichever of them are shared: no event of a returned call is used, no   *)
(* waiting task is forgotten or woken for nothing, and the module keeps    *)
(* the contract of await.                                                  *)
(***************************************************************************)
EXTENDS ModEpoll, QueueLemmas

(* epoll may report the descriptor of t for t.                             *)
Watched(t) == fd[t] \in armed /\ interest[fd[t]] = t

(* Where tasks and their events are: a registered task is in the list or   *)
(* scheduled, and never both.                                              *)
Places ==
    /\ fd \in [Tasks -> Fds \cup {NoTask}]
    /\ IsInjective(queue) /\ IsInjective(list) /\ IsInjective(batch)
    /\ \A t \in Tasks :
         /\ t \in ToSet(queue) =>
              pc[t] \in {"run", "hold", "await"} /\ t \notin ToSet(list) /\ t \notin ToSet(batch)
         /\ t \in ToSet(list) => pc[t] \in {"hold", "await"}
         /\ pc[t] \in {"hold", "await"} => t \in ToSet(queue) \/ t \in ToSet(list)
         /\ t \in ToSet(batch) => InCall(t)
         /\ t = running => pc[t] \in {"run", "enter", "hold"} /\ (t \in ToSet(queue) => pc[t] = "hold")
         /\ pc[t] \in {"enter", "hold"} => running = t

(* _tick leaves through its last line with nothing in its array.           *)
Ticks ==
    /\ panic => tick = "out"
    /\ tick = "batch" <=> batch # <<>>

(* What epoll knows: until epoll_wait fails, an armed descriptor belongs   *)
(* to a call that waits, and a call that waits and is the last of its      *)
(* descriptor is known; what is in the array of _tick is disarmed.         *)
Watch ==
    /\ \A f \in armed : interest[f] \in Tasks
    /\ \A t \in Tasks : t \in ToSet(batch) => ~Watched(t)
    /\ (~panic /\ tick # "error") =>
         /\ \A f \in armed : InCall(interest[f]) /\ fd[interest[f]] = f
         /\ \A t \in Tasks : t \in ToSet(queue) /\ InCall(t) => ~Watched(t)
         /\ \A t \in Tasks :
              InCall(t) /\ t \notin ToSet(queue) /\ t \notin ToSet(batch) /\ ~Superseded(t) =>
                fd[t] \in armed

IInv == TypeOK /\ Places /\ Ticks /\ Watch /\ NoFalseReady

PcS == {"run", "enter", "hold", "await", "done"}
-----------------------------------------------------------------------------
(* Before the first step all tasks are scheduled and the module is empty.  *)
LEMMA InitIInv == ASSUME IoTasksAssumption, Init PROVE IInv
<1>1. queue \in Seq(Tasks) /\ ToSet(queue) = Tasks /\ IsInjective(queue)
  BY ArrayOfAll DEF IoTasksAssumption, Init, TasksInit
<1>2. /\ list \in Seq(Tasks) /\ batch \in Seq(Tasks) /\ IsInjective(list) /\ IsInjective(batch)
      /\ ToSet(list) = {} /\ ToSet(batch) = {}
  BY DEF Init, ToSet, IsInjective
<1>3. \A t \in Tasks : pc[t] = "run" /\ ~InCall(t) /\ fd[t] = NoTask
  BY DEF Init, TasksInit, InCall
<1>4. limit \in 0..Cardinality(Tasks)
  BY FS_CardinalityType DEF IoTasksAssumption, Init
<1>5. TypeOK
  BY <1>1, <1>2, <1>3, <1>4 DEF Init, TasksInit, TypeOK, TasksOK
<1>6. Places /\ Ticks /\ Watch /\ NoFalseReady
  BY <1>1, <1>2, <1>3 DEF Init, TasksInit, Places, Ticks, Watch, NoFalseReady, IoTasksAssumption
<1> QED  BY <1>5, <1>6 DEF IInv

(* What the invariant says of the running task.                            *)
LEMMA AtFacts ==
    ASSUME IoTasksAssumption, IInv, NEW t \in Tasks, running = t
    PROVE  /\ pc[t] \in {"run", "enter", "hold"}
           /\ \A u \in Tasks \ {t} : pc[u] \in {"run", "await", "done"}
           /\ pc[t] # "hold" => t \notin ToSet(queue) /\ t \notin ToSet(list)
           /\ pc[t] = "run" => t \notin ToSet(batch)
BY DEF IInv, Places, TypeOK, TasksOK, InCall, PcS

(* The queues hold tasks.                                                  *)
LEMMA InTasks ==
    TypeOK => ToSet(queue) \subseteq Tasks /\ ToSet(list) \subseteq Tasks /\ ToSet(batch) \subseteq Tasks
BY DEF TypeOK, TasksOK, ToSet

(* A worker pops a task; a call in it returns, and nobody has its event.   *)
LEMMA ResumeIInv ==
    ASSUME IoTasksAssumption, IInv, Resume, UNCHANGED <<list, kernelVars, tickVars>>
    PROVE  IInv'
<1>0. Head(queue) \in Tasks
  BY FirstGone DEF Resume, IInv, TypeOK, TasksOK, Places
<1> PICK t \in Tasks : t = Head(queue)
  BY <1>0
<1>1. /\ queue' = Tail(queue) /\ running' = t /\ pc' = [pc EXCEPT ![t] = "run"]
      /\ UNCHANGED <<fd, error, list, interest, armed, tick, limit, batch, panic>>
      /\ running = NoTask
  BY DEF Resume, kernelVars, tickVars
<1>2. /\ queue' \in Seq(Tasks) /\ IsInjective(queue') /\ t \in ToSet(queue)
      /\ ToSet(queue') = ToSet(queue) \ {t}
  BY <1>1, FirstGone DEF Resume, IInv, TypeOK, TasksOK, Places
<1>3. pc' \in [Tasks -> PcS] /\ pc'[t] = "run" /\ \A u \in Tasks \ {t} : pc'[u] = pc[u]
  BY <1>1, <1>2 DEF IInv, TypeOK, TasksOK, PcS
<1>4. /\ ~InCall(t)' /\ \A u \in Tasks \ {t} : InCall(u)' <=> InCall(u)
      /\ \A u \in Tasks : (Watched(u)' <=> Watched(u)) /\ (Superseded(u)' <=> Superseded(u))
  <2>1. ~InCall(t)' /\ \A u \in Tasks \ {t} : InCall(u)' <=> InCall(u)
    BY <1>3 DEF InCall
  <2>2. \A u \in Tasks : (Watched(u)' <=> Watched(u)) /\ (Superseded(u)' <=> Superseded(u))
    BY <1>1 DEF Watched, Superseded
  <2> QED  BY <2>1, <2>2
<1>5. TypeOK'
  BY <1>1, <1>2, <1>3, <1>4 DEF IInv, TypeOK, TasksOK, PcS
<1>6. Places'
  BY <1>1, <1>2, <1>3, <1>4 DEF IInv, Places, IoTasksAssumption
<1>7. Ticks'
  BY <1>1 DEF IInv, Ticks
<1>8. Watch'
  <2>1. ASSUME ~panic, tick # "error", NEW f \in armed
        PROVE  InCall(interest[f])' /\ fd[interest[f]] = f
    <3>1. interest[f] \in Tasks /\ InCall(interest[f]) /\ fd[interest[f]] = f
      BY <2>1 DEF IInv, Watch
    <3>2. interest[f] # t
      BY <1>2, <2>1, <3>1 DEF IInv, Watch, Watched
    <3> QED  BY <1>1, <1>4, <3>1, <3>2 DEF InCall
  <2>2. ASSUME ~panic, tick # "error", NEW u \in Tasks
        PROVE  /\ u \in ToSet(queue)' /\ InCall(u)' => ~Watched(u)'
               /\ InCall(u)' /\ u \notin ToSet(queue)' /\ u \notin ToSet(batch) /\ ~Superseded(u)'
                    => fd[u] \in armed
    BY <1>2, <1>4, <2>2 DEF IInv, Watch
  <2> QED  BY <1>1, <1>4, <2>1, <2>2 DEF IInv, Watch
<1>9. NoFalseReady'
  <2> SUFFICES ASSUME NEW u \in ToSet(queue'), InCall(u)', ~error[u]
               PROVE  fd[u] \notin armed \/ Superseded(u)'
    BY <1>1 DEF NoFalseReady
  <2>1. u \in ToSet(queue) /\ u \in Tasks \ {t}
    BY <1>2, InTasks DEF IInv
  <2> QED  BY <1>4, <2>1 DEF IInv, NoFalseReady, Superseded
<1> QED  BY <1>5, <1>6, <1>7, <1>8, <1>9 DEF IInv

(* The running task goes on without the module.                            *)
LEMMA TurnIInv ==
    ASSUME IoTasksAssumption, IInv, NEW t \in Tasks, Relax(t) \/ Finish(t) \/ Hold(t),
           UNCHANGED <<list, kernelVars, tickVars>>
    PROVE  IInv'
<1>1. /\ running = t /\ running' = NoTask
      /\ UNCHANGED <<fd, error, list, interest, armed, tick, limit, batch, panic>>
      /\ pc[t] \in {"run", "hold"}
      /\ pc[t] = "run" => t \notin ToSet(queue) /\ t \notin ToSet(batch) /\ t \notin ToSet(list)
  BY AtFacts DEF Relax, Finish, Hold, At, kernelVars, tickVars
<1>2. /\ queue \in Seq(Tasks) /\ pc \in [Tasks -> PcS] /\ IsInjective(queue)
  BY DEF IInv, TypeOK, TasksOK, PcS, Places
<1>3. CASE Relax(t)
  <2>1. queue' \in Seq(Tasks) /\ IsInjective(queue') /\ ToSet(queue') = ToSet(queue) \cup {t}
        /\ pc' = pc /\ pc[t] = "run"
    BY <1>1, <1>2, <1>3, Appended DEF Relax, Enqueue, At
  <2>2. \A u \in Tasks : (InCall(u)' <=> InCall(u)) /\ (Watched(u)' <=> Watched(u))
                         /\ (Superseded(u)' <=> Superseded(u))
    BY <1>1, <2>1 DEF InCall, Watched, Superseded
  <2>3. TypeOK'
    BY <1>1, <2>1, <2>2 DEF IInv, TypeOK, TasksOK
  <2>4. Places'
    BY <1>1, <2>1, <2>2 DEF IInv, Places, IoTasksAssumption
  <2>5. Ticks'
    BY <1>1 DEF IInv, Ticks
  <2>6. ~InCall(t)
    BY <2>1 DEF InCall
  <2>7. Watch'
    <3>1. ASSUME NEW f \in armed PROVE InCall(interest[f])' <=> InCall(interest[f])
      BY <1>1, <2>1 DEF InCall
    <3> QED  BY <1>1, <2>1, <2>2, <2>6, <3>1 DEF IInv, Watch
  <2>8. NoFalseReady'
    <3>1. \A u \in ToSet(queue) : (InCall(u)' <=> InCall(u)) /\ (Superseded(u)' <=> Superseded(u))
      BY <2>2, InTasks DEF IInv
    <3>2. \A u \in ToSet(queue') : u \in ToSet(queue) \/ ~InCall(u)'
      BY <2>1, <2>2, <2>6
    <3> QED  BY <1>1, <3>1, <3>2 DEF IInv, NoFalseReady
  <2> QED  BY <2>3, <2>4, <2>5, <2>7, <2>8 DEF IInv
<1>4. CASE Finish(t) \/ Hold(t)
  <2>1. /\ queue' = queue /\ pc' \in [Tasks -> PcS] /\ \A u \in Tasks \ {t} : pc'[u] = pc[u]
        /\ pc[t] = "run" => pc'[t] = "done"
        /\ pc[t] = "hold" => pc'[t] = "await"
    BY <1>1, <1>2, <1>4 DEF Finish, Hold, At, PcS
  <2>2. \A u \in Tasks : (InCall(u)' <=> InCall(u)) /\ (Watched(u)' <=> Watched(u))
                         /\ (Superseded(u)' <=> Superseded(u))
    BY <1>1, <2>1 DEF InCall, Watched, Superseded
  <2>3. TypeOK'
    BY <1>1, <2>1, <2>2 DEF IInv, TypeOK, TasksOK, PcS
  <2>4. Places'
    BY <1>1, <2>1, <2>2 DEF IInv, Places, IoTasksAssumption
  <2>5. Ticks'
    BY <1>1 DEF IInv, Ticks
  <2>6. Watch'
    BY <1>1, <2>1, <2>2 DEF IInv, Watch
  <2>7. NoFalseReady'
    BY <1>1, <1>2, <2>1, <2>2 DEF IInv, NoFalseReady, ToSet
  <2> QED  BY <2>3, <2>4, <2>5, <2>6, <2>7 DEF IInv
<1> QED  BY <1>3, <1>4

(* monitorA gives epoll the event: the descriptor is armed, and an event   *)
(* that another task gave it is superseded.                                *)
LEMMA CtlIInv ==
    ASSUME IoTasksAssumption, IInv, NEW t \in Tasks, NEW f \in Fds, Ctl(t, f)
    PROVE  IInv'
<1>1. /\ running = t /\ pc[t] = "run" /\ pc' = [pc EXCEPT ![t] = "enter"]
      /\ fd' = [fd EXCEPT ![t] = f] /\ error' = [error EXCEPT ![t] = FALSE]
      /\ interest' = [interest EXCEPT ![f] = t] /\ armed' = armed \cup {f}
      /\ UNCHANGED <<queue, running, list, tick, limit, batch, panic>>
  BY DEF Ctl, Enter, At, tickVars
<1>2. t \notin ToSet(queue) /\ t \notin ToSet(batch) /\ t \notin ToSet(list) /\ ~InCall(t)
  BY <1>1, AtFacts DEF InCall
<1>3. /\ pc \in [Tasks -> PcS] /\ fd \in [Tasks -> Fds \cup {NoTask}]
      /\ interest \in [Fds -> Tasks \cup {NoTask}] /\ error \in [Tasks -> BOOLEAN]
      /\ armed \in SUBSET Fds
      /\ ToSet(queue) \subseteq Tasks /\ ToSet(batch) \subseteq Tasks
  BY InTasks DEF IInv, TypeOK, TasksOK, Places, PcS
<1>4. /\ pc' \in [Tasks -> PcS] /\ fd' \in [Tasks -> Fds \cup {NoTask}]
      /\ pc'[t] = "enter" /\ fd'[t] = f /\ error'[t] = FALSE /\ interest'[f] = t
      /\ \A u \in Tasks \ {t} : pc'[u] = pc[u] /\ fd'[u] = fd[u] /\ error'[u] = error[u]
      /\ \A g \in Fds \ {f} : interest'[g] = interest[g]
  BY <1>1, <1>3 DEF PcS
<1>5. InCall(t)' /\ \A u \in Tasks \ {t} : InCall(u)' <=> InCall(u)
  BY <1>4 DEF InCall
<1>6. TypeOK'
  BY <1>1, <1>3, <1>4, <1>5 DEF IInv, TypeOK, TasksOK, PcS
<1>7. Places'
  BY <1>1, <1>2, <1>4, <1>5 DEF IInv, Places
<1>8. Ticks'
  BY <1>1 DEF IInv, Ticks
<1>9. \A u \in Tasks \ {t} : InCall(u) =>
        /\ fd[u] \in Fds
        /\ fd[u] = f => Superseded(u)' /\ ~Watched(u)'
        /\ fd[u] # f => (Superseded(u)' <=> Superseded(u)) /\ (Watched(u)' <=> Watched(u))
  <2> SUFFICES ASSUME NEW u \in Tasks \ {t}, InCall(u)
               PROVE  /\ fd[u] \in Fds
                      /\ fd[u] = f => Superseded(u)' /\ ~Watched(u)'
                      /\ fd[u] # f => (Superseded(u)' <=> Superseded(u)) /\ (Watched(u)' <=> Watched(u))
    OBVIOUS
  <2>1. fd[u] \in Fds /\ fd'[u] = fd[u]
    BY <1>4 DEF IInv, TypeOK, TasksOK
  <2>2. CASE fd[u] = f
    BY <1>4, <2>1, <2>2 DEF Superseded, Watched
  <2>3. CASE fd[u] # f
    <3>1. interest'[fd[u]] = interest[fd[u]] /\ (fd[u] \in armed' <=> fd[u] \in armed)
      BY <1>1, <1>4, <2>1, <2>3
    <3> QED  BY <2>1, <2>3, <3>1 DEF Superseded, Watched
  <2> QED  BY <2>1, <2>2, <2>3
<1>10. Watch'
  <2>1. \A g \in armed' : interest'[g] \in Tasks
    BY <1>1, <1>3, <1>4 DEF IInv, Watch
  <2>2. \A u \in Tasks : u \in ToSet(batch) => ~Watched(u)'
    BY <1>2, <1>9 DEF IInv, Watch, Places
  <2>3. ASSUME ~panic, tick # "error", NEW g \in armed'
        PROVE  InCall(interest[g])' /\ fd'[interest'[g]] = g
    <3>1. CASE g = f
      BY <1>4, <1>5, <3>1 DEF InCall
    <3>2. CASE g # f
      <4>1. g \in armed /\ g \in Fds /\ interest'[g] = interest[g]
        BY <1>1, <1>3, <1>4, <2>3, <3>2
      <4>2. interest[g] \in Tasks /\ InCall(interest[g]) /\ fd[interest[g]] = g
        BY <2>3, <4>1 DEF IInv, Watch
      <4>3. interest[g] # t
        BY <1>2, <4>2
      <4> QED  BY <1>4, <4>1, <4>2, <4>3 DEF InCall
    <3> QED  BY <3>1, <3>2
  <2>4. ASSUME ~panic, tick # "error", NEW u \in Tasks
        PROVE  /\ u \in ToSet(queue) /\ InCall(u)' => ~Watched(u)'
               /\ InCall(u)' /\ u \notin ToSet(queue) /\ u \notin ToSet(batch) /\ ~Superseded(u)'
                    => fd'[u] \in armed'
    <3>1. CASE u = t
      BY <1>1, <1>2, <1>4, <3>1
    <3>2. CASE u # t
      BY <1>1, <1>4, <1>5, <1>9, <2>4, <3>2 DEF IInv, Watch
    <3> QED  BY <3>1, <3>2
  <2> QED  BY <1>1, <2>1, <2>2, <2>3, <2>4 DEF Watch
<1>11. NoFalseReady'
  <2> SUFFICES ASSUME NEW u \in ToSet(queue), InCall(u)', ~error'[u]
               PROVE  fd'[u] \notin armed' \/ Superseded(u)'
    BY <1>1 DEF NoFalseReady
  <2>1. u \in Tasks \ {t} /\ InCall(u) /\ ~error[u] /\ fd'[u] = fd[u]
    BY <1>2, <1>3, <1>4, <1>5
  <2>2. CASE fd[u] = f
    BY <1>9, <2>1, <2>2
  <2>3. CASE fd[u] # f
    BY <1>1, <1>9, <2>1, <2>3 DEF IInv, NoFalseReady
  <2> QED  BY <2>2, <2>3
<1> QED  BY <1>6, <1>7, <1>8, <1>10, <1>11 DEF IInv

(* monitorA puts its event into the list of waiting events.                *)
LEMMA AppendIInv ==
    ASSUME IoTasksAssumption, IInv, NEW t \in Tasks, AppendEvent(t) PROVE IInv'
<1>1. /\ running = t /\ pc[t] = "enter" /\ pc' = [pc EXCEPT ![t] = "hold"]
      /\ list' = Append(list, t)
      /\ UNCHANGED <<queue, running, fd, error, interest, armed, tick, limit, batch, panic>>
  BY DEF AppendEvent, Register, Listed, At, kernelVars, tickVars
<1>2. t \notin ToSet(queue) /\ t \notin ToSet(list)
  BY <1>1, AtFacts
<1>3. list' \in Seq(Tasks) /\ IsInjective(list') /\ ToSet(list') = ToSet(list) \cup {t}
  BY <1>1, <1>2, Appended DEF IInv, TypeOK, Places
<1>4. /\ pc' \in [Tasks -> PcS] /\ pc'[t] = "hold" /\ \A u \in Tasks \ {t} : pc'[u] = pc[u]
  BY <1>1 DEF IInv, TypeOK, TasksOK, PcS
<1>5. \A u \in Tasks : /\ InCall(u)' <=> InCall(u)
                       /\ Watched(u)' <=> Watched(u)
                       /\ Superseded(u)' <=> Superseded(u)
  BY <1>1, <1>4 DEF InCall, Watched, Superseded
<1>6. TypeOK'
  BY <1>1, <1>3, <1>4, <1>5 DEF IInv, TypeOK, TasksOK, PcS
<1>7. Places'
  BY <1>1, <1>2, <1>3, <1>4, <1>5 DEF IInv, Places
<1>8. Ticks'
  BY <1>1 DEF IInv, Ticks
<1>9. Watch'
  <2>1. ASSUME NEW f \in armed PROVE InCall(interest[f])' <=> InCall(interest[f])
    BY <1>1, <1>5 DEF IInv, Watch, InCall
  <2> QED  BY <1>1, <1>5, <2>1 DEF IInv, Watch
<1>10. NoFalseReady'
  BY <1>1, <1>5, InTasks DEF IInv, NoFalseReady
<1> QED  BY <1>6, <1>7, <1>8, <1>9, <1>10 DEF IInv

(* _tick calls epoll_wait, which times out or fails.                       *)
LEMMA TickCallIInv ==
    ASSUME IoTasksAssumption, IInv, TickStart \/ TickTimeout \/ TickFails PROVE IInv'
<1>1. /\ UNCHANGED <<taskVars, list, kernelVars, batch, panic>>
      /\ tick \in {"out", "wait"} /\ tick' \in {"out", "wait", "error"}
      /\ panic => tick' = "out"
  BY DEF TickStart, TickTimeout, TickFails, IInv, Ticks
<1> USE DEF taskVars, kernelVars
<1>2. limit' \in 0..Cardinality(Tasks)
  <2>1. CASE TickStart
    BY <2>1, NotTooLong DEF TickStart, MaxEvents, IInv, TypeOK, Places, IoTasksAssumption
  <2>2. CASE ~TickStart
    BY <2>2 DEF TickTimeout, TickFails, IInv, TypeOK
  <2> QED  BY <2>1, <2>2
<1>3. TypeOK'
  BY <1>1, <1>2 DEF IInv, TypeOK, TasksOK, InCall
<1>4. Places' /\ NoFalseReady'
  BY <1>1 DEF IInv, Places, InCall, NoFalseReady, Superseded
<1>5. Ticks'
  BY <1>1 DEF IInv, Ticks
<1>6. Watch'
  BY <1>1 DEF IInv, Watch, Watched, Superseded, InCall
<1> QED  BY <1>3, <1>4, <1>5, <1>6 DEF IInv

(* epoll_wait reports some descriptors: each belongs to another call that  *)
(* waits, and is disarmed.                                                 *)
LEMMA ReportIInv ==
    ASSUME IoTasksAssumption, IInv, NEW fs \in SUBSET Fds, TickReport(fs) PROVE IInv'
<1>1. /\ tick = "wait" /\ tick' = "batch" /\ ~panic /\ batch = <<>> /\ ToSet(batch) = {}
      /\ fs # {} /\ fs \subseteq armed /\ armed' = armed \ fs
      /\ UNCHANGED <<queue, running, pc, fd, error, list, interest, limit, panic>>
  BY DEF TickReport, Disarmed, IInv, Ticks, taskVars, ToSet
<1>2. PICK order \in SetToSeqs(fs) : batch' = [i \in 1..Len(order) |-> interest[order[i]]]
  BY DEF TickReport
<1>3. /\ order \in Seq(fs) /\ ToSet(order) = fs /\ IsInjective(order)
      /\ Len(order) \in Nat /\ DOMAIN order = 1..Len(order)
      /\ \A i \in 1..Len(order) : order[i] \in fs
  <2>1. IsFiniteSet(fs)
    BY FS_Subset DEF IoTasksAssumption
  <2> QED  BY <2>1, ArrayOfAll
<1>4. \A f \in fs : /\ interest[f] \in Tasks /\ InCall(interest[f]) /\ fd[interest[f]] = f
                    /\ Watched(interest[f])
  BY <1>1 DEF IInv, Watch, Watched
<1>5. /\ batch' \in Seq(Tasks) /\ IsInjective(batch') /\ batch' # <<>>
      /\ \A t : t \in ToSet(batch') <=> \E f \in fs : t = interest[f]
  <2>1. \A i \in 1..Len(order) : interest[order[i]] \in Tasks
    BY <1>3, <1>4
  <2>2. batch' \in Seq(Tasks) /\ Len(batch') = Len(order) /\ DOMAIN batch' = 1..Len(order)
        /\ \A i \in 1..Len(order) : batch'[i] = interest[order[i]]
    BY <1>2, <1>3, <2>1
  <2>3. IsInjective(batch')
    <3> SUFFICES ASSUME NEW i \in 1..Len(order), NEW j \in 1..Len(order), batch'[i] = batch'[j]
                 PROVE  i = j
      BY <2>2 DEF IsInjective
    <3>1. order[i] = order[j]
      BY <1>3, <1>4, <2>2
    <3> QED  BY <1>3, <3>1 DEF IsInjective
  <2>4. \A f \in fs : \E i \in 1..Len(order) : f = order[i]
    BY <1>3 DEF ToSet
  <2>5. Len(order) # 0
    BY <1>1, <1>3, <2>4
  <2>6. \A t : t \in ToSet(batch') <=> \E i \in 1..Len(order) : t = interest[order[i]]
    BY <2>2 DEF ToSet
  <2>7. ASSUME NEW t PROVE t \in ToSet(batch') <=> \E f \in fs : t = interest[f]
    BY <1>3, <2>4, <2>6
  <2> QED  BY <2>2, <2>3, <2>5, <2>7
<1>6. \A t \in Tasks : /\ InCall(t)' <=> InCall(t)
                       /\ Superseded(t)' <=> Superseded(t)
                       /\ Watched(t)' <=> Watched(t) /\ fd[t] \notin fs
  BY <1>1 DEF InCall, Superseded, Watched
<1>7. TypeOK'
  <2>1. armed' \in SUBSET Fds
    BY <1>1 DEF IInv, TypeOK
  <2> QED  BY <1>1, <1>5, <1>6, <2>1 DEF IInv, TypeOK, TasksOK
<1>8. Places'
  <2>1. \A t \in Tasks : t \in ToSet(batch') => InCall(t) /\ t \notin ToSet(queue)
    BY <1>1, <1>4, <1>5 DEF IInv, Watch
  <2> QED  BY <1>1, <1>5, <1>6, <2>1 DEF IInv, Places
<1>9. Ticks'
  BY <1>1, <1>5 DEF Ticks
<1>10. Watch'
  <2>1. \A t \in Tasks : t \in ToSet(batch') => ~Watched(t)'
    BY <1>4, <1>5, <1>6
  <2>2. ASSUME NEW t \in Tasks, InCall(t), t \notin ToSet(queue), t \notin ToSet(batch'), ~Superseded(t)
        PROVE  fd[t] \in armed'
    <3>1. fd[t] \in armed
      BY <1>1, <2>2 DEF IInv, Watch
    <3>2. fd[t] \notin fs
      BY <1>5, <2>2 DEF Superseded
    <3> QED  BY <1>1, <3>1, <3>2
  <2>3. \A f \in armed : InCall(interest[f])' <=> InCall(interest[f])
    BY <1>1 DEF InCall
  <2> QED  BY <1>1, <1>6, <2>1, <2>2, <2>3 DEF IInv, Watch
<1>11. NoFalseReady'
  BY <1>1, <1>6, InTasks DEF IInv, NoFalseReady
<1> QED  BY <1>7, <1>8, <1>9, <1>10, <1>11 DEF IInv

(* _tick schedules the task of an event, or panics because the event is    *)
(* not yet in the list.                                                    *)
LEMMA EventIInv ==
    ASSUME IoTasksAssumption, IInv, NEW isErr \in BOOLEAN, TickEvent(isErr) PROVE IInv'
<1>0. batch # <<>> /\ tick = "batch" /\ ~panic
  BY DEF TickEvent, IInv, Ticks
<1>1. PICK t \in Tasks : t = Head(batch) /\ t \in ToSet(batch)
  BY <1>0, FirstGone DEF IInv, TypeOK, Places
<1>2. /\ error' = [error EXCEPT ![t] = isErr]
      /\ UNCHANGED <<running, pc, fd, interest, armed, limit>>
      /\ InCall(t) /\ t \notin ToSet(queue) /\ ~Watched(t)
      /\ queue \in Seq(Tasks) /\ list \in Seq(Tasks) /\ batch \in Seq(Tasks)
      /\ error \in [Tasks -> BOOLEAN]
      /\ ToSet(queue) \subseteq Tasks
  BY <1>1, InTasks DEF TickEvent, kernelVars, IInv, TypeOK, TasksOK, Places, Watch
<1>3. \A u \in Tasks : /\ InCall(u)' <=> InCall(u)
                       /\ Superseded(u)' <=> Superseded(u)
                       /\ Watched(u)' <=> Watched(u)
                       /\ u # t => error'[u] = error[u]
  BY <1>2 DEF InCall, Superseded, Watched
<1>4. CASE t \in ToSet(list)
  <2>1. /\ list' = RemoveFirst(list, t) /\ queue' = Append(queue, t) /\ batch' = Tail(batch)
        /\ tick' = (IF Tail(batch) = <<>> THEN "out" ELSE "batch") /\ panic' = panic
    BY <1>1, <1>2, <1>4 DEF TickEvent, Enqueue
  <2>2. list' \in Seq(Tasks) /\ IsInjective(list') /\ ToSet(list') = ToSet(list) \ {t}
    BY <1>2, <1>4, <2>1, OneGone DEF IInv, Places
  <2>3. queue' \in Seq(Tasks) /\ IsInjective(queue') /\ ToSet(queue') = ToSet(queue) \cup {t}
    BY <1>2, <2>1, Appended DEF IInv, Places
  <2>4. batch' \in Seq(Tasks) /\ IsInjective(batch') /\ ToSet(batch') = ToSet(batch) \ {t}
    BY <1>0, <1>1, <1>2, <2>1, FirstGone DEF IInv, Places
  <2>5. TypeOK'
    BY <1>2, <1>3, <2>1, <2>2, <2>3, <2>4 DEF IInv, TypeOK, TasksOK
  <2>6. Places'
    BY <1>2, <1>3, <1>4, <2>2, <2>3, <2>4 DEF IInv, Places
  <2>7. Ticks'
    BY <1>0, <2>1 DEF Ticks
  <2>8. Watch'
    <3>1. \A f \in armed : InCall(interest[f])' <=> InCall(interest[f])
      BY <1>2 DEF InCall
    <3> QED  BY <1>0, <1>2, <1>3, <2>1, <2>3, <2>4, <3>1 DEF IInv, Watch
  <2>9. NoFalseReady'
    <3> SUFFICES ASSUME NEW u \in ToSet(queue'), InCall(u)', ~error'[u]
                 PROVE  fd[u] \notin armed \/ Superseded(u)'
      BY <1>2 DEF NoFalseReady
    <3>1. CASE u = t
      BY <1>2, <1>3, <3>1 DEF Watched, Superseded
    <3>2. CASE u # t
      BY <1>2, <1>3, <2>3, <3>2 DEF IInv, NoFalseReady
    <3> QED  BY <3>1, <3>2
  <2> QED  BY <2>5, <2>6, <2>7, <2>8, <2>9 DEF IInv
<1>5. CASE t \notin ToSet(list)
  <2>1. batch' = <<>> /\ tick' = "out" /\ panic' = TRUE /\ UNCHANGED <<list, queue>>
    BY <1>1, <1>5 DEF TickEvent
  <2>2. batch' \in Seq(Tasks) /\ IsInjective(batch') /\ ToSet(batch') = {}
    BY <2>1 DEF IsInjective, ToSet
  <2>3. TypeOK'
    BY <1>2, <1>3, <2>1, <2>2 DEF IInv, TypeOK, TasksOK
  <2>4. Places'
    BY <1>2, <1>3, <2>1, <2>2 DEF IInv, Places
  <2>5. Ticks' /\ Watch'
    BY <1>2, <2>1, <2>2 DEF IInv, Ticks, Watch
  <2>6. NoFalseReady'
    BY <1>2, <1>3, <2>1 DEF IInv, NoFalseReady
  <2> QED  BY <2>3, <2>4, <2>5, <2>6 DEF IInv
<1> QED  BY <1>4, <1>5

(* After a failure _tick wakes all waiting tasks with IOERR.               *)
LEMMA DrainIInv ==
    ASSUME IoTasksAssumption, IInv, TickDrain PROVE IInv'
<1>1. /\ tick = "error" /\ ~panic /\ UNCHANGED <<running, pc, fd, interest, armed, limit, batch>>
  BY DEF TickDrain, kernelVars, IInv, Ticks
<1>2. \A u \in Tasks : /\ InCall(u)' <=> InCall(u)
                       /\ Superseded(u)' <=> Superseded(u)
                       /\ Watched(u)' <=> Watched(u)
  BY <1>1 DEF InCall, Superseded, Watched
<1>3. CASE list = <<>>
  <2>1. tick' = "out" /\ panic' = TRUE /\ UNCHANGED <<list, error, queue>>
    BY <1>3 DEF TickDrain
  <2>2. TypeOK' /\ Places' /\ Ticks' /\ Watch'
    BY <1>1, <1>2, <2>1 DEF IInv, TypeOK, TasksOK, Places, Ticks, Watch
  <2>3. NoFalseReady'
    BY <1>1, <1>2, <2>1, InTasks DEF IInv, NoFalseReady
  <2> QED  BY <2>2, <2>3 DEF IInv
<1>4. CASE list # <<>>
  <2>1. PICK t \in Tasks : t = Head(list) /\ t \in ToSet(list)
    BY <1>4, FirstGone DEF IInv, TypeOK, Places
  <2>2. t \notin ToSet(queue) /\ queue \in Seq(Tasks) /\ error \in [Tasks -> BOOLEAN]
        /\ pc[t] \in {"hold", "await"}
    BY <2>1 DEF IInv, TypeOK, TasksOK, Places
  <2>3. /\ list' = Tail(list) /\ error' = [error EXCEPT ![t] = TRUE] /\ queue' = Append(queue, t)
        /\ tick' = tick /\ panic' = panic
    BY <1>4, <2>1, <2>2 DEF TickDrain, WithError, Enqueue
  <2>4. list' \in Seq(Tasks) /\ IsInjective(list') /\ ToSet(list') = ToSet(list) \ {t}
    BY <1>4, <2>1, <2>3, FirstGone DEF IInv, TypeOK, Places
  <2>5. queue' \in Seq(Tasks) /\ IsInjective(queue') /\ ToSet(queue') = ToSet(queue) \cup {t}
    BY <2>2, <2>3, Appended DEF IInv, Places
  <2>6. t \notin ToSet(batch)
    BY <1>1 DEF IInv, Ticks, ToSet
  <2>7. TypeOK'
    BY <1>1, <1>2, <2>2, <2>3, <2>4, <2>5 DEF IInv, TypeOK, TasksOK
  <2>8. Places'
    BY <1>1, <1>2, <2>1, <2>2, <2>4, <2>5, <2>6 DEF IInv, Places
  <2>9. Ticks' /\ Watch'
    BY <1>1, <1>2, <2>3 DEF IInv, Ticks, Watch
  <2>10. NoFalseReady'
    BY <1>1, <1>2, <2>2, <2>3, <2>5, InTasks DEF IInv, NoFalseReady
  <2> QED  BY <2>7, <2>8, <2>9, <2>10 DEF IInv
<1> QED  BY <1>3, <1>4

(* Every step keeps the invariant.                                         *)
LEMMA NextIInv == ASSUME IoTasksAssumption, IInv, [Next]_vars PROVE IInv'
<1>1. CASE UNCHANGED vars
  BY <1>1 DEF vars, taskVars, IInv, TypeOK, TasksOK, Places, Ticks, Watch, Watched, Superseded,
              NoFalseReady, InCall
<1>2. CASE WorkerStep
  BY <1>2, ResumeIInv, TurnIInv, CtlIInv, AppendIInv DEF WorkerStep, Turn
<1>3. CASE TickStep
  BY <1>3, TickCallIInv, ReportIInv, EventIInv, DrainIInv DEF TickStep
<1> QED  BY <1>1, <1>2, <1>3 DEF Next, TickIdle

(* The inductive invariant holds of every behaviour.                       *)
THEOREM Inductive == Spec => []IInv
<1>1. Init => IInv
  BY InitIInv, IoTasksAssumption
<1>2. IInv /\ [Next]_vars => IInv'
  BY NextIInv, IoTasksAssumption
<1> QED  BY <1>1, <1>2, PTL DEF Spec

(* The pointers the kernel and _tick hold are events of calls that have    *)
(* not returned, and a task is scheduled once, by one event.               *)
THEOREM NoEventIsStale == Spec => []EventsAlive
<1>1. IInv => EventsAlive
  <2> SUFFICES ASSUME IInv PROVE EventsAlive
    OBVIOUS
  <2>1. \A i \in 1..Len(batch) : InCall(batch[i])
    <3>1. \A i \in 1..Len(batch) : batch[i] \in ToSet(batch) /\ batch[i] \in Tasks
      BY DEF IInv, TypeOK, ToSet
    <3> QED  BY <3>1 DEF IInv, Places
  <2> QED  BY <2>1, InTasks DEF IInv, Places, Watch, EventsAlive
<1> QED  BY <1>1, Inductive, PTL

(* A task that waits is known to epoll or to _tick, or is scheduled, or    *)
(* another task has taken its descriptor over.                             *)
THEOREM NoWaiterIsForgotten == Spec => []NoneForgotten
<1>1. IInv => NoneForgotten
  <2> SUFFICES ASSUME IInv, ~panic, NEW t \in Tasks, pc[t] = "await", t \notin ToSet(queue)
               PROVE  t \in ToSet(list) /\ (tick = "error" \/ t \in ToSet(batch)
                                            \/ fd[t] \in armed \/ Superseded(t))
    BY DEF NoneForgotten
  <2>1. t \in ToSet(list) /\ InCall(t)
    BY DEF IInv, Places, InCall
  <2> QED  BY <2>1 DEF IInv, Watch
<1> QED  BY <1>1, Inductive, PTL

(* A call of await returns 0 only when its descriptor was reported, or     *)
(* belongs to another task now.                                            *)
THEOREM NothingIsFalselyReady == Spec => []NoFalseReady
<1>1. IInv => NoFalseReady
  BY DEF IInv
<1> QED  BY <1>1, Inductive, PTL
-----------------------------------------------------------------------------
(* What the contract of await sees of a task.                              *)
Stays(t) ==
    /\ InCall(t)' <=> InCall(t)
    /\ InCall(t) => (t \in ToSet(queue)' <=> t \in ToSet(queue))
    /\ InCall(t) /\ t \in ToSet(queue) => (error'[t] <=> error[t])

(* A step that changes nothing of it is a stutter.                         *)
LEMMA AllStay == (\A t \in Tasks : Stays(t)) => UNCHANGED Awaits
BY DEF Stays, Awaits

(* A step that changes it for one task moves the call of that task.        *)
LEMMA OneMoves ==
    ASSUME NEW t \in Tasks, \A u \in Tasks \ {t} : Stays(u),
           NEW from, NEW to, Awaits[t] \in from, Awaits'[t] = to
    PROVE  Io!Move(t, from, to)
<1>1. \A u \in Tasks \ {t} : Awaits'[u] = Awaits[u]
  BY DEF Stays, Awaits
<1>2. Awaits' = [Awaits EXCEPT ![t] = to]
  BY <1>1 DEF Awaits
<1> QED  BY <1>2 DEF Io!Move

(* A worker pops a task: its call, if it is in one, returns.               *)
LEMMA ResumeImplements ==
    ASSUME IoTasksAssumption, IInv, Resume PROVE [Io!Next]_Awaits
<1>1. PICK t \in Tasks : t = Head(queue) /\ t \in ToSet(queue)
  BY FirstGone DEF Resume, IInv, TypeOK, TasksOK, Places
<1>2. /\ ToSet(queue') = ToSet(queue) \ {t} /\ pc' = [pc EXCEPT ![t] = "run"] /\ error' = error
  BY <1>1, FirstGone DEF Resume, IInv, TypeOK, TasksOK, Places
<1>3. ~InCall(t)' /\ \A u \in Tasks \ {t} : Stays(u)
  BY <1>2 DEF IInv, TypeOK, TasksOK, InCall, Stays
<1>4. CASE InCall(t)
  <2>1. Awaits[t] \in {"ready", "failed"} /\ Awaits'[t] = "none"
    BY <1>1, <1>3, <1>4 DEF Awaits
  <2> QED  BY <1>3, <2>1, OneMoves DEF Io!Next, Io!Return
<1>5. CASE ~InCall(t)
  BY <1>3, <1>5, AllStay DEF Stays
<1> QED  BY <1>4, <1>5

(* monitorA starts: the call waits.                                        *)
LEMMA CtlImplements ==
    ASSUME IoTasksAssumption, IInv, NEW t \in Tasks, NEW f \in Fds, Ctl(t, f)
    PROVE  [Io!Next]_Awaits
<1>1. /\ running = t /\ pc[t] = "run" /\ pc' = [pc EXCEPT ![t] = "enter"]
      /\ error' = [error EXCEPT ![t] = FALSE] /\ queue' = queue
  BY DEF Ctl, Enter, At
<1>2. ~InCall(t) /\ t \notin ToSet(queue)
  BY <1>1, AtFacts DEF InCall
<1>3. InCall(t)' /\ \A u \in Tasks \ {t} : Stays(u)
  BY <1>1 DEF IInv, TypeOK, TasksOK, InCall, Stays
<1>4. Awaits[t] = "none" /\ Awaits'[t] = "waiting"
  BY <1>1, <1>2, <1>3 DEF Awaits
<1> QED  BY <1>3, <1>4, OneMoves DEF Io!Next, Io!Await

(* The module schedules a task with or without IOERR: its call is ready or *)
(* has failed.                                                             *)
LEMMA WakeImplements ==
    ASSUME IoTasksAssumption, IInv, NEW t \in Tasks, NEW isErr \in BOOLEAN,
           InCall(t), t \notin ToSet(queue), pc' = pc,
           queue' = Append(queue, t), error' = [error EXCEPT ![t] = isErr]
    PROVE  [Io!Next]_Awaits
<1>1. ToSet(queue') = ToSet(queue) \cup {t}
  BY Appended DEF IInv, TypeOK, TasksOK, Places
<1>2. InCall(t)' /\ error'[t] = isErr /\ \A u \in Tasks \ {t} : Stays(u)
  BY <1>1 DEF IInv, TypeOK, TasksOK, InCall, Stays
<1>3. Awaits[t] = "waiting" /\ Awaits'[t] = (IF isErr THEN "failed" ELSE "ready")
  BY <1>1, <1>2 DEF Awaits
<1> QED  BY SMTT(30), <1>2, <1>3, OneMoves DEF Io!Next, Io!Wake, Io!Fail

(* Every step of modepoll.c is a step of the contract, or none.            *)
LEMMA StepImplements ==
    ASSUME IoTasksAssumption, IInv, [Next]_vars PROVE [Io!Next]_Awaits
<1>1. CASE UNCHANGED <<queue, pc, error>>
  BY <1>1, AllStay DEF Stays, InCall
<1>2. ASSUME NEW t \in Tasks, Relax(t) \/ Finish(t) \/ Hold(t) \/ AppendEvent(t)
      PROVE  [Io!Next]_Awaits
  <2>1. /\ running = t /\ error' = error /\ \A u \in Tasks : u # t => pc'[u] = pc[u]
        /\ InCall(t)' <=> InCall(t)
        /\ Relax(t) => pc' = pc /\ pc[t] = "run" /\ ~InCall(t)
    BY <1>2 DEF Relax, Finish, Hold, AppendEvent, Register, At, InCall, IInv, TypeOK, TasksOK
  <2>2. ASSUME NEW u \in Tasks, InCall(u) PROVE u \in ToSet(queue)' <=> u \in ToSet(queue)
    <3>1. CASE Relax(t)
      <4>1. t \notin ToSet(queue) /\ queue' = Append(queue, t) /\ u # t
        BY <2>1, <2>2, <3>1, AtFacts DEF Relax, Enqueue, At
      <4> QED  BY <4>1, Appended DEF IInv, TypeOK, TasksOK, Places
    <3>2. CASE ~Relax(t)
      BY <1>2, <3>2 DEF Finish, Hold, AppendEvent, Register
    <3> QED  BY <3>1, <3>2
  <2> QED  BY <2>1, <2>2, AllStay DEF Stays, InCall
<1>3. ASSUME NEW isErr \in BOOLEAN, TickEvent(isErr) PROVE [Io!Next]_Awaits
  <2>1. batch # <<>>
    BY <1>3 DEF TickEvent, IInv, Ticks
  <2>2. PICK t \in Tasks : t = Head(batch) /\ t \in ToSet(batch)
    BY <2>1, FirstGone DEF IInv, TypeOK, Places
  <2>3. InCall(t) /\ t \notin ToSet(queue) /\ pc' = pc /\ error' = [error EXCEPT ![t] = isErr]
    BY <1>3, <2>2 DEF TickEvent, IInv, Places
  <2>4. CASE t \in ToSet(list)
    <3>1. queue' = Append(queue, t)
      BY <1>3, <2>2, <2>3, <2>4 DEF TickEvent, Enqueue
    <3> QED  BY <2>3, <3>1, WakeImplements
  <2>5. CASE t \notin ToSet(list)
    <3>1. queue' = queue
      BY <1>3, <2>2, <2>5 DEF TickEvent
    <3> QED  BY <2>3, <3>1, AllStay DEF Stays, InCall, IInv, TypeOK, TasksOK
  <2> QED  BY <2>4, <2>5
<1>4. CASE TickDrain
  <2>1. CASE list = <<>>
    BY <1>1, <1>4, <2>1 DEF TickDrain
  <2>2. CASE list # <<>>
    <3>1. PICK t \in Tasks : t = Head(list) /\ t \in ToSet(list)
      BY <2>2, FirstGone DEF IInv, TypeOK, Places
    <3>2. InCall(t) /\ t \notin ToSet(queue) /\ pc' = pc
      BY <1>4, <3>1 DEF TickDrain, IInv, Places, InCall
    <3>3. queue' = Append(queue, t) /\ error' = [error EXCEPT ![t] = TRUE]
      BY <1>4, <2>2, <3>1, <3>2 DEF TickDrain, WithError, Enqueue
    <3> QED  BY <3>2, <3>3, WakeImplements
  <2> QED  BY <2>1, <2>2
<1>5. CASE WorkerStep
  BY <1>2, <1>5, ResumeImplements, CtlImplements DEF WorkerStep, Turn
<1>6. CASE TickStep
  <2>1. TickStart \/ TickTimeout \/ TickFails \/ (\E fs \in SUBSET Fds : TickReport(fs))
          => UNCHANGED <<queue, pc, error>>
    BY DEF TickStart, TickTimeout, TickFails, TickReport, taskVars
  <2> QED  BY <1>1, <1>3, <1>4, <1>6, <2>1 DEF TickStep
<1> QED  BY <1>1, <1>5, <1>6 DEF Next, TickIdle, vars, taskVars

(* modepoll.c keeps the contract of await: a call waits, is woken once, as *)
(* ready or with IOERR, and returns; also when epoll_wait fails and when   *)
(* the module panics.                                                      *)
THEOREM KeepsContract == Spec => IoSpec
<1>1. Init => Io!Init
  BY DEF Init, TasksInit, Io!Init, Awaits, InCall
<1>2. IInv /\ [Next]_vars => [Io!Next]_Awaits
  BY StepImplements, IoTasksAssumption
<1> QED  BY <1>1, <1>2, Inductive, PTL DEF Spec, IoSpec, Io!Spec
=============================================================================
