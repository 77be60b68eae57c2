----------------------------- MODULE ModIOProofs -----------------------------
(***************************************************************************)
(* Proofs about ModIO for any number of tasks and workers, any programs    *)
(* and any delays: what a task's calls return follows from where the task  *)
(* is and what its role lets it do.                                        *)
(***************************************************************************)
EXTENDS ModIO, QueueLemmas

InCall(t) == pc[t] \in {"try", "test", "await"}

(* A task is with one worker, or once in the queue, or in the await of the *)
(* module; the queue has no task that the module has not woken.            *)
Hands ==
    /\ IsInjective(queue)
    /\ \A v, w \in Workers : running[v] = running[w] /\ running[v] # NoTask => v = w
    /\ \A w \in Workers : running[w] # NoTask =>
         running[w] \notin ToSet(queue) /\ pc[running[w]] \in {"code", "try", "test"}
    /\ \A t \in ToSet(queue) :
         pc[t] \in {"code", "try"} \/ (pc[t] = "await" /\ call[t] \in {"ready", "failed"})
    /\ \A t \in Tasks : call[t] # "none" <=> pc[t] = "await"

(* The calls of each role, and how far each of them can be; a task is in a *)
(* call only if its last one succeeded and it has something left to do.    *)
Role(t) ==
    /\ role[t] = "producer" => op[t] \in {"start", "random", "write"}
    /\ role[t] = "consumer" => op[t] \in {"start", "read"}
    /\ role[t] = "acceptor" => op[t] \in {"start", "accept"}
    /\ role[t] = "client"   => op[t] \in {"start", "lookup", "connect"}
    /\ role[t] = "sleeper"  => op[t] \in {"start", "relax", "sleep"}
    /\ op[t] = "start" => pc[t] \in {"code", "done"} /\ result[t] = "ok"
    /\ op[t] \in {"random", "relax", "lookup", "connect"} => pc[t] \in {"code", "try", "done"}
    /\ op[t] = "sleep" => pc[t] \in {"code", "await", "done"}
    /\ result[t] = "eof" => role[t] = "consumer"
    /\ InCall(t) => result[t] = "ok"
    /\ op[t] = "random" \/ (op[t] \in {"write", "accept"} /\ InCall(t)) => done[t] < Count
    /\ op[t] = "sleep" /\ InCall(t) => done[t] < Len(Delays)

(* A producer or consumer ends, and closes its end of the pipe, when a     *)
(* call failed, when it has read the end of the file or written all.       *)
Pipe ==
    /\ readers = { t \in WithRole("consumer") : pc[t] # "done" }
    /\ writers = { t \in WithRole("producer") : pc[t] # "done" }
    /\ \A t \in Tasks : pc[t] = "done" =>
         /\ role[t] = "consumer" => result[t] # "ok"
         /\ role[t] = "producer" => result[t] # "ok" \/ done[t] = Count
    /\ \A t \in Tasks : result[t] = "eof" =>
         pipe = <<>> /\ \A p \in WithRole("producer") : pc[p] = "done"

(* The timer of a sleeping task and the time it has slept.                 *)
Sleeping(t) ==
    op[t] = "sleep" =>
      /\ call[t] = "waiting" => timer[t] >= 0 /\ slept[t] + timer[t] >= Delays[done[t] + 1]
      /\ call[t] = "ready" => slept[t] >= Delays[done[t] + 1]

(* A connection is in progress, or waits to be accepted, or was accepted;  *)
(* its client connects once.                                               *)
Connected == { m[3] : m \in ToSet(accepted) }

Client(c) ==
    /\ c \in pending \cup backlog \cup Connected =>
         role[c] = "client" /\ op[c] = "connect" /\ pc[c] \in {"code", "done"}
    /\ c \in pending => c \notin backlog
    /\ c \in Connected => c \notin pending /\ c \notin backlog

IInv ==
    /\ TypeOK /\ Hands /\ Pipe /\ Delivered
    /\ \A t \in Tasks : Role(t) /\ Sleeping(t) /\ Client(t)

(* A task that is about to test errno finds what its call left in it.      *)
ErrnoFresh == \A w \in Workers, t \in Tasks : At(w, t, "test") => again[w]

EInv == ErrnoFresh /\ NoFalseError
-----------------------------------------------------------------------------
(* What the invariant says of the task that a worker runs.                 *)
LEMMA Current ==
    ASSUME IoAssumption, IInv, NEW w \in Workers, NEW t \in Tasks, running[w] = t
    PROVE  /\ t # NoTask /\ t \notin ToSet(queue) /\ call[t] = "none"
           /\ pc[t] \in {"code", "try", "test"}
           /\ \A v \in Workers \ {w} : running[v] # t
           /\ Role(t) /\ Sleeping(t) /\ Client(t)
           /\ ToSet(queue) \subseteq Tasks /\ role[t] \in Roles
<1>1. t # NoTask
  BY DEF IoAssumption
<1>2. t \notin ToSet(queue) /\ pc[t] \in {"code", "try", "test"}
  BY <1>1 DEF IInv, Hands
<1>3. ToSet(queue) \subseteq Tasks
  BY ToSetIsRange DEF IInv, TypeOK, Range
<1>4. role[t] \in Roles
  <2>1. role \in [Tasks -> Roles]
    BY DEF IInv, TypeOK, IoAssumption
  <2> QED  BY <2>1
<1> QED  BY <1>1, <1>2, <1>3, <1>4 DEF IInv, Hands

(* The task stays with its worker.                                         *)
LEMMA StayHands ==
    ASSUME IoAssumption, IInv, NEW w \in Workers, NEW t \in Tasks, running[w] = t,
           NEW x \in {"code", "try", "test"}, pc' = [pc EXCEPT ![t] = x],
           UNCHANGED <<queue, running, call>>
    PROVE  Hands'
<1>1. t \notin ToSet(queue) /\ call[t] = "none" /\ ToSet(queue) \subseteq Tasks
  BY Current
<1>2. /\ pc'[t] = x /\ \A u \in Tasks \ {t} : pc'[u] = pc[u]
      /\ running \in [Workers -> Tasks \cup {NoTask}]
  BY DEF IInv, TypeOK
<1>3. /\ IsInjective(queue)'
      /\ \A v, y \in Workers : running'[v] = running'[y] /\ running'[v] # NoTask => v = y
  BY DEF IInv, Hands
<1>4. \A v \in Workers : running'[v] # NoTask =>
        running'[v] \notin ToSet(queue') /\ pc'[running'[v]] \in {"code", "try", "test"}
  BY <1>2 DEF IInv, Hands
<1>5. \A u \in ToSet(queue') :
        pc'[u] \in {"code", "try"} \/ (pc'[u] = "await" /\ call'[u] \in {"ready", "failed"})
  BY <1>1, <1>2 DEF IInv, Hands
<1>6. \A u \in Tasks : call'[u] # "none" <=> pc'[u] = "await"
  BY <1>1, <1>2 DEF IInv, Hands
<1> QED  BY <1>3, <1>4, <1>5, <1>6 DEF Hands

(* The task yields: it goes to the end of the queue.                       *)
LEMMA YieldHands ==
    ASSUME IoAssumption, IInv, NEW w \in Workers, NEW t \in Tasks, running[w] = t,
           NEW x \in {"code", "try"}, pc' = [pc EXCEPT ![t] = x],
           Leaves(w), queue' = Append(queue, t), UNCHANGED call
    PROVE  Hands' /\ queue' \in Seq(Tasks)
<1>1. /\ t \notin ToSet(queue) /\ call[t] = "none" /\ ToSet(queue) \subseteq Tasks
      /\ \A v \in Workers \ {w} : running[v] # t
  BY Current
<1>2. IsInjective(queue') /\ ToSet(queue') = ToSet(queue) \cup {t} /\ queue' \in Seq(Tasks)
  BY <1>1, Appended, ToSetIsRange DEF IInv, TypeOK, Hands
<1>3. /\ pc'[t] = x /\ \A u \in Tasks \ {t} : pc'[u] = pc[u]
      /\ running'[w] = NoTask /\ \A v \in Workers \ {w} : running'[v] = running[v]
      /\ running \in [Workers -> Tasks \cup {NoTask}]
  BY DEF IInv, TypeOK, Leaves
<1>4. \A v, y \in Workers : running'[v] = running'[y] /\ running'[v] # NoTask => v = y
  BY <1>3 DEF IInv, Hands
<1>5. \A v \in Workers : running'[v] # NoTask =>
        running'[v] \notin ToSet(queue') /\ pc'[running'[v]] \in {"code", "try", "test"}
  BY <1>1, <1>2, <1>3 DEF IInv, Hands
<1>6. \A u \in ToSet(queue') :
        pc'[u] \in {"code", "try"} \/ (pc'[u] = "await" /\ call'[u] \in {"ready", "failed"})
  BY <1>1, <1>2, <1>3 DEF IInv, Hands
<1>7. \A u \in Tasks : call'[u] # "none" <=> pc'[u] = "await"
  BY <1>1, <1>3 DEF IInv, Hands
<1> QED  BY <1>2, <1>4, <1>5, <1>6, <1>7 DEF Hands

(* The task leaves its worker for the await of the module, or for ever.    *)
LEMMA LeaveHands ==
    ASSUME IoAssumption, IInv, NEW w \in Workers, NEW t \in Tasks, running[w] = t,
           NEW x \in {"await", "done"}, pc' = [pc EXCEPT ![t] = x], Leaves(w), UNCHANGED queue,
           x = "await" => call' = [call EXCEPT ![t] = "waiting"],
           x = "done"  => call' = call
    PROVE  Hands'
<1>1. /\ t \notin ToSet(queue) /\ call[t] = "none" /\ ToSet(queue) \subseteq Tasks
      /\ \A v \in Workers \ {w} : running[v] # t
  BY Current
<1>2. /\ pc'[t] = x /\ \A u \in Tasks \ {t} : pc'[u] = pc[u]
      /\ running'[w] = NoTask /\ \A v \in Workers \ {w} : running'[v] = running[v]
      /\ running \in [Workers -> Tasks \cup {NoTask}]
      /\ call'[t] = (IF x = "await" THEN "waiting" ELSE "none")
      /\ \A u \in Tasks \ {t} : call'[u] = call[u]
  BY <1>1 DEF IInv, TypeOK, Leaves
<1>3. /\ IsInjective(queue)'
      /\ \A v, y \in Workers : running'[v] = running'[y] /\ running'[v] # NoTask => v = y
  BY <1>2 DEF IInv, Hands
<1>4. \A v \in Workers : running'[v] # NoTask =>
        running'[v] \notin ToSet(queue') /\ pc'[running'[v]] \in {"code", "try", "test"}
  BY <1>1, <1>2 DEF IInv, Hands
<1>5. \A u \in ToSet(queue') :
        pc'[u] \in {"code", "try"} \/ (pc'[u] = "await" /\ call'[u] \in {"ready", "failed"})
  BY <1>1, <1>2 DEF IInv, Hands
<1>6. \A u \in Tasks : call'[u] # "none" <=> pc'[u] = "await"
  BY <1>1, <1>2 DEF IInv, Hands
<1> QED  BY <1>3, <1>4, <1>5, <1>6 DEF Hands

(* A step that writes, reads and accepts nothing.                          *)
LEMMA SameDelivered ==
    ASSUME IInv, UNCHANGED <<role, received, pipe, accepted>>,
           \A u \in Tasks : role[u] \in {"producer", "acceptor"} => done'[u] = done[u]
    PROVE  Delivered'
<1>1. ASSUME NEW r \in {"producer", "acceptor"}
      PROVE  { m \in Tasks \X (1..Count) : role'[m[1]] = r /\ m[2] <= done'[m[1]] }
               = { m \in Tasks \X (1..Count) : role[m[1]] = r /\ m[2] <= done[m[1]] }
  OBVIOUS
<1>2. EachOnce(received \o pipe, "producer")'
  BY <1>1 DEF IInv, Delivered, EachOnce
<1>3. EachOnce(accepted, "acceptor")'
  BY <1>1 DEF IInv, Delivered, EachOnce
<1> QED  BY <1>2, <1>3 DEF IInv, Delivered

(* A step in which no task ends or reads.                                  *)
LEMMA SamePipe ==
    ASSUME IInv, UNCHANGED <<role, readers, writers, pipe>>, NEW t \in Tasks,
           pc[t] # "done", pc'[t] # "done", result'[t] # "eof",
           \A u \in Tasks \ {t} : pc'[u] = pc[u] /\ result'[u] = result[u] /\ done'[u] = done[u]
    PROVE  Pipe'
<1>1. \A r : WithRole(r)' = WithRole(r)
  BY DEF WithRole
<1>2. \A u \in Tasks : pc'[u] = "done" <=> pc[u] = "done"
  OBVIOUS
<1>3. \A r : WithRole(r) \subseteq Tasks
  BY DEF WithRole
<1>4. /\ readers' = { u \in WithRole("consumer")' : pc'[u] # "done" }
      /\ writers' = { u \in WithRole("producer")' : pc'[u] # "done" }
  BY <1>1, <1>2, <1>3 DEF IInv, Pipe
<1> QED  BY <1>1, <1>2, <1>3, <1>4 DEF IInv, Pipe

(* A step of one task says nothing new of the others.                      *)
LEMMA OneCalls ==
    ASSUME IInv, UNCHANGED role, NEW t \in Tasks,
           \A u \in Tasks \ {t} :
             /\ pc'[u] = pc[u] /\ op'[u] = op[u] /\ result'[u] = result[u] /\ done'[u] = done[u]
             /\ call'[u] = call[u] /\ timer'[u] = timer[u] /\ slept'[u] = slept[u],
           Role(t)', Sleeping(t)'
    PROVE  \A u \in Tasks : Role(u)' /\ Sleeping(u)'
BY DEF IInv, Role, InCall, Sleeping

(* The same, of a step that makes no connection.                           *)
LEMMA OneActs ==
    ASSUME IInv, UNCHANGED <<role, pending, backlog, accepted>>, NEW t \in Tasks,
           \A u \in Tasks \ {t} :
             /\ pc'[u] = pc[u] /\ op'[u] = op[u] /\ result'[u] = result[u] /\ done'[u] = done[u]
             /\ call'[u] = call[u] /\ timer'[u] = timer[u] /\ slept'[u] = slept[u],
           Role(t)', Sleeping(t)', Client(t)'
    PROVE  \A u \in Tasks : Role(u)' /\ Sleeping(u)' /\ Client(u)'
<1>1. \A u \in Tasks : Role(u)' /\ Sleeping(u)'
  BY OneCalls
<1>2. \A u \in Tasks : Client(u)'
  BY DEF IInv, Client, Connected
<1> QED  BY <1>1, <1>2
-----------------------------------------------------------------------------
(* A call that begins with a yield.                                        *)
LEMMA CallIInv ==
    ASSUME IoAssumption, IInv, NEW w \in Workers, NEW t \in Tasks, Call(w, t) PROVE IInv'
<1>1. PICK o \in Ops \ {"lookup", "sleep"} : MayCall(t, o) /\ op' = [op EXCEPT ![t] = o]
  BY DEF Call
<1>2. /\ running[w] = t /\ pc[t] = "code" /\ pc' = [pc EXCEPT ![t] = "try"]
      /\ Leaves(w) /\ queue' = Append(queue, t)
      /\ UNCHANGED <<role, module, result, done, call, failed, errnoVars, kernelVars>>
  BY DEF Call, At, Goes
<1>3. /\ pc'[t] = "try" /\ op'[t] = o /\ \A u \in Tasks \ {t} : pc'[u] = pc[u] /\ op'[u] = op[u]
  BY <1>1, <1>2 DEF IInv, TypeOK
<1>4. Hands' /\ queue' \in Seq(Tasks)
  BY <1>2, YieldHands
<1>5. Role(t) /\ Sleeping(t) /\ Client(t) /\ call[t] = "none" /\ role[t] \in Roles
  BY <1>2, Current
<1>6. TypeOK'
  BY <1>1, <1>2, <1>4 DEF IInv, TypeOK, Leaves, errnoVars, kernelVars, pipeVars, netVars, timeVars
<1>7. Role(t)'
  BY <1>1, <1>2, <1>3, <1>5 DEF Role, InCall, MayCall, Unfinished, Ops, Roles
<1>8. Sleeping(t)' /\ Client(t)'
  BY <1>1, <1>2, <1>3, <1>5
     DEF Sleeping, Client, Connected, MayCall, kernelVars, netVars
<1>9. \A u \in Tasks : Role(u)' /\ Sleeping(u)' /\ Client(u)'
  BY <1>2, <1>3, <1>7, <1>8, OneActs DEF kernelVars, netVars, timeVars
<1>10. Pipe'
  BY <1>1, <1>2, <1>3, SamePipe DEF MayCall, kernelVars, pipeVars
<1>11. Delivered'
  BY <1>2, SameDelivered DEF kernelVars, pipeVars, netVars
<1> QED  BY <1>4, <1>6, <1>9, <1>10, <1>11 DEF IInv

(* A system call that would block.                                         *)
LEMMA BlockIInv ==
    ASSUME IoAssumption, IInv, NEW w \in Workers, NEW t \in Tasks, Block(w, t) PROVE IInv'
<1>1. /\ running[w] = t /\ pc[t] = "try" /\ ~Ready(t) /\ pc' = [pc EXCEPT ![t] = "test"]
      /\ again' = [again EXCEPT ![w] = TRUE] /\ home' = [home EXCEPT ![t] = w]
      /\ UNCHANGED <<role, module, queue, running, op, result, done, call, failed, kernelVars>>
  BY DEF Block, At, Goes, schedVars
<1>2. pc'[t] = "test" /\ \A u \in Tasks \ {t} : pc'[u] = pc[u]
  BY <1>1 DEF IInv, TypeOK
<1>3. Role(t) /\ Sleeping(t) /\ Client(t) /\ call[t] = "none" /\ role[t] \in Roles
  BY <1>1, Current
<1>4. Hands'
  BY <1>1, StayHands
<1>5. TypeOK'
  BY <1>1 DEF IInv, TypeOK, kernelVars, pipeVars, netVars, timeVars
<1>6. op[t] \in {"write", "read", "accept"}
  BY <1>1, <1>3 DEF Ready, Role
<1>7. Role(t)' /\ Sleeping(t)' /\ Client(t)'
  BY <1>1, <1>2, <1>3, <1>6
     DEF Role, InCall, Sleeping, Client, Connected, kernelVars, netVars
<1>8. \A u \in Tasks : Role(u)' /\ Sleeping(u)' /\ Client(u)'
  BY <1>1, <1>2, <1>7, OneActs DEF kernelVars, netVars, timeVars
<1>9. Pipe'
  BY <1>1, <1>2, <1>3, SamePipe DEF Role, InCall, kernelVars, pipeVars
<1>10. Delivered'
  BY <1>1, SameDelivered DEF kernelVars, pipeVars, netVars
<1> QED  BY <1>4, <1>5, <1>8, <1>9, <1>10 DEF IInv

(* The test of errno, and the await.                                       *)
LEMMA TestIInv ==
    ASSUME IoAssumption, IInv, NEW w \in Workers, NEW t \in Tasks, Test(w, t) PROVE IInv'
<1>1. /\ running[w] = t /\ pc[t] = "test"
      /\ UNCHANGED <<role, module, queue, op, done, errnoVars, kernelVars>>
  BY DEF Test, At
<1>2. Role(t) /\ Sleeping(t) /\ Client(t) /\ call[t] = "none" /\ role[t] \in Roles
  BY <1>1, Current
<1>3. op[t] \in {"write", "read", "accept"} /\ result[t] = "ok"
  BY <1>1, <1>2 DEF Role, InCall, Roles
<1>4. CASE Io!Await(t) /\ Goes(t, "await") /\ Leaves(w) /\ UNCHANGED <<result, failed>>
  <2>1. /\ call' = [call EXCEPT ![t] = "waiting"] /\ pc' = [pc EXCEPT ![t] = "await"]
        /\ Leaves(w) /\ UNCHANGED <<result, failed>>
    BY <1>4 DEF Goes, Io!Await, Io!Move
  <2>2. /\ pc'[t] = "await" /\ call'[t] = "waiting"
        /\ \A u \in Tasks \ {t} : pc'[u] = pc[u] /\ call'[u] = call[u]
    BY <2>1 DEF IInv, TypeOK
  <2>3. Hands'
    BY <1>1, <2>1, LeaveHands
  <2>4. TypeOK'
    BY <1>1, <2>1
       DEF IInv, TypeOK, Leaves, errnoVars, kernelVars, pipeVars, netVars, timeVars
  <2>5. Role(t)' /\ Sleeping(t)' /\ Client(t)'
    BY <1>1, <1>2, <1>3, <2>1, <2>2
       DEF Role, InCall, Sleeping, Client, Connected, kernelVars, netVars
  <2>6. \A u \in Tasks : Role(u)' /\ Sleeping(u)' /\ Client(u)'
    BY <1>1, <2>1, <2>2, <2>5, OneActs DEF kernelVars, netVars, timeVars
  <2>7. Pipe'
    BY <1>1, <1>3, <2>1, <2>2, SamePipe DEF kernelVars, pipeVars
  <2>8. Delivered'
    BY <1>1, SameDelivered DEF kernelVars, pipeVars, netVars
  <2> QED  BY <2>3, <2>4, <2>6, <2>7, <2>8 DEF IInv
<1>5. CASE /\ Answers(t, "error") /\ UNCHANGED <<running, call>>
           /\ failed' \in {failed, failed \cup {t}}
  <2>1. /\ result' = [result EXCEPT ![t] = "error"] /\ pc' = [pc EXCEPT ![t] = "code"]
        /\ UNCHANGED <<running, call>> /\ failed' \in {failed, failed \cup {t}}
    BY <1>5 DEF Answers, Goes
  <2>2. /\ pc'[t] = "code" /\ result'[t] = "error"
        /\ \A u \in Tasks \ {t} : pc'[u] = pc[u] /\ result'[u] = result[u]
    BY <2>1 DEF IInv, TypeOK
  <2>3. Hands'
    BY <1>1, <2>1, StayHands
  <2>4. TypeOK'
    BY <1>1, <2>1 DEF IInv, TypeOK, errnoVars, kernelVars, pipeVars, netVars, timeVars
  <2>5. Role(t)' /\ Sleeping(t)' /\ Client(t)'
    BY <1>1, <1>2, <1>3, <2>1, <2>2
       DEF Role, InCall, Sleeping, Client, Connected, kernelVars, netVars
  <2>6. \A u \in Tasks : Role(u)' /\ Sleeping(u)' /\ Client(u)'
    BY <1>1, <2>1, <2>2, <2>5, OneActs DEF kernelVars, netVars, timeVars
  <2>7. Pipe'
    BY <1>1, <2>2, SamePipe DEF kernelVars, pipeVars
  <2>8. Delivered'
    BY <1>1, SameDelivered DEF kernelVars, pipeVars, netVars
  <2> QED  BY <2>3, <2>4, <2>6, <2>7, <2>8 DEF IInv
<1> QED  BY <1>4, <1>5 DEF Test, Suspend

-----------------------------------------------------------------------------
(* What Delivered says of a sequence of successes, given the roles and how *)
(* many successes each task has had.                                       *)
Each(s, r, ro, d) ==
    /\ { <<m[1], m[2]>> : m \in ToSet(s) }
         = { m \in Tasks \X (1..Count) : ro[m[1]] = r /\ m[2] <= d[m[1]] }
    /\ \A i, j \in 1..Len(s) : i < j /\ s[i][1] = s[j][1] => s[i][2] < s[j][2]

(* The next success of a task goes to the end of the sequence.             *)
LEMMA OneMore ==
    ASSUME NEW S, NEW s \in Seq(S), NEW r, NEW ro, NEW d \in [Tasks -> Nat], Each(s, r, ro, d),
           Count \in Nat, NEW t \in Tasks, ro[t] = r, d[t] < Count,
           NEW m \in S, m[1] = t, m[2] = d[t] + 1
    PROVE  Each(Append(s, m), r, ro, [d EXCEPT ![t] = @ + 1])
<1> DEFINE e == [d EXCEPT ![t] = @ + 1]
           a == Append(s, m)
           n == Len(s)
<1>1. /\ n \in Nat /\ Len(a) = n + 1 /\ a[n + 1] = m /\ \A i \in 1..n : a[i] = s[i]
      /\ ToSet(a) = ToSet(s) \cup {m}
  <2>1. Range(a) = Range(s) \cup {m}
    BY AppendedRange
  <2> QED  BY <2>1, AppendedRange, ToSetIsRange
<1>2. e[t] = d[t] + 1 /\ \A u \in Tasks \ {t} : e[u] = d[u]
  OBVIOUS
<1> HIDE DEF a, e
<1>3. { <<x[1], x[2]>> : x \in ToSet(a) }
        = { x \in Tasks \X (1..Count) : ro[x[1]] = r /\ x[2] <= e[x[1]] }
  <2>1. { <<x[1], x[2]>> : x \in ToSet(a) } = { <<x[1], x[2]>> : x \in ToSet(s) } \cup {<<t, d[t] + 1>>}
    BY <1>1
  <2>2. { x \in Tasks \X (1..Count) : ro[x[1]] = r /\ x[2] <= e[x[1]] }
          = { x \in Tasks \X (1..Count) : ro[x[1]] = r /\ x[2] <= d[x[1]] } \cup {<<t, d[t] + 1>>}
    <3>1. ASSUME NEW u \in Tasks, NEW k \in 1..Count
          PROVE  k <= e[u] <=> k <= d[u] \/ (u = t /\ k = d[t] + 1)
      BY <1>2
    <3>2. <<t, d[t] + 1>> \in Tasks \X (1..Count)
      OBVIOUS
    <3> QED  BY <3>1, <3>2
  <2> QED  BY <2>1, <2>2 DEF Each
<1>4. ASSUME NEW i \in 1..n, s[i][1] = t PROVE s[i][2] < d[t] + 1
  <2>1. s[i] \in ToSet(s)
    BY <1>4, ToSetIsRange DEF Range
  <2>2. <<t, s[i][2]>> \in { x \in Tasks \X (1..Count) : ro[x[1]] = r /\ x[2] <= d[x[1]] }
    BY <1>4, <2>1 DEF Each
  <2>3. s[i][2] \in 1..Count /\ s[i][2] <= d[t]
    BY <2>2
  <2> QED  BY <2>3
<1>5. ASSUME NEW i \in 1..n + 1, NEW j \in 1..n + 1, i < j, a[i][1] = a[j][1] PROVE a[i][2] < a[j][2]
  <2>1. i \in 1..n
    BY <1>1, <1>5
  <2>2. CASE j \in 1..n
    BY <1>1, <1>5, <2>1, <2>2 DEF Each
  <2>3. CASE j = n + 1
    BY <1>1, <1>4, <1>5, <2>1, <2>3
  <2> QED  BY <1>1, <2>2, <2>3
<1>6. Each(a, r, ro, e)
  BY <1>1, <1>3, <1>5 DEF Each
<1> QED  BY <1>6 DEF a, e

-----------------------------------------------------------------------------
(* A read of /dev/urandom returns, or a yield is over.                     *)
LEMMA RandomIInv ==
    ASSUME IoAssumption, IInv, NEW w \in Workers, NEW t \in Tasks, Random(w, t) PROVE IInv'
<1>1. /\ running[w] = t /\ pc[t] = "try" /\ op[t] \in {"random", "relax"}
      /\ pc' = [pc EXCEPT ![t] = "code"] /\ result' = [result EXCEPT ![t] = "ok"]
      /\ UNCHANGED <<role, module, queue, running, op, done, call, failed, errnoVars, kernelVars>>
  BY DEF Random, Trying, At, Answers, Goes, schedVars
<1>2. /\ pc'[t] = "code" /\ result'[t] = "ok"
      /\ \A u \in Tasks \ {t} : pc'[u] = pc[u] /\ result'[u] = result[u]
  BY <1>1 DEF IInv, TypeOK
<1>3. Role(t) /\ Sleeping(t) /\ Client(t) /\ call[t] = "none"
  BY <1>1, Current
<1>4. Hands'
  BY <1>1, StayHands
<1>5. TypeOK'
  BY <1>1 DEF IInv, TypeOK, errnoVars, kernelVars, pipeVars, netVars, timeVars
<1>6. Role(t)' /\ Sleeping(t)' /\ Client(t)'
  BY <1>1, <1>2, <1>3 DEF Role, InCall, Sleeping, Client, Connected, kernelVars, netVars
<1>7. \A u \in Tasks : Role(u)' /\ Sleeping(u)' /\ Client(u)'
  BY <1>1, <1>2, <1>6, OneActs DEF kernelVars, netVars, timeVars
<1>8. Pipe'
  BY <1>1, <1>2, SamePipe DEF kernelVars, pipeVars
<1>9. Delivered'
  BY <1>1, SameDelivered DEF kernelVars, pipeVars, netVars
<1> QED  BY <1>4, <1>5, <1>7, <1>8, <1>9 DEF IInv

(* A chunk goes into the pipe, or SIGPIPE ends the process.                *)
LEMMA WriteIInv ==
    ASSUME IoAssumption, IInv, NEW w \in Workers, NEW t \in Tasks, Write(w, t) PROVE IInv'
<1>1. /\ running[w] = t /\ pc[t] = "try" /\ op[t] = "write" /\ Ready(t)
      /\ UNCHANGED <<role, module, queue, running, op, call, failed, errnoVars, received, readers, writers,
                     netVars, timeVars>>
  BY DEF Write, Trying, At, schedVars
<1>2. Role(t) /\ Sleeping(t) /\ Client(t) /\ call[t] = "none" /\ role[t] \in Roles
  BY <1>1, Current
<1>3. role[t] = "producer" /\ done[t] < Count /\ done[t] \in Nat
  BY <1>1, <1>2 DEF Role, InCall, Roles, IInv, TypeOK
<1>4. CASE readers = {}
  <2>1. killed' = TRUE /\ UNCHANGED <<pipe, pc, result, done>>
    BY <1>4 DEF Write
  <2>2. TypeOK'
    BY <1>1, <2>1 DEF IInv, TypeOK, errnoVars, netVars, timeVars
  <2>3. Hands' /\ \A u \in Tasks : Role(u)' /\ Sleeping(u)' /\ Client(u)'
    BY <1>1, <2>1
       DEF IInv, Hands, Role, InCall, Sleeping, Client, Connected, netVars, timeVars
  <2>4. Pipe' /\ Delivered'
    BY <1>1, <2>1, SameDelivered DEF IInv, Pipe, WithRole, netVars
  <2> QED  BY <2>2, <2>3, <2>4 DEF IInv
<1>5. CASE readers # {}
  <2>1. /\ pipe' = Append(pipe, <<t, done[t] + 1>>)
        /\ pc' = [pc EXCEPT ![t] = "code"] /\ result' = [result EXCEPT ![t] = "ok"]
        /\ done' = [done EXCEPT ![t] = @ + 1] /\ UNCHANGED killed
    BY <1>5 DEF Write, Succeeds, Answers, Goes
  <2>2. /\ pc'[t] = "code" /\ result'[t] = "ok" /\ done'[t] = done[t] + 1
        /\ \A u \in Tasks \ {t} : pc'[u] = pc[u] /\ result'[u] = result[u] /\ done'[u] = done[u]
    BY <2>1 DEF IInv, TypeOK
  <2>3. Hands'
    BY <1>1, <2>1, StayHands
  <2>4. /\ <<t, done[t] + 1>> \in Tasks \X (1..Count)
        /\ pipe \in Seq(Tasks \X (1..Count)) /\ received \in Seq(Tasks \X (1..Count))
        /\ Len(pipe) < Capacity
    BY <1>1, <1>3, <1>5 DEF Ready, IInv, TypeOK, IoAssumption
  <2>5. pipe' \in Seq(Tasks \X (1..Count)) /\ Len(pipe') <= Capacity
    BY <2>1, <2>4 DEF IoAssumption
  <2>6. done' \in [Tasks -> Nat]
        /\ \A u \in Tasks : done'[u] <= (IF role'[u] = "sleeper" THEN Len(Delays) ELSE Count)
    <3>1. done \in [Tasks -> Nat]
          /\ \A u \in Tasks : done[u] <= (IF role[u] = "sleeper" THEN Len(Delays) ELSE Count)
      BY DEF IInv, TypeOK
    <3>2. done' \in [Tasks -> Nat] /\ done'[t] <= Count /\ role[t] # "sleeper"
      BY <1>1, <1>3, <2>1, <2>2, <3>1 DEF IoAssumption
    <3> QED  BY <1>1, <2>1, <2>2, <3>1, <3>2
  <2>7. TypeOK'
    BY <1>1, <2>1, <2>5, <2>6 DEF IInv, TypeOK, errnoVars, netVars, timeVars
  <2>8. Role(t)' /\ Sleeping(t)' /\ Client(t)'
    BY <1>1, <1>2, <1>3, <2>2 DEF Role, InCall, Sleeping, Client, Connected, netVars
  <2>9. \A u \in Tasks : Role(u)' /\ Sleeping(u)' /\ Client(u)'
    BY <1>1, <2>2, <2>8, OneActs DEF netVars, timeVars
  <2>10. Pipe'
    <3>1. \A u \in Tasks : result[u] # "eof" /\ result'[u] # "eof"
      BY <1>1, <1>3, <2>2 DEF IInv, Pipe, WithRole
    <3>2. \A u \in Tasks : pc'[u] = "done" <=> pc[u] = "done"
      BY <1>1, <2>2
    <3>3. \A r : WithRole(r)' = WithRole(r) /\ WithRole(r) \subseteq Tasks
      BY <1>1 DEF WithRole
    <3>4. /\ readers' = { u \in WithRole("consumer")' : pc'[u] # "done" }
          /\ writers' = { u \in WithRole("producer")' : pc'[u] # "done" }
      BY <1>1, <3>2, <3>3 DEF IInv, Pipe
    <3> QED  BY <1>1, <2>2, <3>1, <3>2, <3>4 DEF IInv, Pipe
  <2>11. Delivered'
    <3>1. received' \o pipe' = Append(received \o pipe, <<t, done[t] + 1>>)
      BY SMTT(30), <1>1, <2>1, <2>4, JoinedAppended
    <3>2. received \o pipe \in Seq(Tasks \X (1..Count))
      BY <2>4, ConcatProperties
    <3>3. Each(received \o pipe, "producer", role, done)
      BY DEF IInv, Delivered, EachOnce, Each
    <3>4. done \in [Tasks -> Nat] /\ Count \in Nat
      BY DEF IInv, TypeOK, IoAssumption
    <3>5. Each(Append(received \o pipe, <<t, done[t] + 1>>), "producer", role,
               [done EXCEPT ![t] = @ + 1])
      BY <1>3, <2>4, <3>2, <3>3, <3>4, OneMore
    <3>6. EachOnce(received \o pipe, "producer")'
      <4>1. Each(received' \o pipe', "producer", role', done')
        BY <1>1, <2>1, <3>1, <3>5
      <4> QED  BY <4>1 DEF EachOnce, Each
    <3>7. { m \in Tasks \X (1..Count) : role'[m[1]] = "acceptor" /\ m[2] <= done'[m[1]] }
            = { m \in Tasks \X (1..Count) : role[m[1]] = "acceptor" /\ m[2] <= done[m[1]] }
      BY <1>1, <1>3, <2>2
    <3>8. EachOnce(accepted, "acceptor")'
      BY <1>1, <3>7 DEF IInv, Delivered, EachOnce, netVars
    <3> QED  BY <1>1, <3>6, <3>8 DEF IInv, Delivered, netVars
  <2> QED  BY <2>3, <2>7, <2>9, <2>10, <2>11 DEF IInv
<1> QED  BY <1>4, <1>5

(* A chunk is read, or the end of the file.                                *)
LEMMA ReadIInv ==
    ASSUME IoAssumption, IInv, NEW w \in Workers, NEW t \in Tasks, Read(w, t) PROVE IInv'
<1>1. /\ running[w] = t /\ pc[t] = "try" /\ op[t] = "read" /\ Ready(t)
      /\ UNCHANGED <<role, module, queue, running, op, done, call, failed, errnoVars, readers, writers, killed,
                     netVars, timeVars>>
  BY DEF Read, Trying, At, schedVars
<1>2. Role(t) /\ Sleeping(t) /\ Client(t) /\ call[t] = "none" /\ role[t] \in Roles
  BY <1>1, Current
<1>3. role[t] = "consumer"
  BY <1>1, <1>2 DEF Role, Roles
<1>4. PICK r \in {"ok", "eof"} :
        /\ pc' = [pc EXCEPT ![t] = "code"] /\ result' = [result EXCEPT ![t] = r]
        /\ r = "eof" => pipe = <<>> /\ writers = {} /\ UNCHANGED <<pipe, received>>
        /\ r = "ok" => pipe # <<>> /\ pipe' = Tail(pipe) /\ received' = Append(received, Head(pipe))
  BY <1>1 DEF Read, Ready, Answers, Goes
<1>5. /\ pc'[t] = "code" /\ result'[t] = r
      /\ \A u \in Tasks \ {t} : pc'[u] = pc[u] /\ result'[u] = result[u]
  BY <1>4 DEF IInv, TypeOK
<1>6. Hands'
  BY <1>1, <1>4, StayHands
<1>7. /\ pipe \in Seq(Tasks \X (1..Count)) /\ received \in Seq(Tasks \X (1..Count))
      /\ Len(pipe) <= Capacity /\ Capacity \in Nat
  BY DEF IInv, TypeOK, IoAssumption
<1>8. /\ pipe' \in Seq(Tasks \X (1..Count)) /\ received' \in Seq(Tasks \X (1..Count))
      /\ Len(pipe') <= Capacity /\ received' \o pipe' = received \o pipe
  <2>1. CASE r = "eof"
    BY <1>4, <1>7, <2>1
  <2>2. CASE r = "ok"
    <3>1. /\ Head(pipe) \in Tasks \X (1..Count) /\ Tail(pipe) \in Seq(Tasks \X (1..Count))
          /\ Len(Tail(pipe)) = Len(pipe) - 1
      BY <1>4, <1>7, <2>2, HeadTailProperties
    <3>2. Len(pipe) \in Nat
      BY <1>7
    <3>3. Append(received, Head(pipe)) \in Seq(Tasks \X (1..Count))
      BY <1>7, <3>1, AppendProperties
    <3>4. Append(received, Head(pipe)) \o Tail(pipe) = received \o pipe
      BY <1>4, <1>7, <2>2, PassedOn
    <3>5. pipe' = Tail(pipe) /\ received' = Append(received, Head(pipe))
      BY <1>4, <2>2
    <3>6. Len(Tail(pipe)) <= Capacity
      BY <1>7, <3>1, <3>2
    <3> QED  BY <3>1, <3>3, <3>4, <3>5, <3>6
  <2> QED  BY <2>1, <2>2
<1>9. TypeOK'
  BY <1>1, <1>4, <1>8 DEF IInv, TypeOK, errnoVars, netVars, timeVars
<1>10. Role(t)' /\ Sleeping(t)' /\ Client(t)'
  BY <1>1, <1>2, <1>3, <1>5 DEF Role, InCall, Sleeping, Client, Connected, netVars
<1>11. \A u \in Tasks : Role(u)' /\ Sleeping(u)' /\ Client(u)'
  BY <1>1, <1>5, <1>10, OneActs DEF netVars, timeVars
<1>12. Pipe'
  <2>1. \A u \in Tasks : pc'[u] = "done" <=> pc[u] = "done"
    BY <1>1, <1>5
  <2>2. \A x : WithRole(x)' = WithRole(x) /\ WithRole(x) \subseteq Tasks
    BY <1>1 DEF WithRole
  <2>3. /\ readers' = { u \in WithRole("consumer")' : pc'[u] # "done" }
        /\ writers' = { u \in WithRole("producer")' : pc'[u] # "done" }
    BY <1>1, <2>1, <2>2 DEF IInv, Pipe
  <2>4. \A u \in Tasks : pc'[u] = "done" =>
          /\ role'[u] = "consumer" => result'[u] # "ok"
          /\ role'[u] = "producer" => result'[u] # "ok" \/ done'[u] = Count
    BY <1>1, <1>5 DEF IInv, Pipe
  <2>5. ASSUME NEW u \in Tasks, result'[u] = "eof"
        PROVE  pipe' = <<>> /\ \A p \in WithRole("producer")' : pc'[p] = "done"
    <3>1. pipe = <<>> /\ \A p \in WithRole("producer") : pc[p] = "done"
      BY <1>4, <1>5, <2>2, <2>5 DEF IInv, Pipe
    <3> QED  BY <1>4, <2>1, <2>2, <3>1
  <2> QED  BY <2>3, <2>4, <2>5 DEF Pipe
<1>13. Delivered'
  <2>1. { m \in Tasks \X (1..Count) : role'[m[1]] = "producer" /\ m[2] <= done'[m[1]] }
          = { m \in Tasks \X (1..Count) : role[m[1]] = "producer" /\ m[2] <= done[m[1]] }
    BY <1>1
  <2>2. EachOnce(received \o pipe, "producer")'
    <3>1. Each(received' \o pipe', "producer", role', done')
      BY <1>1, <1>8 DEF IInv, Delivered, EachOnce, Each
    <3> QED  BY <3>1 DEF EachOnce, Each
  <2>3. EachOnce(accepted, "acceptor")'
    BY <1>1 DEF IInv, Delivered, EachOnce, netVars
  <2> QED  BY <1>1, <2>2, <2>3 DEF IInv, Delivered, netVars
<1> QED  BY <1>6, <1>9, <1>11, <1>12, <1>13 DEF IInv

(* A connection is accepted.                                               *)
LEMMA AcceptIInv ==
    ASSUME IoAssumption, IInv, NEW w \in Workers, NEW t \in Tasks, Accept(w, t) PROVE IInv'
<1>1. PICK c \in backlog :
        /\ backlog' = backlog \ {c} /\ accepted' = Append(accepted, <<t, done[t] + 1, c>>)
  BY DEF Accept
<1>2. /\ running[w] = t /\ pc[t] = "try" /\ op[t] = "accept"
      /\ pc' = [pc EXCEPT ![t] = "code"] /\ result' = [result EXCEPT ![t] = "ok"]
      /\ done' = [done EXCEPT ![t] = @ + 1]
      /\ UNCHANGED <<role, module, queue, running, op, call, failed, errnoVars, pending, pipeVars, timeVars>>
  BY DEF Accept, Trying, At, Succeeds, Answers, Goes, schedVars
<1>3. /\ pc'[t] = "code" /\ result'[t] = "ok" /\ done'[t] = done[t] + 1
      /\ \A u \in Tasks \ {t} : pc'[u] = pc[u] /\ result'[u] = result[u] /\ done'[u] = done[u]
  BY <1>2 DEF IInv, TypeOK
<1>4. Role(t) /\ Sleeping(t) /\ Client(t) /\ call[t] = "none" /\ role[t] \in Roles
  BY <1>2, Current
<1>5. role[t] = "acceptor" /\ done[t] < Count /\ done[t] \in Nat /\ Count \in Nat
  BY <1>2, <1>4 DEF Role, InCall, Roles, IInv, TypeOK, IoAssumption
<1>6. /\ c \in Tasks /\ Client(c)
      /\ <<t, done[t] + 1, c>> \in Tasks \X (1..Count) \X Tasks
      /\ accepted \in Seq(Tasks \X (1..Count) \X Tasks)
  BY <1>5 DEF IInv, TypeOK
<1>7. /\ accepted' \in Seq(Tasks \X (1..Count) \X Tasks) /\ Len(accepted') = Len(accepted) + 1
      /\ \A i \in 1..Len(accepted) : accepted'[i] = accepted[i]
      /\ accepted'[Len(accepted) + 1] = <<t, done[t] + 1, c>>
      /\ ToSet(accepted') = ToSet(accepted) \cup {<<t, done[t] + 1, c>>}
      /\ Len(accepted) \in Nat
  <2> DEFINE S == Tasks \X (1..Count) \X Tasks
  <2>0. <<t, done[t] + 1, c>> \in S /\ accepted \in Seq(S)
    BY <1>6
  <2> HIDE DEF S
  <2>1. PICK m \in S : m = <<t, done[t] + 1, c>>
    BY <2>0
  <2>2. accepted' = Append(accepted, m)
    BY <1>1, <2>1
  <2>3. /\ Append(accepted, m) \in Seq(S)
        /\ Len(Append(accepted, m)) = Len(accepted) + 1
        /\ \A i \in 1..Len(accepted) : Append(accepted, m)[i] = accepted[i]
        /\ Append(accepted, m)[Len(accepted) + 1] = m
        /\ Range(Append(accepted, m)) = Range(accepted) \cup {m}
    BY SMTT(30), <2>0, <2>1, AppendedRange
  <2>4. Len(accepted) \in Nat
    BY <2>0
  <2> QED  BY <2>1, <2>2, <2>3, <2>4, ToSetIsRange DEF S
<1>8. Connected' = Connected \cup {c}
  BY <1>7 DEF Connected
<1>9. Hands'
  BY <1>2, StayHands
<1>10. TypeOK'
  <2>1. done' \in [Tasks -> Nat]
    BY <1>2, <1>5 DEF IInv, TypeOK
  <2>2. \A u \in Tasks : done'[u] <= (IF role'[u] = "sleeper" THEN Len(Delays) ELSE Count)
    <3>1. done \in [Tasks -> Nat] /\ done'[t] <= Count /\ role[t] # "sleeper"
          /\ \A u \in Tasks : done[u] <= (IF role[u] = "sleeper" THEN Len(Delays) ELSE Count)
      BY <1>2, <1>3, <1>5 DEF IInv, TypeOK
    <3>2. \A u \in Tasks \ {t} : done'[u] = done[u]
      BY <1>2, <3>1
    <3> QED  BY <1>2, <3>1, <3>2
  <2> QED  BY <1>1, <1>2, <1>7, <2>1, <2>2 DEF IInv, TypeOK, errnoVars, pipeVars, timeVars
<1>11. Role(t)' /\ Sleeping(t)'
  BY <1>2, <1>3, <1>4, <1>5 DEF Role, InCall, Sleeping
<1>12. \A u \in Tasks : Role(u)' /\ Sleeping(u)'
  BY <1>2, <1>3, <1>11, OneCalls DEF timeVars
<1>13. ASSUME NEW u \in Tasks PROVE Client(u)'
  <2>1. Client(u) /\ Client(c) /\ (u = c \/ u \notin {c})
    BY <1>6 DEF IInv
  <2>2. u # t \/ u \notin pending \cup backlog \cup Connected
    BY <1>4, <1>5 DEF Client
  <2> QED  BY <1>1, <1>2, <1>3, <1>5, <1>8, <2>1, <2>2 DEF Client
<1>14. Pipe'
  BY <1>2, <1>3, SamePipe DEF pipeVars
<1>15. Delivered'
  <2>1. Each(accepted, "acceptor", role, done)
    BY DEF IInv, Delivered, EachOnce, Each
  <2>2. done \in [Tasks -> Nat] /\ Count \in Nat
    BY DEF IInv, TypeOK, IoAssumption
  <2>3. Each(Append(accepted, <<t, done[t] + 1, c>>), "acceptor", role, [done EXCEPT ![t] = @ + 1])
    BY <1>5, <1>6, <2>1, <2>2, OneMore
  <2>4. EachOnce(accepted, "acceptor")'
    <3>1. Each(accepted', "acceptor", role', done')
      BY <1>1, <1>2, <2>3
    <3> QED  BY <3>1 DEF EachOnce, Each
  <2>5. { m \in Tasks \X (1..Count) : role'[m[1]] = "producer" /\ m[2] <= done'[m[1]] }
          = { m \in Tasks \X (1..Count) : role[m[1]] = "producer" /\ m[2] <= done[m[1]] }
    BY <1>2, <1>3, <1>5
  <2>6. EachOnce(received \o pipe, "producer")'
    <3>1. (received \o pipe)' = received \o pipe
      BY <1>2 DEF pipeVars
    <3>2. EachOnce(received \o pipe, "producer")
      BY DEF IInv, Delivered
    <3> QED  BY <2>5, <3>1, <3>2 DEF EachOnce
  <2>7. \A i \in 1..Len(accepted) : accepted[i][3] # c
    <3>1. c \notin Connected
      BY <1>6 DEF Client
    <3>2. \A i \in 1..Len(accepted) : accepted[i] \in ToSet(accepted)
      BY <1>6, ToSetIsRange DEF Range
    <3> QED  BY <3>1, <3>2 DEF Connected
  <2>8. \A i, j \in 1..Len(accepted') : accepted'[i][3] = accepted'[j][3] => i = j
    <3> SUFFICES ASSUME NEW i \in 1..Len(accepted) + 1, NEW j \in 1..Len(accepted) + 1,
                        accepted'[i][3] = accepted'[j][3]
                 PROVE  i = j
      BY <1>7
    <3>1. \A k \in 1..Len(accepted) : accepted'[k][3] # c
      BY <1>7, <2>7
    <3>2. accepted'[Len(accepted) + 1][3] = c
      BY <1>7
    <3>3. CASE i \in 1..Len(accepted) /\ j \in 1..Len(accepted)
      BY <1>7, <3>3 DEF IInv, Delivered
    <3>4. CASE i = Len(accepted) + 1 \/ j = Len(accepted) + 1
      BY <1>7, <3>1, <3>2, <3>4
    <3> QED  BY <1>7, <3>3, <3>4
  <2> QED  BY <2>4, <2>6, <2>8 DEF Delivered
<1> QED  BY <1>9, <1>10, <1>12, <1>13, <1>14, <1>15 DEF IInv

(* A connection is made, or begun and reported as a failure.               *)
LEMMA ConnectIInv ==
    ASSUME IoAssumption, IInv, NEW w \in Workers, NEW t \in Tasks, Connect(w, t) PROVE IInv'
<1>1. PICK r \in {"ok", "error"} :
        /\ pc' = [pc EXCEPT ![t] = "code"] /\ result' = [result EXCEPT ![t] = r]
        /\ \/ backlog' = backlog \cup {t} /\ UNCHANGED pending
           \/ pending' = pending \cup {t} /\ UNCHANGED backlog
  BY DEF Connect, Answers, Goes
<1>2. /\ running[w] = t /\ pc[t] = "try" /\ op[t] = "connect"
      /\ UNCHANGED <<role, module, queue, running, op, done, call, failed, errnoVars, accepted, pipeVars, timeVars>>
  BY DEF Connect, Trying, At, schedVars
<1>3. /\ pc'[t] = "code" /\ result'[t] = r
      /\ \A u \in Tasks \ {t} : pc'[u] = pc[u] /\ result'[u] = result[u]
  BY <1>1, <1>2 DEF IInv, TypeOK
<1>4. Role(t) /\ Sleeping(t) /\ Client(t) /\ call[t] = "none" /\ role[t] \in Roles
  BY <1>2, Current
<1>5. role[t] = "client" /\ t \notin pending /\ t \notin backlog /\ t \notin Connected
  BY <1>2, <1>4 DEF Role, Roles, Client
<1>6. Hands'
  BY <1>1, <1>2, StayHands
<1>7. TypeOK'
  BY <1>1, <1>2 DEF IInv, TypeOK, errnoVars, pipeVars, timeVars
<1>8. Role(t)' /\ Sleeping(t)'
  BY <1>2, <1>3, <1>4, <1>5 DEF Role, InCall, Sleeping
<1>9. \A u \in Tasks : Role(u)' /\ Sleeping(u)'
  BY <1>2, <1>3, <1>8, OneCalls DEF timeVars
<1>10. ASSUME NEW u \in Tasks PROVE Client(u)'
  <2>1. Client(u) /\ Connected' = Connected
    BY <1>2 DEF IInv, Connected
  <2> QED  BY <1>1, <1>2, <1>3, <1>5, <2>1 DEF Client
<1>11. Pipe'
  BY <1>2, <1>3, SamePipe DEF pipeVars
<1>12. Delivered'
  BY <1>2, SameDelivered DEF pipeVars
<1> QED  BY <1>6, <1>7, <1>9, <1>10, <1>11, <1>12 DEF IInv

(* getaddrinfoA begins.                                                    *)
LEMMA LookupCallIInv ==
    ASSUME IoAssumption, IInv, NEW w \in Workers, NEW t \in Tasks, LookupCall(w, t) PROVE IInv'
<1>1. /\ running[w] = t /\ pc[t] = "code" /\ MayCall(t, "lookup")
      /\ op' = [op EXCEPT ![t] = "lookup"] /\ pc' = [pc EXCEPT ![t] = "try"]
      /\ UNCHANGED <<role, module, queue, running, result, done, call, failed, errnoVars, kernelVars>>
  BY DEF LookupCall, At, Goes, schedVars
<1>2. /\ pc'[t] = "try" /\ op'[t] = "lookup"
      /\ \A u \in Tasks \ {t} : pc'[u] = pc[u] /\ op'[u] = op[u]
  BY <1>1 DEF IInv, TypeOK
<1>3. Role(t) /\ Sleeping(t) /\ Client(t) /\ call[t] = "none"
  BY <1>1, Current
<1>4. role[t] = "client" /\ op[t] = "start" /\ result[t] = "ok"
  BY <1>1 DEF MayCall
<1>5. Hands'
  BY <1>1, StayHands
<1>6. TypeOK'
  BY <1>1 DEF IInv, TypeOK, Ops, errnoVars, kernelVars, pipeVars, netVars, timeVars
<1>7. Role(t)' /\ Sleeping(t)' /\ Client(t)'
  BY <1>1, <1>2, <1>3, <1>4
     DEF Role, InCall, Sleeping, Client, Connected, kernelVars, netVars
<1>8. \A u \in Tasks : Role(u)' /\ Sleeping(u)' /\ Client(u)'
  BY <1>1, <1>2, <1>7, OneActs DEF kernelVars, netVars, timeVars
<1>9. Pipe'
  BY <1>1, <1>2, <1>4, SamePipe DEF kernelVars, pipeVars
<1>10. Delivered'
  BY <1>1, SameDelivered DEF kernelVars, pipeVars, netVars
<1> QED  BY <1>5, <1>6, <1>8, <1>9, <1>10 DEF IInv

(* It returns, or yields and tries again.                                  *)
LEMMA LookupIInv ==
    ASSUME IoAssumption, IInv, NEW w \in Workers, NEW t \in Tasks, Lookup(w, t) PROVE IInv'
<1>1. /\ running[w] = t /\ pc[t] = "try" /\ op[t] = "lookup"
      /\ UNCHANGED <<role, module, op, done, call, failed, errnoVars, kernelVars>>
  BY DEF Lookup, Trying, At
<1>2. Role(t) /\ Sleeping(t) /\ Client(t) /\ call[t] = "none" /\ role[t] \in Roles
  BY <1>1, Current
<1>3. role[t] = "client" /\ result[t] = "ok"
  BY <1>1, <1>2 DEF Role, Roles, InCall
<1>4. PICK x \in {"code", "try"}, r \in {"ok", "error"} :
        /\ pc' = [pc EXCEPT ![t] = x] /\ result' = [result EXCEPT ![t] = r]
        /\ x = "code" => UNCHANGED <<queue, running>>
        /\ x = "try" => Leaves(w) /\ queue' = Append(queue, t) /\ r = "ok"
  <2>1. CASE \E r \in {"ok", "error"} : Answers(t, r) /\ UNCHANGED schedVars
    BY <2>1 DEF Answers, Goes, schedVars
  <2>2. CASE Leaves(w) /\ queue' = Append(queue, t) /\ UNCHANGED <<pc, result>>
    <3>1. pc = [pc EXCEPT ![t] = "try"] /\ result = [result EXCEPT ![t] = "ok"]
      BY <1>1, <1>3 DEF IInv, TypeOK
    <3> QED  BY <2>2, <3>1
  <2> QED  BY <2>1, <2>2 DEF Lookup
<1>5. /\ pc'[t] = x /\ result'[t] = r
      /\ \A u \in Tasks \ {t} : pc'[u] = pc[u] /\ result'[u] = result[u]
  BY <1>4 DEF IInv, TypeOK
<1>6. Hands' /\ queue' \in Seq(Tasks) /\ running' \in [Workers -> Tasks \cup {NoTask}]
  <2>1. CASE x = "code"
    BY <1>1, <1>4, <2>1, StayHands DEF IInv, TypeOK
  <2>2. CASE x = "try"
    BY <1>1, <1>4, <2>2, YieldHands DEF IInv, TypeOK, Leaves
  <2> QED  BY <2>1, <2>2
<1>7. TypeOK'
  BY <1>1, <1>4, <1>6 DEF IInv, TypeOK, errnoVars, kernelVars, pipeVars, netVars, timeVars
<1>8. Role(t)' /\ Sleeping(t)' /\ Client(t)'
  BY <1>1, <1>2, <1>3, <1>4, <1>5
     DEF Role, InCall, Sleeping, Client, Connected, kernelVars, netVars
<1>9. \A u \in Tasks : Role(u)' /\ Sleeping(u)' /\ Client(u)'
  BY <1>1, <1>5, <1>8, OneActs DEF kernelVars, netVars, timeVars
<1>10. Pipe'
  BY <1>1, <1>5, SamePipe DEF kernelVars, pipeVars
<1>11. Delivered'
  BY <1>1, SameDelivered DEF kernelVars, pipeVars, netVars
<1> QED  BY <1>6, <1>7, <1>9, <1>10, <1>11 DEF IInv

(* sleepA_ms sets the timer and awaits it.                                 *)
LEMMA SleepIInv ==
    ASSUME IoAssumption, IInv, NEW w \in Workers, NEW t \in Tasks, Sleep(w, t) PROVE IInv'
<1> DEFINE ms == Delays[done[t] + 1]
<1>1. /\ running[w] = t /\ pc[t] = "code" /\ MayCall(t, "sleep")
      /\ op' = [op EXCEPT ![t] = "sleep"] /\ slept' = [slept EXCEPT ![t] = 0]
      /\ UNCHANGED <<role, module, queue, done, errnoVars, pipeVars, netVars>>
  BY DEF Sleep, At
<1>2. Role(t) /\ Client(t) /\ call[t] = "none"
  BY <1>1, Current
<1>3. role[t] = "sleeper" /\ done[t] < Len(Delays) /\ result[t] = "ok" /\ done[t] \in Nat
  BY <1>1 DEF MayCall, IInv, TypeOK
<1>4. ms \in Nat
  <2>1. Delays \in Seq(Nat) /\ done[t] + 1 \in 1..Len(Delays)
    BY <1>3 DEF IoAssumption
  <2> QED  BY <2>1
<1>5. PICK x \in {"code", "await"} :
        /\ pc' = [pc EXCEPT ![t] = x]
        /\ failed' \in {failed, failed \cup {t}}
        /\ timer' \in {timer, [timer EXCEPT ![t] = ms]}
        /\ x = "code" => result' = [result EXCEPT ![t] = "error"] /\ UNCHANGED <<running, call>>
        /\ x = "await" => /\ Leaves(w) /\ call' = [call EXCEPT ![t] = "waiting"]
                          /\ timer' = [timer EXCEPT ![t] = ms] /\ UNCHANGED result
  BY DEF Sleep, Suspend, Answers, Armed, Goes, Io!Await, Io!Move
<1> HIDE DEF ms
<1>6. /\ pc'[t] = x /\ op'[t] = "sleep" /\ slept'[t] = 0
      /\ result'[t] \in {"ok", "error"} /\ (x = "await" => result'[t] = "ok")
      /\ call'[t] = (IF x = "await" THEN "waiting" ELSE "none")
      /\ x = "await" => timer'[t] = ms
      /\ \A u \in Tasks \ {t} :
           /\ pc'[u] = pc[u] /\ op'[u] = op[u] /\ slept'[u] = slept[u]
           /\ result'[u] = result[u] /\ call'[u] = call[u] /\ timer'[u] = timer[u]
  BY <1>1, <1>2, <1>3, <1>5 DEF IInv, TypeOK
<1>7. Hands'
  <2>1. CASE x = "code"
    BY <1>1, <1>5, <2>1, StayHands
  <2>2. CASE x = "await"
    BY <1>1, <1>5, <2>2, LeaveHands
  <2> QED  BY <2>1, <2>2
<1>8. TypeOK'
  <2>1. /\ running' \in [Workers -> Tasks \cup {NoTask}]
        /\ call' \in [Tasks -> {"none", "waiting", "ready", "failed"}]
        /\ result' \in [Tasks -> {"ok", "eof", "error"}]
    BY <1>5 DEF IInv, TypeOK, Leaves
  <2>2. timer' \in [Tasks -> Int] /\ slept' \in [Tasks -> Nat]
    BY <1>1, <1>4, <1>5 DEF IInv, TypeOK
  <2>3. failed' \subseteq Tasks
    BY <1>5 DEF IInv, TypeOK
  <2> QED  BY <1>1, <1>5, <2>1, <2>2, <2>3 DEF IInv, TypeOK, Ops, errnoVars, pipeVars, netVars
<1>9. Role(t)' /\ Client(t)'
  BY <1>1, <1>2, <1>3, <1>6 DEF Role, InCall, Client, Connected, netVars
<1>10. Sleeping(t)'
  <2>1. done'[t] = done[t] /\ 0 + ms >= ms /\ ms >= 0
    BY <1>1, <1>4
  <2> QED  BY <1>6, <2>1 DEF Sleeping, ms
<1>11. \A u \in Tasks : Role(u)' /\ Sleeping(u)' /\ Client(u)'
  BY <1>1, <1>6, <1>9, <1>10, OneActs DEF netVars
<1>12. Pipe'
  BY <1>1, <1>6, SamePipe DEF pipeVars
<1>13. Delivered'
  BY <1>1, SameDelivered DEF pipeVars, netVars
<1> QED  BY <1>7, <1>8, <1>11, <1>12, <1>13 DEF IInv

(* The task ends.                                                          *)
LEMMA FinishIInv ==
    ASSUME IoAssumption, IInv, NEW w \in Workers, NEW t \in Tasks, Finish(w, t) PROVE IInv'
<1>1. /\ running[w] = t /\ pc[t] = "code" /\ \A o \in Ops : ~MayCall(t, o)
      /\ pc' = [pc EXCEPT ![t] = "done"] /\ Leaves(w)
      /\ readers' = readers \ {t} /\ writers' = writers \ {t}
      /\ UNCHANGED <<role, module, queue, op, result, done, call, failed, errnoVars, pipe, received, killed,
                     netVars, timeVars>>
  BY DEF Finish, Close, At, Goes
<1>2. pc'[t] = "done" /\ \A u \in Tasks \ {t} : pc'[u] = pc[u]
  BY <1>1 DEF IInv, TypeOK
<1>3. Role(t) /\ Sleeping(t) /\ Client(t) /\ call[t] = "none"
  BY <1>1, Current
<1>4. /\ role[t] = "consumer" => result[t] # "ok"
      /\ role[t] = "producer" => result[t] # "ok" \/ done[t] = Count
  <2>1. role[t] = "producer" => done[t] \in Nat /\ done[t] <= Count
    BY DEF IInv, TypeOK
  <2> QED  BY <1>1, <2>1 DEF MayCall, Unfinished, Ops, IoAssumption
<1>5. Hands'
  BY <1>1, LeaveHands
<1>6. TypeOK'
  BY <1>1 DEF IInv, TypeOK, Leaves, errnoVars, netVars, timeVars
<1>7. Role(t)' /\ Sleeping(t)' /\ Client(t)'
  BY <1>1, <1>2, <1>3 DEF Role, InCall, Sleeping, Client, Connected, netVars
<1>8. \A u \in Tasks : Role(u)' /\ Sleeping(u)' /\ Client(u)'
  BY <1>1, <1>2, <1>7, OneActs DEF netVars, timeVars
<1>9. Pipe'
  <2>1. \A x : WithRole(x)' = WithRole(x) /\ WithRole(x) \subseteq Tasks
    BY <1>1 DEF WithRole
  <2>2. readers' = { u \in WithRole("consumer")' : pc'[u] # "done" }
    BY <1>1, <1>2, <2>1 DEF IInv, Pipe
  <2>3. writers' = { u \in WithRole("producer")' : pc'[u] # "done" }
    BY <1>1, <1>2, <2>1 DEF IInv, Pipe
  <2>4. \A u \in Tasks : pc'[u] = "done" =>
          /\ role'[u] = "consumer" => result'[u] # "ok"
          /\ role'[u] = "producer" => result'[u] # "ok" \/ done'[u] = Count
    BY <1>1, <1>2, <1>4 DEF IInv, Pipe
  <2>5. \A u \in Tasks : result'[u] = "eof" =>
          pipe' = <<>> /\ \A p \in WithRole("producer")' : pc'[p] = "done"
    BY <1>1, <1>2, <2>1 DEF IInv, Pipe
  <2> QED  BY <2>2, <2>3, <2>4, <2>5 DEF Pipe
<1>10. Delivered'
  BY <1>1, SameDelivered DEF netVars
<1> QED  BY <1>5, <1>6, <1>8, <1>9, <1>10 DEF IInv
-----------------------------------------------------------------------------
(* The task that a worker takes, and who has what after it.                *)
LEMMA Taken ==
    ASSUME IoAssumption, IInv, NEW w \in Workers, running[w] = NoTask, queue # <<>>,
           NEW t, t = Head(queue), NEW x \in {"code", "try"},
           running' = [running EXCEPT ![w] = t], queue' = Tail(queue),
           pc' = [pc EXCEPT ![t] = x], call' = [call EXCEPT ![t] = "none"]
    PROVE  /\ t \in Tasks /\ Role(t) /\ Sleeping(t) /\ Client(t) /\ role[t] \in Roles
           /\ queue' \in Seq(Tasks) /\ Hands'
<1>1. /\ queue' \in Seq(Tasks) /\ IsInjective(queue') /\ t \in ToSet(queue) /\ t \in Tasks
      /\ ToSet(queue') = ToSet(queue) \ {t}
  BY FirstGone DEF IInv, TypeOK, Hands
<1>2. t # NoTask /\ \A v \in Workers : running[v] # t
  BY <1>1 DEF IoAssumption, IInv, Hands
<1>3. /\ pc'[t] = x /\ call'[t] = "none" /\ running'[w] = t
      /\ \A u \in Tasks \ {t} : pc'[u] = pc[u] /\ call'[u] = call[u]
      /\ \A v \in Workers \ {w} : running'[v] = running[v]
      /\ running \in [Workers -> Tasks \cup {NoTask}]
  BY <1>1 DEF IInv, TypeOK
<1>4. \A v, y \in Workers : running'[v] = running'[y] /\ running'[v] # NoTask => v = y
  BY <1>2, <1>3 DEF IInv, Hands
<1>5. \A v \in Workers : running'[v] # NoTask =>
        running'[v] \notin ToSet(queue') /\ pc'[running'[v]] \in {"code", "try", "test"}
  BY <1>1, <1>2, <1>3 DEF IInv, Hands
<1>6. ToSet(queue) \subseteq Tasks
  BY ToSetIsRange DEF IInv, TypeOK, Range
<1>7. \A u \in ToSet(queue') :
        pc'[u] \in {"code", "try"} \/ (pc'[u] = "await" /\ call'[u] \in {"ready", "failed"})
  BY <1>1, <1>3, <1>6 DEF IInv, Hands
<1>8. \A u \in Tasks : call'[u] # "none" <=> pc'[u] = "await"
  BY <1>3 DEF IInv, Hands
<1>9. role[t] \in Roles
  <2>1. role \in [Tasks -> Roles]
    BY DEF IInv, TypeOK, IoAssumption
  <2> QED  BY <1>1, <2>1
<1>10. Hands'
  BY <1>1, <1>4, <1>5, <1>7, <1>8 DEF Hands
<1> QED  BY <1>1, <1>9, <1>10 DEF IInv

(* A worker goes on with a task.                                           *)
LEMMA ResumeIInv ==
    ASSUME IoAssumption, IInv, NEW w \in Workers, Resume(w) PROVE IInv'
<1>1. PICK t : /\ t = Head(queue) /\ running[w] = NoTask /\ queue # <<>>
               /\ running' = [running EXCEPT ![w] = t] /\ queue' = Tail(queue)
               /\ again' = (IF pc[t] = "code" THEN again
                            ELSE [x \in Workers |-> again[x] /\ x \notin Cleared(w, t)])
               /\ UNCHANGED <<role, module, op, home, kernelVars>>
               /\ \/ pc[t] # "await" /\ UNCHANGED <<pc, result, done, call, failed>>
                  \/ pc[t] = "await" /\ call[t] = "ready" /\ Io!Return(t) /\ Awaited(t) /\ UNCHANGED failed
                  \/ /\ pc[t] = "await" /\ call[t] = "failed" /\ Io!Return(t) /\ Answers(t, "error")
                     /\ failed' = failed \cup {t}
                     /\ UNCHANGED done
  BY DEF Resume
<1>2. t \in Tasks /\ t \in ToSet(queue)
  BY <1>1, FirstGone DEF IInv, TypeOK, Hands
<1>3. Role(t) /\ pc[t] \in {"code", "try", "await"} /\ (pc[t] # "await" => call[t] = "none")
  BY <1>2 DEF IInv, Hands
<1>4. PICK x \in {"code", "try"}, r \in {"ok", "eof", "error"} :
        /\ pc' = [pc EXCEPT ![t] = x] /\ result' = [result EXCEPT ![t] = r]
        /\ call' = [call EXCEPT ![t] = "none"]
        /\ pc[t] # "await" => x = pc[t] /\ r = result[t] /\ UNCHANGED <<done, failed>>
        /\ pc[t] = "await" /\ x = "code" /\ r = "ok" =>
             op[t] = "sleep" /\ call[t] = "ready" /\ done' = [done EXCEPT ![t] = @ + 1] /\ UNCHANGED failed
        /\ pc[t] = "await" /\ x = "code" /\ r # "ok" =>
             r = "error" /\ UNCHANGED done /\ failed' = failed \cup {t}
        /\ pc[t] = "await" /\ x = "try" =>
             r = "ok" /\ op[t] # "sleep" /\ UNCHANGED <<done, failed>>
  <2>1. CASE pc[t] # "await" /\ UNCHANGED <<pc, result, done, call, failed>>
    <3>1. /\ pc = [pc EXCEPT ![t] = pc[t]] /\ result = [result EXCEPT ![t] = result[t]]
          /\ call = [call EXCEPT ![t] = "none"]
          /\ pc[t] \in {"code", "try"} /\ result[t] \in {"ok", "eof", "error"}
      BY <1>2, <1>3, <2>1 DEF IInv, TypeOK
    <3> QED  BY <2>1, <3>1
  <2>2. CASE pc[t] = "await" /\ call[t] = "ready" /\ Io!Return(t) /\ Awaited(t) /\ UNCHANGED failed
    <3>1. call' = [call EXCEPT ![t] = "none"] /\ result[t] = "ok"
      BY <1>3, <2>2 DEF Io!Return, Io!Move, Role, InCall
    <3>2. CASE op[t] = "sleep"
      BY <2>2, <3>1, <3>2 DEF Awaited, Succeeds, Answers, Goes
    <3>3. CASE op[t] # "sleep"
      <4>1. result = [result EXCEPT ![t] = "ok"]
        BY <1>2, <3>1 DEF IInv, TypeOK
      <4> QED  BY <2>2, <3>1, <3>3, <4>1 DEF Awaited, Goes
    <3> QED  BY <3>2, <3>3
  <2>3. CASE /\ pc[t] = "await" /\ call[t] = "failed" /\ Io!Return(t) /\ Answers(t, "error")
             /\ failed' = failed \cup {t}
             /\ UNCHANGED done
    BY <2>3 DEF Io!Return, Io!Move, Answers, Goes
  <2> QED  BY <1>1, <2>1, <2>2, <2>3
<1>5. /\ Sleeping(t) /\ Client(t) /\ role[t] \in Roles /\ queue' \in Seq(Tasks) /\ Hands'
  BY <1>1, <1>4, Taken
<1>6. /\ pc'[t] = x /\ result'[t] = r /\ call'[t] = "none" /\ done[t] \in Nat
      /\ \A u \in Tasks \ {t} :
           pc'[u] = pc[u] /\ result'[u] = result[u] /\ call'[u] = call[u] /\ done'[u] = done[u]
  BY <1>2, <1>4 DEF IInv, TypeOK
<1>7. done' = done \/ (pc[t] = "await" /\ done'[t] = done[t] + 1 /\ role[t] = "sleeper"
                      /\ done[t] < Len(Delays) /\ done' = [done EXCEPT ![t] = @ + 1] /\ op[t] = "sleep")
  <2>1. op[t] = "sleep" => role[t] = "sleeper"
    BY <1>3, <1>5 DEF Role, Roles
  <2>2. op[t] = "sleep" /\ pc[t] = "await" => done[t] < Len(Delays)
    BY <1>3 DEF Role, InCall
  <2> QED  BY <1>2, <1>4, <2>1, <2>2 DEF IInv, TypeOK
<1>8. TypeOK'
  <2>1. done' \in [Tasks -> Nat]
    <3>1. CASE done' = done
      BY <3>1 DEF IInv, TypeOK
    <3>2. CASE done' = [done EXCEPT ![t] = @ + 1]
      BY <1>2, <3>2 DEF IInv, TypeOK
    <3> QED  BY <1>7, <3>1, <3>2
  <2>2. ASSUME NEW u \in Tasks PROVE done'[u] <= (IF role'[u] = "sleeper" THEN Len(Delays) ELSE Count)
    <3>1. Len(Delays) \in Nat /\ UNCHANGED role
      BY <1>1 DEF IoAssumption
    <3>2. done[u] <= (IF role[u] = "sleeper" THEN Len(Delays) ELSE Count)
      BY DEF IInv, TypeOK
    <3>3. CASE done' = done \/ u # t
      BY <1>6, <3>1, <3>2, <3>3
    <3>4. CASE done' # done /\ u = t
      BY <1>6, <1>7, <3>1, <3>4
    <3> QED  BY <3>3, <3>4
  <2>3. again' \in [Workers -> BOOLEAN]
    BY <1>1 DEF IInv, TypeOK
  <2>4. /\ pc' \in [Tasks -> {"code", "try", "test", "await", "done"}]
        /\ call' \in [Tasks -> {"none", "waiting", "ready", "failed"}]
        /\ result' \in [Tasks -> {"ok", "eof", "error"}]
    BY <1>2, <1>4 DEF IInv, TypeOK
  <2>5. failed' \subseteq Tasks /\ running' \in [Workers -> Tasks \cup {NoTask}]
    BY <1>1, <1>2, <1>4 DEF IInv, TypeOK
  <2> QED  BY <1>1, <1>5, <2>1, <2>2, <2>3, <2>4, <2>5
           DEF IInv, TypeOK, kernelVars, pipeVars, netVars, timeVars
<1>9. op[t] = "sleep" \/ op[t] \in {"write", "read", "accept"} \/ pc[t] # "await"
  BY <1>2, <1>3 DEF Role, IInv, TypeOK, Ops
<1>10. Role(t)'
  BY <1>1, <1>3, <1>4, <1>6, <1>7, <1>9 DEF Role, InCall
<1>11. Sleeping(t)' /\ Client(t)'
  BY <1>1, <1>3, <1>4, <1>5, <1>6 DEF Sleeping, Client, Connected, kernelVars, netVars
<1>12. \A u \in Tasks : Role(u)' /\ Sleeping(u)' /\ Client(u)'
  BY <1>1, <1>2, <1>6, <1>10, <1>11, OneActs DEF kernelVars, netVars, timeVars
<1>13. Pipe'
  <2>1. CASE pc[t] = "await"
    BY <1>1, <1>2, <1>4, <1>6, <2>1, SamePipe DEF kernelVars, pipeVars
  <2>2. CASE pc[t] # "await"
    <3>1. pc' = pc /\ result' = result /\ done' = done
      BY <1>2, <1>4, <2>2 DEF IInv, TypeOK
    <3> QED  BY <1>1, <3>1 DEF IInv, Pipe, WithRole, kernelVars, pipeVars
  <2> QED  BY <2>1, <2>2
<1>14. Delivered'
  BY <1>1, <1>6, <1>7, SameDelivered DEF kernelVars, pipeVars, netVars
<1> QED  BY <1>5, <1>8, <1>12, <1>13, <1>14 DEF IInv

(* The module wakes a task, or fails its await.                            *)
LEMMA WakeIInv ==
    ASSUME IoAssumption, IInv, NEW t \in Tasks, Wake(t) \/ Fail(t) PROVE IInv'
<1>1. PICK x \in {"ready", "failed"} :
        /\ call[t] = "waiting" /\ call' = [call EXCEPT ![t] = x]
        /\ x = "ready" => Ready(t)
  BY DEF Wake, Fail, Io!Wake, Io!Fail, Io!Move
<1>2. queue' = Append(queue, t) /\ UNCHANGED <<role, module, running, taskVars, failed, errnoVars, kernelVars>>
  BY DEF Wake, Fail
<1>3. Role(t) /\ Sleeping(t) /\ Client(t) /\ pc[t] = "await" /\ t \notin ToSet(queue)
  BY <1>1 DEF IInv, Hands
<1>4. call'[t] = x /\ \A u \in Tasks \ {t} : call'[u] = call[u]
  BY <1>1 DEF IInv, TypeOK
<1>5. IsInjective(queue') /\ ToSet(queue') = ToSet(queue) \cup {t} /\ queue' \in Seq(Tasks)
  BY <1>2, <1>3, Appended DEF IInv, TypeOK, Hands
<1>6. Hands'
  <2>1. \A w \in Workers : running[w] # t
    BY <1>3 DEF IInv, Hands, IoAssumption
  <2>2. \A v, w \in Workers : running'[v] = running'[w] /\ running'[v] # NoTask => v = w
    BY <1>2 DEF IInv, Hands
  <2>3. \A w \in Workers : running'[w] # NoTask =>
          running'[w] \notin ToSet(queue') /\ pc'[running'[w]] \in {"code", "try", "test"}
    BY <1>2, <1>5, <2>1 DEF IInv, Hands, taskVars
  <2>4. ToSet(queue) \subseteq Tasks
    BY ToSetIsRange DEF IInv, TypeOK, Range
  <2>5. \A u \in ToSet(queue') :
          pc'[u] \in {"code", "try"} \/ (pc'[u] = "await" /\ call'[u] \in {"ready", "failed"})
    BY <1>2, <1>3, <1>4, <1>5, <2>4 DEF IInv, Hands, taskVars
  <2>6. \A u \in Tasks : call'[u] # "none" <=> pc'[u] = "await"
    BY <1>2, <1>3, <1>4 DEF IInv, Hands, taskVars
  <2> QED  BY <1>5, <2>2, <2>3, <2>5, <2>6 DEF Hands
<1>7. TypeOK'
  BY <1>1, <1>2, <1>5
     DEF IInv, TypeOK, taskVars, errnoVars, kernelVars, pipeVars, netVars, timeVars
<1>8. Role(t)' /\ Client(t)'
  BY <1>2, <1>3 DEF Role, InCall, Client, Connected, taskVars, kernelVars, netVars
<1>9. Sleeping(t)'
  <2>1. op[t] = "sleep" /\ x = "ready" => slept[t] >= Delays[done[t] + 1]
    <3> SUFFICES ASSUME op[t] = "sleep", x = "ready" PROVE slept[t] >= Delays[done[t] + 1]
      OBVIOUS
    <3>1. timer[t] = 0 /\ slept[t] + timer[t] >= Delays[done[t] + 1] /\ slept[t] \in Nat
      BY <1>1, <1>3 DEF Ready, Sleeping, IInv, TypeOK
    <3> QED  BY <3>1
  <2> QED  BY <1>2, <1>4, <2>1 DEF Sleeping, taskVars, kernelVars, timeVars
<1>10. \A u \in Tasks : Role(u)' /\ Sleeping(u)' /\ Client(u)'
  BY <1>2, <1>4, <1>8, <1>9, OneActs DEF taskVars, kernelVars, netVars, timeVars
<1>11. Pipe' /\ Delivered'
  BY <1>2, SameDelivered
     DEF IInv, Pipe, WithRole, taskVars, kernelVars, pipeVars, netVars
<1> QED  BY <1>6, <1>7, <1>10, <1>11 DEF IInv

(* A tick fails, and the module panics.                                    *)
LEMMA PanicIInv == ASSUME IoAssumption, IInv, TickFails \/ Panic PROVE IInv'
<1>1. /\ module' \in {"failing", "panicked"}
      /\ UNCHANGED <<role, queue, running, pc, op, result, done, call, failed, again, home, pipe, received,
                     readers, writers, killed, pending, backlog, accepted, timer, slept>>
  BY DEF TickFails, Panic, schedVars, taskVars, errnoVars, kernelVars, pipeVars, netVars, timeVars
<1>2. TypeOK' /\ Hands' /\ Pipe'
  BY <1>1 DEF IInv, TypeOK, Hands, Pipe, WithRole
<1>3. \A t \in Tasks : Role(t)' /\ Sleeping(t)' /\ Client(t)'
  BY <1>1 DEF IInv, Role, InCall, Sleeping, Client, Connected
<1>4. UNCHANGED <<role, received, pipe, accepted>> /\ \A u \in Tasks : done'[u] = done[u]
  BY <1>1
<1>5. Delivered'
  BY <1>4, SameDelivered
<1> QED  BY <1>2, <1>3, <1>5 DEF IInv

(* A connection in progress is made.                                       *)
LEMMA EstablishIInv ==
    ASSUME IoAssumption, IInv, NEW c \in Tasks, Establish(c) PROVE IInv'
<1>1. /\ c \in pending /\ pending' = pending \ {c} /\ backlog' = backlog \cup {c}
      /\ UNCHANGED <<role, module, schedVars, taskVars, call, failed, errnoVars, accepted, pipeVars, timeVars>>
  BY DEF Establish
<1>2. TypeOK'
  BY <1>1 DEF IInv, TypeOK, schedVars, taskVars, errnoVars, pipeVars, timeVars
<1>3. Hands' /\ Pipe'
  BY <1>1 DEF IInv, Hands, Pipe, WithRole, schedVars, taskVars, pipeVars
<1>4. ASSUME NEW u \in Tasks PROVE Role(u)' /\ Sleeping(u)' /\ Client(u)'
  <2>1. Role(u) /\ Sleeping(u) /\ Client(u) /\ Connected' = Connected
    BY <1>1 DEF IInv, Connected
  <2>2. Role(u)' /\ Sleeping(u)'
    BY <1>1, <2>1 DEF Role, InCall, Sleeping, taskVars, timeVars
  <2>3. Client(u)'
    BY <1>1, <2>1 DEF Client, taskVars
  <2> QED  BY <2>2, <2>3
<1>5. Delivered'
  BY <1>1, SameDelivered DEF taskVars, pipeVars
<1> QED  BY <1>2, <1>3, <1>4, <1>5 DEF IInv

(* A millisecond passes.                                                   *)
LEMMA PassIInv == ASSUME IoAssumption, IInv, Pass PROVE IInv'
<1>1. /\ timer' = [t \in Tasks |-> IF timer[t] > 0 THEN timer[t] - 1 ELSE timer[t]]
      /\ slept' = [t \in Tasks |-> IF call[t] = "waiting" /\ op[t] = "sleep" THEN slept[t] + 1 ELSE slept[t]]
      /\ UNCHANGED <<role, module, schedVars, taskVars, call, failed, errnoVars, pipeVars, netVars>>
  BY DEF Pass
<1>2. TypeOK'
  <2>1. timer' \in [Tasks -> Int] /\ slept' \in [Tasks -> Nat]
    BY <1>1 DEF IInv, TypeOK
  <2> QED  BY <1>1, <2>1 DEF IInv, TypeOK, schedVars, taskVars, errnoVars, pipeVars, netVars
<1>3. Hands' /\ Pipe'
  BY <1>1 DEF IInv, Hands, Pipe, WithRole, schedVars, taskVars, pipeVars
<1>4. ASSUME NEW u \in Tasks PROVE Role(u)' /\ Sleeping(u)' /\ Client(u)'
  <2>1. Role(u) /\ Sleeping(u) /\ Client(u) /\ timer[u] \in Int /\ slept[u] \in Nat
    BY DEF IInv, TypeOK
  <2>2. Role(u)' /\ Client(u)'
    BY <1>1, <2>1 DEF Role, InCall, Client, Connected, taskVars, netVars
  <2>3. /\ timer'[u] = (IF timer[u] > 0 THEN timer[u] - 1 ELSE timer[u])
        /\ slept'[u] = (IF call[u] = "waiting" /\ op[u] = "sleep" THEN slept[u] + 1 ELSE slept[u])
        /\ UNCHANGED <<op, done, call>>
    BY <1>1 DEF taskVars
  <2>4. op[u] = "sleep" /\ call[u] \in {"waiting", "ready"} => Delays[done[u] + 1] \in Nat
    <3>1. op[u] = "sleep" /\ call[u] \in {"waiting", "ready"} => done[u] < Len(Delays)
      BY <2>1 DEF IInv, Hands, Role, InCall
    <3>2. done[u] \in Nat /\ Delays \in Seq(Nat)
      BY DEF IInv, TypeOK, IoAssumption
    <3> QED  BY <3>1, <3>2
  <2>5. Sleeping(u)'
    BY <2>1, <2>3, <2>4 DEF Sleeping
  <2> QED  BY <2>2, <2>5
<1>5. Delivered'
  BY <1>1, SameDelivered DEF taskVars, pipeVars, netVars
<1> QED  BY <1>2, <1>3, <1>4, <1>5 DEF IInv

(* Every task is queued once, and no call was made.                        *)
LEMMA InitIInv == ASSUME IoAssumption, Init PROVE IInv
<1>1. queue \in Seq(Tasks) /\ ToSet(queue) = Tasks /\ IsInjective(queue)
  BY ArrayOfAll DEF Init, IoAssumption
<1>2. call = [t \in Tasks |-> "none"]
  BY DEF Init, Io!Init
<1>3. (CHOOSE w \in Workers : TRUE) \in Workers
  BY DEF IoAssumption
<1>4. TypeOK
  <2>1. \A r : WithRole(r) \subseteq Tasks
    BY DEF WithRole
  <2>2. home \in [Tasks -> Workers] /\ Len(Delays) \in Nat /\ Count \in Nat /\ Capacity \in Nat
    BY <1>3 DEF Init, IoAssumption
  <2>3. /\ done \in [Tasks -> Nat] /\ timer \in [Tasks -> Int] /\ slept \in [Tasks -> Nat]
        /\ \A t \in Tasks : done[t] <= (IF role[t] = "sleeper" THEN Len(Delays) ELSE Count)
    BY <2>2 DEF Init
  <2>4. /\ pipe \in Seq(Tasks \X (1..Count)) /\ Len(pipe) <= Capacity
        /\ received \in Seq(Tasks \X (1..Count)) /\ accepted \in Seq(Tasks \X (1..Count) \X Tasks)
    BY <2>2 DEF Init
  <2>5. /\ role \in Programs /\ module \in {"ok", "failing", "panicked"}
        /\ running \in [Workers -> Tasks \cup {NoTask}]
        /\ pc \in [Tasks -> {"code", "try", "test", "await", "done"}]
        /\ op \in [Tasks -> Ops \cup {"start"}]
        /\ call \in [Tasks -> {"none", "waiting", "ready", "failed"}]
        /\ result \in [Tasks -> {"ok", "eof", "error"}]
        /\ again \in [Workers -> BOOLEAN]
    BY <1>2 DEF Init
  <2>6. /\ readers \subseteq Tasks /\ writers \subseteq Tasks /\ pending \subseteq Tasks
        /\ backlog \subseteq Tasks /\ failed \subseteq Tasks /\ killed \in BOOLEAN
    BY <2>1 DEF Init
  <2> QED  BY <1>1, <2>2, <2>3, <2>4, <2>5, <2>6 DEF TypeOK
<1>5. Hands
  BY <1>1, <1>2 DEF Init, Hands
<1>6. Pipe
  BY DEF Init, Pipe, WithRole
<1>7. \A t \in Tasks : Role(t) /\ Sleeping(t) /\ Client(t)
  <2>1. Connected = {}
    BY DEF Init, Connected, ToSet
  <2> QED  BY <1>2, <2>1 DEF Init, Role, InCall, Sleeping, Client
<1>8. Delivered
  <2>1. <<>> \o pipe = <<>> /\ received = <<>> /\ accepted = <<>>
    BY DEF Init
  <2>2. ToSet(<<>>) = {} /\ Len(<<>>) = 0
    BY DEF ToSet
  <2>3. \A r : { m \in Tasks \X (1..Count) : role[m[1]] = r /\ m[2] <= done[m[1]] } = {}
    BY DEF Init
  <2>4. \A r : EachOnce(<<>>, r)
    BY <2>2, <2>3 DEF EachOnce
  <2> QED  BY <2>1, <2>2, <2>4 DEF Delivered
<1> QED  BY <1>4, <1>5, <1>6, <1>7, <1>8 DEF IInv

(* Every step keeps the invariant.                                         *)
LEMMA NextIInv == ASSUME IoAssumption, IInv, [Next]_vars PROVE IInv'
<1>1. CASE UNCHANGED vars
  <2>1. UNCHANGED <<role, module, queue, running, pc, op, result, done, call, failed, again, home, pipe, received,
                    readers, writers, killed, pending, backlog, accepted, timer, slept>>
    BY <1>1 DEF vars, schedVars, taskVars, errnoVars, kernelVars, pipeVars, netVars, timeVars
  <2>2. TypeOK' /\ Hands' /\ Pipe'
    BY <2>1 DEF IInv, TypeOK, Hands, Pipe, WithRole
  <2>3. \A t \in Tasks : Role(t)' /\ Sleeping(t)' /\ Client(t)'
    BY <2>1 DEF IInv, Role, InCall, Sleeping, Client, Connected
  <2> QED  BY <2>1, <2>2, <2>3, SameDelivered DEF IInv
<1>2. ASSUME NEW w \in Workers, WorkerStep(w) PROVE IInv'
  BY <1>2, ResumeIInv, CallIInv, BlockIInv, TestIInv, RandomIInv, WriteIInv, ReadIInv, AcceptIInv,
     ConnectIInv, LookupCallIInv, LookupIInv, SleepIInv, FinishIInv DEF WorkerStep
<1>3. ASSUME NEW t \in Tasks, Wake(t) \/ Fail(t) \/ Establish(t) PROVE IInv'
  BY <1>3, WakeIInv, EstablishIInv
<1> QED  BY <1>1, <1>2, <1>3, PanicIInv, PassIInv DEF Next, Over

(* The invariant holds in every reachable state.                           *)
THEOREM Inductive == Spec => []IInv
<1>1. Init => IInv
  BY IoAssumption, InitIInv
<1>2. IInv /\ [Next]_vars => IInv'
  BY IoAssumption, NextIInv
<1> QED  BY <1>1, <1>2, PTL DEF Spec
-----------------------------------------------------------------------------
(* The variables of the tasks, the pipe, the sockets and the timers keep   *)
(* their types; no task makes more calls than its program has.             *)
THEOREM TypeCorrect == Spec => []TypeOK
<1>1. IInv => TypeOK
  BY DEF IInv
<1> QED  BY <1>1, Inductive, PTL

(* Whatever the tasks compete for and on whatever workers they go on, what *)
(* writeA said is written is in the pipe or was read, once and in order,   *)
(* and each connection is accepted and counted once.                       *)
THEOREM NothingIsLostOrDoubled == Spec => []Delivered
<1>1. IInv => Delivered
  BY DEF IInv
<1> QED  BY <1>1, Inductive, PTL

(* sleepA_ms returns 0 only after the time it was asked to sleep, also on  *)
(* a timer that is used again.                                             *)
THEOREM SleepsLast == Spec => SleptEnough
<1>1. ASSUME IoAssumption, IInv, [Next]_vars, NEW t \in Tasks, op[t] = "sleep", done'[t] > done[t]
      PROVE  slept[t] >= Delays[done'[t]]
  <2>1. done \in [Tasks -> Nat] /\ done' # done
    BY <1>1 DEF IInv, TypeOK
  <2>2. PICK w \in Workers : Resume(w) \/ \E u \in Tasks : Write(w, u) \/ Accept(w, u)
    BY <1>1, <2>1 DEF Next, vars, taskVars, WorkerStep, Call, Block, Test, Random, Read, Connect,
       LookupCall, Lookup, Sleep, Finish, Wake, Fail, TickFails, Panic, Establish, Pass, Over
  <2>3. ASSUME NEW u \in Tasks, Write(w, u) \/ Accept(w, u) PROVE FALSE
    <3>1. u # t
      BY <1>1, <2>3 DEF Write, Accept, Trying
    <3>2. done' = done \/ done' = [done EXCEPT ![u] = @ + 1]
      BY <2>3 DEF Write, Accept, Succeeds
    <3> QED  BY <1>1, <2>1, <3>1, <3>2
  <2>4. CASE Resume(w)
    <3>1. PICK u : u = Head(queue) /\ u \in Tasks /\ queue # <<>>
                   /\ (done' # done => call[u] = "ready" /\ done' = [done EXCEPT ![u] = @ + 1])
      <4>1. queue # <<>> /\ Head(queue) \in Tasks
        BY <1>1, <2>4, FirstGone DEF Resume, IInv, TypeOK, Hands
      <4> QED  BY <2>4, <4>1 DEF Resume, Awaited, Succeeds
    <3>2. u = t /\ call[t] = "ready" /\ done'[t] = done[t] + 1
      BY <1>1, <2>1, <3>1
    <3>3. slept[t] >= Delays[done[t] + 1]
      BY <1>1, <3>2 DEF IInv, Sleeping
    <3> QED  BY <3>2, <3>3
  <2> QED  BY <2>2, <2>3, <2>4
<1>2. IInv /\ [Next]_vars =>
        [\A t \in Tasks : op[t] = "sleep" /\ done'[t] > done[t] => slept[t] >= Delays[done'[t]]]_vars
  BY <1>1, IoAssumption
<1> QED  BY <1>2, Inductive, PTL DEF Spec, SleptEnough
-----------------------------------------------------------------------------
(* The compiler does not keep errno's address over an await.               *)
ErrnoFound == CachedErrno = FALSE

(* A worker runs one task, and only that worker clears its errno.          *)
LEMMA ErrnoStaysFresh ==
    ASSUME IoAssumption, ErrnoFound, IInv, ErrnoFresh, [Next]_vars PROVE ErrnoFresh'
<1> SUFFICES ASSUME NEW w \in Workers, NEW t \in Tasks, running'[w] = t, pc'[t] = "test"
             PROVE  again'[w]
  BY DEF ErrnoFresh, At
<1>1. /\ pc \in [Tasks -> {"code", "try", "test", "await", "done"}]
      /\ running \in [Workers -> Tasks \cup {NoTask}] /\ again \in [Workers -> BOOLEAN]
      /\ t # NoTask
  BY DEF IInv, TypeOK, IoAssumption
<1>2. CASE \E v \in Workers, u \in Tasks : Block(v, u)
  <2>1. PICK v \in Workers, u \in Tasks : Block(v, u)
    BY <1>2
  <2>2. /\ running[v] = u /\ pc' = [pc EXCEPT ![u] = "test"] /\ again' = [again EXCEPT ![v] = TRUE]
        /\ running' = running
    BY <2>1 DEF Block, At, Goes, schedVars
  <2>3. CASE u = t
    <3>1. v = w
      BY <1>1, <2>2, <2>3 DEF IInv, Hands
    <3> QED  BY <1>1, <2>2, <3>1
  <2>4. CASE u # t
    <3>1. pc[t] = "test" /\ running[w] = t /\ again[w]
      BY <1>1, <2>2, <2>4 DEF ErrnoFresh, At
    <3> QED  BY <1>1, <2>2, <3>1
  <2> QED  BY <2>3, <2>4
<1>3. CASE \E v \in Workers : Resume(v)
  <2>1. PICK v \in Workers : Resume(v)
    BY <1>3
  <2>2. PICK u : /\ u = Head(queue) /\ queue # <<>> /\ running[v] = NoTask
                 /\ running' = [running EXCEPT ![v] = u]
                 /\ again' = (IF pc[u] = "code" THEN again
                              ELSE [x \in Workers |-> again[x] /\ x \notin Cleared(v, u)])
                 /\ pc' = pc \/ pc' = [pc EXCEPT ![u] = "code"] \/ pc' = [pc EXCEPT ![u] = "try"]
    BY <2>1 DEF Resume, Awaited, Succeeds, Answers, Goes
  <2>3. u \in Tasks /\ pc[u] # "test"
    <3>1. u \in ToSet(queue) /\ u \in Tasks
      BY <2>2, FirstGone DEF IInv, TypeOK, Hands
    <3> QED  BY <3>1 DEF IInv, Hands
  <2>4. Cleared(v, u) = {v}
    BY DEF Cleared, ErrnoFound
  <2>5. u # t
    BY <1>1, <2>2, <2>3
  <2>6. w # v /\ running[w] = t /\ pc[t] = "test"
    BY <1>1, <2>2, <2>3, <2>5
  <2>7. again[w]
    BY <2>6 DEF ErrnoFresh, At
  <2> QED  BY <2>2, <2>4, <2>6, <2>7
<1>4. CASE ~(\E v \in Workers, u \in Tasks : Block(v, u)) /\ ~\E v \in Workers : Resume(v)
  <2>1. /\ again' = again
        /\ \/ running' = running
           \/ \E v \in Workers : running' = [running EXCEPT ![v] = NoTask]
        /\ \/ pc' = pc
           \/ \E u \in Tasks, x \in {"code", "try", "await", "done"} : pc' = [pc EXCEPT ![u] = x]
    BY <1>4 DEF Next, vars, schedVars, taskVars, errnoVars, WorkerStep, Call, Test, Random, Write, Read,
       Accept, Connect, LookupCall, Lookup, Sleep, Finish, Wake, Fail, TickFails, Panic, Establish, Pass, Over,
       Leaves, Suspend, Answers, Succeeds, Goes
  <2>2. running[w] = t
    BY <1>1, <2>1
  <2>3. pc[t] = "test"
    BY <1>1, <2>1
  <2> QED  BY <2>1, <2>2, <2>3 DEF ErrnoFresh, At
<1> QED  BY <1>2, <1>3, <1>4

(* No call of a task that is no client fails but for a failed await.       *)
LEMMA NoNewFalseError ==
    ASSUME IoAssumption, IInv, EInv, [Next]_vars PROVE NoFalseError'
<1> SUFFICES ASSUME NEW t \in Tasks, role'[t] # "client", result'[t] = "error"
             PROVE  t \in failed' \/ (op'[t] = "sleep" /\ Delays[done'[t] + 1] = 0)
  BY DEF NoFalseError, WithRole
<1>1. /\ op \in [Tasks -> Ops \cup {"start"}] /\ result \in [Tasks -> {"ok", "eof", "error"}]
      /\ done \in [Tasks -> Nat] /\ role' = role
  <2>1. role' = role
    BY DEF Next, vars, WorkerStep, Resume, Call, Block, Test, Random, Write, Read, Accept, Connect,
       LookupCall, Lookup, Sleep, Finish, Wake, Fail, TickFails, Panic, Establish, Pass, Over
  <2> QED  BY <2>1 DEF IInv, TypeOK
<1>2. CASE failed \subseteq failed' /\ op'[t] = op[t] /\ result'[t] = result[t] /\ done'[t] = done[t]
  BY <1>1, <1>2 DEF EInv, NoFalseError, WithRole
<1>3. CASE \E w \in Workers, u \in Tasks : Call(w, u) \/ LookupCall(w, u)
  <2>1. PICK w \in Workers, u \in Tasks, o \in Ops :
          MayCall(u, o) /\ op' = [op EXCEPT ![u] = o] /\ UNCHANGED <<result, done, failed>>
    BY <1>3 DEF Call, LookupCall, Ops
  <2>2. u # t
    BY <2>1 DEF MayCall
  <2> QED  BY <1>1, <1>2, <2>1, <2>2
<1>4. CASE \E w \in Workers, u \in Tasks : Sleep(w, u)
  <2>1. PICK w \in Workers, u \in Tasks : Sleep(w, u)
    BY <1>4
  <2>2. /\ result[u] = "ok" /\ op' = [op EXCEPT ![u] = "sleep"] /\ UNCHANGED done
        /\ \/ UNCHANGED <<result, failed>>
           \/ failed' = failed \cup {u} /\ result' = [result EXCEPT ![u] = "error"]
           \/ /\ Delays[done[u] + 1] = 0 /\ result' = [result EXCEPT ![u] = "error"]
              /\ UNCHANGED failed
    BY <2>1 DEF Sleep, MayCall, Answers, Suspend
  <2> QED  BY <1>1, <1>2, <2>2
<1>5. CASE \E w \in Workers, u \in Tasks : Test(w, u)
  <2>1. PICK w \in Workers, u \in Tasks : Test(w, u)
    BY <1>5
  <2>2. again[w]
    BY <2>1 DEF Test, EInv, ErrnoFresh, At
  <2>3. /\ UNCHANGED <<op, done>>
        /\ \/ UNCHANGED <<result, failed>>
           \/ failed' = failed \cup {u} /\ result' = [result EXCEPT ![u] = "error"]
    BY <2>1, <2>2 DEF Test, Retry, Suspend, Answers
  <2> QED  BY <1>1, <1>2, <2>3
<1>6. CASE \E w \in Workers, u \in Tasks : Connect(w, u) \/ Lookup(w, u)
  <2>1. PICK w \in Workers, u \in Tasks : Connect(w, u) \/ Lookup(w, u)
    BY <1>6
  <2>2. /\ op[u] \in {"connect", "lookup"} /\ running[w] = u /\ UNCHANGED <<op, done, failed>>
        /\ result' = result \/ \E r \in {"ok", "error"} : result' = [result EXCEPT ![u] = r]
    BY <2>1 DEF Connect, Lookup, Trying, At, Answers
  <2>3. u # t
    <3>1. Role(u) /\ role[u] \in Roles
      BY <2>2, Current
    <3> QED  BY <1>1, <2>2, <3>1 DEF Role, Roles
  <2> QED  BY <1>1, <1>2, <2>2, <2>3
<1>7. CASE \E w \in Workers : Resume(w)
  <2>1. PICK w \in Workers : Resume(w)
    BY <1>7
  <2>2. PICK u : /\ u = Head(queue) /\ op' = op
                 /\ \/ UNCHANGED <<result, done, failed>>
                    \/ /\ result' = [result EXCEPT ![u] = "ok"] /\ failed' = failed
                       /\ done' = [done EXCEPT ![u] = @ + 1]
                    \/ /\ result' = [result EXCEPT ![u] = "error"] /\ failed' = failed \cup {u}
                       /\ done' = done
    BY <2>1 DEF Resume, Awaited, Succeeds, Answers
  <2>3. u \in Tasks
    BY <2>1, <2>2, FirstGone DEF Resume, IInv, TypeOK, Hands
  <2> QED  BY <1>1, <1>2, <2>2, <2>3
<1>8. CASE \E w \in Workers, u \in Tasks :
             Block(w, u) \/ Random(w, u) \/ Write(w, u) \/ Read(w, u) \/ Accept(w, u) \/ Finish(w, u)
  <2>1. PICK u \in Tasks : /\ UNCHANGED <<op, failed>>
                           /\ done' = done \/ done' = [done EXCEPT ![u] = @ + 1]
                           /\ \/ result' = result /\ done' = done
                              \/ \E r \in {"ok", "eof"} : result' = [result EXCEPT ![u] = r]
    BY <1>8 DEF Block, Random, Write, Read, Accept, Finish, Succeeds, Answers
  <2>2. u # t \/ (result' = result /\ done' = done)
    BY <1>1, <2>1
  <2>3. result'[t] = result[t] /\ done'[t] = done[t]
    BY <1>1, <2>1, <2>2
  <2> QED  BY <1>2, <2>1, <2>3
<1>9. CASE TickFails \/ Panic \/ Pass \/ Over \/ UNCHANGED vars \/ \E u \in Tasks : Wake(u) \/ Fail(u) \/ Establish(u)
  BY <1>2, <1>9 DEF TickFails, Panic, Pass, Over, Wake, Fail, Establish, vars, taskVars
<1> QED  BY <1>3, <1>4, <1>5, <1>6, <1>7, <1>8, <1>9 DEF Next, WorkerStep

(* Where errno's address is found again after an await, a call that would  *)
(* block waits and is retried, however often another task is faster: it    *)
(* returns -1 only when an await of the task failed.                       *)
THEOREM NoCallFailsFalsely == ASSUME ErrnoFound PROVE Spec => []NoFalseError
<1>1. Init => EInv
  BY DEF Init, EInv, ErrnoFresh, At, NoFalseError
<1>2. IInv /\ EInv /\ [Next]_vars => EInv'
  BY IoAssumption, ErrnoFound, ErrnoStaysFresh, NoNewFalseError DEF EInv
<1>3. EInv => NoFalseError
  BY DEF EInv
<1> QED  BY <1>1, <1>2, <1>3, Inductive, PTL DEF Spec

(* Who writes to a pipe has somebody who reads from it.                    *)
PipesAreRead ==
    \A r \in Programs :
      (\E p \in Tasks : r[p] = "producer") => \E c \in Tasks : r[c] = "consumer"

KilledByFailure == killed => failed # {}

(* The last reader is gone before the last writer only by a failed await.  *)
LEMMA StillKilledByFailure ==
    ASSUME IoAssumption, PipesAreRead, IInv, EInv, KilledByFailure, [Next]_vars
    PROVE  KilledByFailure'
<1>1. CASE failed \subseteq failed' /\ killed' = killed
  BY <1>1 DEF KilledByFailure
<1>2. CASE \E w \in Workers, t \in Tasks : Write(w, t)
  <2>1. PICK w \in Workers, t \in Tasks : Write(w, t)
    BY <1>2
  <2>2. /\ running[w] = t /\ pc[t] = "try" /\ op[t] = "write" /\ failed' = failed
        /\ killed' = killed \/ readers = {}
    BY <2>1 DEF Write, Trying, At
  <2>3. CASE readers = {}
    <3>1. role[t] = "producer"
      <4>1. Role(t) /\ role[t] \in Roles
        BY <2>2, Current
      <4> QED  BY <2>2, <4>1 DEF Role, Roles
    <3>2. PICK c \in Tasks : role[c] = "consumer"
      BY <3>1 DEF PipesAreRead, IInv, TypeOK
    <3>3. pc[c] = "done" /\ result[c] # "ok" /\ Role(c)
      BY <2>3, <3>2 DEF IInv, Pipe, WithRole
    <3>4. result[c] # "eof"
      BY <2>2, <3>1 DEF IInv, Pipe, WithRole
    <3>5. result[c] = "error"
      BY <3>3, <3>4 DEF IInv, TypeOK
    <3>6. c \in failed
      BY <3>2, <3>3, <3>5 DEF EInv, NoFalseError, WithRole, Role
    <3> QED  BY <2>2, <3>6 DEF KilledByFailure
  <2> QED  BY <1>1, <2>2, <2>3
<1>3. CASE ~\E w \in Workers, t \in Tasks : Write(w, t)
  <2>1. failed \subseteq failed' /\ killed' = killed
    BY <1>3 DEF Suspend, Next, vars, kernelVars, pipeVars, WorkerStep, Resume, Call, Block, Test, Random, Read,
       Accept, Connect, LookupCall, Lookup, Sleep, Finish, Wake, Fail, TickFails, Panic, Establish, Pass, Over
  <2> QED  BY <1>1, <2>1
<1> QED  BY <1>2, <1>3

(* A reader that is told the end of the file leaves nothing behind: every  *)
(* producer has closed its end and, unless an await failed, has written    *)
(* all it had; and without such a failure nobody meets SIGPIPE.            *)
THEOREM EndOfFileIsTheEnd == ASSUME ErrnoFound, PipesAreRead PROVE Spec => []EndOfFile
<1>1. Init => EInv /\ KilledByFailure
  BY DEF Init, EInv, ErrnoFresh, At, NoFalseError, KilledByFailure
<1>2. IInv /\ EInv /\ KilledByFailure /\ [Next]_vars => EInv' /\ KilledByFailure'
  BY IoAssumption, ErrnoFound, PipesAreRead, ErrnoStaysFresh, NoNewFalseError,
     StillKilledByFailure DEF EInv
<1>3. ASSUME IInv, EInv, KilledByFailure PROVE EndOfFile
  <2> SUFFICES ASSUME NEW t \in WithRole("consumer"), result[t] = "eof",
                      NEW p \in WithRole("producer")
               PROVE  pipe = <<>> /\ pc[p] = "done" /\ (failed = {} => done[p] = Count)
    <3>1. \A t \in WithRole("consumer") : t \in Tasks
      BY DEF WithRole
    <3>2. \A t \in WithRole("consumer") : result[t] = "eof" => pipe = <<>>
      BY <1>3, <3>1 DEF IInv, Pipe
    <3> QED  BY <1>3, <3>2 DEF EndOfFile, KilledByFailure
  <2>1. t \in Tasks /\ p \in Tasks /\ role[p] = "producer"
    BY DEF WithRole
  <2>2. pipe = <<>> /\ pc[p] = "done"
    BY <1>3, <2>1 DEF IInv, Pipe
  <2>3. ASSUME failed = {} PROVE result[p] = "ok"
    <3>1. Role(p) /\ result[p] \in {"ok", "eof", "error"}
      BY <1>3, <2>1 DEF IInv, TypeOK
    <3>2. result[p] # "error"
      BY <1>3, <2>1, <2>3, <3>1 DEF EInv, NoFalseError, WithRole, Role
    <3> QED  BY <2>1, <3>1, <3>2 DEF Role
  <2>4. result[p] # "ok" \/ done[p] = Count
    BY <1>3, <2>1, <2>2 DEF IInv, Pipe
  <2> QED  BY <2>2, <2>3, <2>4
<1> QED  BY <1>1, <1>2, <1>3, Inductive, PTL DEF Spec
=============================================================================
