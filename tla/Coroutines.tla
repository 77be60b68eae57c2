----------------------------- MODULE Coroutines -----------------------------
(***************************************************************************)
(* What pcaio promises to the functions it runs as tasks, whatever the     *)
(* queue, the stacks and the threads behind it: a task that exists makes   *)
(* progress whenever a worker takes it, it goes on exactly where it        *)
(* suspended itself, an await lasts until its event, gatherA until all its *)
(* tasks have ended, and a task ends once.                                 *)
(***************************************************************************)
EXTENDS Naturals, FiniteSets

CONSTANTS
    Tasks,
    Roots,          \* the tasks given to pcaio()
    MaxRunning      \* the number of workers

VARIABLES
    state,          \* state[t]: what t is doing
    team            \* team[t]: the tasks t has gathered, until it runs again

In(s) == { t \in Tasks : state[t] = s }

Init ==
    /\ state = [t \in Tasks |-> IF t \in Roots THEN "ready" ELSE "none"]
    /\ team = [t \in Tasks |-> {}]

Move(t, from, to) ==
    /\ state[t] = from
    /\ state' = [state EXCEPT ![t] = to]

(* A worker takes t.                                                       *)
Run(t) ==
    /\ Cardinality(In("running")) < MaxRunning
    /\ Move(t, "ready", "running")
    /\ team' = [team EXCEPT ![t] = {}]

Yield(t) == Move(t, "running", "ready") /\ UNCHANGED team

Await(t) == Move(t, "running", "awaiting") /\ UNCHANGED team

(* The event t awaits comes.                                               *)
Event(t) == Move(t, "awaiting", "ready") /\ UNCHANGED team

Create(c) == In("running") # {} /\ Move(c, "none", "ready") /\ UNCHANGED team

(* t creates the tasks cs and waits for them ...                           *)
Gather(t, cs) ==
    /\ state[t] = "running"
    /\ cs # {} /\ cs \subseteq In("none")
    /\ state' = [u \in Tasks |-> IF u = t THEN "joining"
                                 ELSE IF u \in cs THEN "ready" ELSE state[u]]
    /\ team' = [team EXCEPT ![t] = cs]

(* ... until all have ended.                                               *)
Join(t) ==
    /\ team[t] \subseteq In("ended")
    /\ Move(t, "joining", "ready")
    /\ UNCHANGED team

End(t) == Move(t, "running", "ended") /\ UNCHANGED team

Next ==
    \E t \in Tasks :
        \/ Run(t) \/ Yield(t) \/ Await(t) \/ Event(t) \/ Create(t) \/ Join(t) \/ End(t)
        \/ \E cs \in SUBSET Tasks : Gather(t, cs)

Spec == Init /\ [][Next]_<<state, team>>
=============================================================================
