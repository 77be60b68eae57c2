------------------------------ MODULE IoModule ------------------------------
(***************************************************************************)
(* What struct pcaio_iomodule promises of its await (src/include/pcaio/    *)
(* modio.h): a call suspends its task, the module wakes it once, either    *)
(* because the descriptor is ready or with IOERR, and the call returns     *)
(* which of the two it was.  The calls of different tasks do not touch     *)
(* each other.  modepoll.c and modselect.c implement it; modio.c uses it.  *)
(***************************************************************************)
CONSTANT Tasks

VARIABLE call     \* call[t]: how far the await of t is, "none" outside one

Move(t, from, to) ==
    /\ call[t] \in from
    /\ call' = [call EXCEPT ![t] = to]

Init == call = [t \in Tasks |-> "none"]

(* The task registers its event.                                           *)
Await(t) == Move(t, {"none"}, "waiting")

(* The module schedules the task ...                                       *)
Wake(t) == Move(t, {"waiting"}, "ready")

(* ... or sets IOERR in its event and schedules it.                        *)
Fail(t) == Move(t, {"waiting"}, "failed")

(* The task runs again and the call returns 0 or -1.                       *)
Return(t) == Move(t, {"ready", "failed"}, "none")

Next == \E t \in Tasks : Await(t) \/ Wake(t) \/ Fail(t) \/ Return(t)

Spec == Init /\ [][Next]_call
=============================================================================
