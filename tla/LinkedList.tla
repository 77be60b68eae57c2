----------------------------- MODULE LinkedList -----------------------------
(***************************************************************************)
(* The doubly linked list of src/include/pcaio/listT.c and the threads     *)
(* that use it.  A critical section is one action; the tests that append,  *)
(* delete and pop make before they take the mutex are actions of their     *)
(* own.  The program has two such lists.  In modepoll.c the workers append *)
(* their events while the master thread deletes and pops them; a delete    *)
(* may even come before the append it is meant for.  In task.c every       *)
(* thread appends tasks and deletes the one it has, and nobody pops as     *)
(* long as there are workers.                                              *)
(***************************************************************************)
EXTENDS Naturals, Sequences, SequencesExt, FiniteSets

CONSTANTS
    Threads,    \* the threads
    Master,     \* the one that ticks the modules
    Items,      \* the elements
    NoItem      \* NULL

ASSUME ListAssumption == Master \in Threads /\ IsFiniteSet(Items) /\ NoItem \notin Items

VARIABLES
    head, tail, count,   \* struct list
    prev, next,          \* list_prev and list_next of each element
    pc, arg,             \* where each thread is, and with which element
    result,              \* what its last call returned, as in OrderedList
    contents,            \* the elements that are in the list, in order
    usage                \* "events" (modepoll.c) or "tasks" (task.c)

listVars == <<head, tail, count, prev, next>>
vars == <<listVars, pc, arg, result, contents, usage>>

OrNull == Items \cup {NoItem}

Answer == {"none", "append", "delete", "pop"} \X OrNull \X BOOLEAN

TypeOK ==
    /\ head \in OrNull /\ tail \in OrNull /\ count \in 0..Cardinality(Items)
    /\ prev \in [Items -> OrNull] /\ next \in [Items -> OrNull]
    /\ pc \in [Threads -> {"idle", "append", "delete", "pop"}]
    /\ arg \in [Threads -> OrNull]
    /\ result \in [Threads -> Answer]
    /\ contents \in Seq(Items)
    /\ usage \in {"events", "tasks"}

Init ==
    /\ head = NoItem /\ tail = NoItem /\ count = 0
    /\ prev = [v \in Items |-> NoItem] /\ next = [v \in Items |-> NoItem]
    /\ pc = [th \in Threads |-> "idle"] /\ arg = [th \in Threads |-> NoItem]
    /\ result = [th \in Threads |-> <<"none", NoItem, TRUE>>]
    /\ contents = <<>>
    /\ usage \in {"events", "tasks"}
-----------------------------------------------------------------------------
(* A call goes on to the mutex, or returns.                                *)
Locks(th, place, v) ==
    /\ pc' = [pc EXCEPT ![th] = place]
    /\ arg' = [arg EXCEPT ![th] = v]
    /\ UNCHANGED result

Returns(th, c, v, ok) ==
    /\ pc' = [pc EXCEPT ![th] = "idle"]
    /\ arg' = [arg EXCEPT ![th] = NoItem]
    /\ result' = [result EXCEPT ![th] = <<c, v, ok>>]

(* The element is one no thread is busy with.                              *)
Untouched(v) == \A th \in Threads : arg[th] # v

(* An event or a task is appended once in its life, by its own thread.     *)
MayAppend(th, v) ==
    /\ pc[th] = "idle" /\ (usage = "events" => th # Master)
    /\ v \notin ToSet(contents) /\ Untouched(v)

Linked(v) == prev[v] # NoItem \/ next[v] # NoItem

(* list_append: what it tests without the mutex.                           *)
AppendGuard(th, v) ==
    /\ MayAppend(th, v)
    /\ IF Linked(v) THEN Returns(th, "append", v, FALSE) ELSE Locks(th, "append", v)
    /\ UNCHANGED <<listVars, contents, usage>>

(* list_append, the critical section.                                      *)
AppendLocked(th) ==
    /\ pc[th] = "append"
    /\ LET v == arg[th] IN
         /\ tail' = v
         /\ IF tail = NoItem
              THEN head' = v /\ UNCHANGED <<prev, next>>
              ELSE /\ prev' = [prev EXCEPT ![v] = tail]
                   /\ next' = [next EXCEPT ![tail] = v]
                   /\ UNCHANGED head
         /\ contents' = Append(contents, v)
         /\ Returns(th, "append", v, TRUE)
    /\ count' = count + 1
    /\ UNCHANGED usage

(* Who may delete v: the master an event, in the list or about to be; a    *)
(* worker the task it has, which is in the list.                           *)
MayDelete(th, v) ==
    /\ pc[th] = "idle"
    /\ CASE usage = "events" -> th = Master
         [] usage = "tasks"  -> v \in ToSet(contents) /\ Untouched(v)

(* list_delete: what it tests without the mutex.                           *)
DeleteGuard(th, v) ==
    /\ MayDelete(th, v)
    /\ IF count = 0 THEN Returns(th, "delete", v, FALSE) ELSE Locks(th, "delete", v)
    /\ UNCHANGED <<listVars, contents, usage>>

(* list_delete fails under the mutex: v has no neighbour at one of its     *)
(* sides, and is not at that end of the list.                              *)
Misplaced(v) ==
    \/ prev[v] = NoItem /\ head # v
    \/ next[v] = NoItem /\ tail # v

(* Mutant of Cleared: the neighbours' pointers are kept.                   *)
ClearedNot(f, v) == f

Cleared(f, v) == [f EXCEPT ![v] = NoItem]

(* The count after a delete or a pop.                                      *)
Fewer(n) == n - 1

(* list_delete, the critical section: the neighbours of v, or the ends of  *)
(* the list, are joined.                                                   *)
DeleteLocked(th) ==
    /\ pc[th] = "delete"
    /\ LET v == arg[th]
           before == prev[v]
           after  == next[v] IN
         IF Misplaced(v)
           THEN Returns(th, "delete", v, FALSE) /\ UNCHANGED <<listVars, contents>>
           ELSE /\ IF before = NoItem
                     THEN head' = after /\ next' = Cleared(next, v)
                     ELSE head' = head /\ next' = Cleared([next EXCEPT ![before] = after], v)
                /\ IF after = NoItem
                     THEN tail' = before /\ prev' = Cleared(prev, v)
                     ELSE tail' = tail /\ prev' = Cleared([prev EXCEPT ![after] = before], v)
                /\ count' = Fewer(count)
                /\ contents' = RemoveFirst(contents, v)
                /\ Returns(th, "delete", v, TRUE)
    /\ UNCHANGED usage

(* Mutant of MayPop: workers pop too.                                      *)
AnyonePops(th) == usage = "events" /\ pc[th] = "idle"

(* Only the thread that also deletes pops.                                 *)
MayPop(th) == usage = "events" /\ th = Master /\ pc[th] = "idle"

(* list_pop: what it tests without the mutex.                              *)
PopGuard(th) ==
    /\ MayPop(th)
    /\ IF count = 0 THEN Returns(th, "pop", NoItem, FALSE) ELSE Locks(th, "pop", NoItem)
    /\ UNCHANGED <<listVars, contents, usage>>

(* list_pop, the critical section.                                         *)
PopLocked(th) ==
    /\ pc[th] = "pop" /\ head # NoItem
    /\ LET after == next[head] IN
         /\ head' = after
         /\ prev' = IF after = NoItem THEN prev ELSE Cleared(prev, after)
         /\ tail' = IF after = NoItem THEN NoItem ELSE tail
         /\ next' = Cleared(next, head)
         /\ count' = Fewer(count)
         /\ contents' = Tail(contents)
         /\ Returns(th, "pop", head, TRUE)
    /\ UNCHANGED usage

Next ==
    \E th \in Threads :
        \/ AppendLocked(th) \/ DeleteLocked(th) \/ PopGuard(th) \/ PopLocked(th)
        \/ \E v \in Items : AppendGuard(th, v) \/ DeleteGuard(th, v)

Spec == Init /\ [][Next]_vars
-----------------------------------------------------------------------------
(* Head, tail, both pointers of every element and the count describe the   *)
(* elements that are in the list, and an element that is not in it points  *)
(* nowhere, so that the unlocked test of append lets it in again.          *)
Represents ==
    LET n == Len(contents) IN
    /\ TypeOK
    /\ count = n
    /\ head = (IF n = 0 THEN NoItem ELSE contents[1])
    /\ tail = (IF n = 0 THEN NoItem ELSE contents[n])
    /\ \A i \in 1..n :
         /\ next[contents[i]] = (IF i = n THEN NoItem ELSE contents[i + 1])
         /\ prev[contents[i]] = (IF i = 1 THEN NoItem ELSE contents[i - 1])
    /\ \A v \in Items \ ToSet(contents) : ~Linked(v)

(* A pop that found the list not empty before it took the mutex still      *)
(* finds an element under it: list_pop follows q->head without a test.     *)
PopFinds == \A th \in Threads : pc[th] = "pop" => head # NoItem

(* listT.c is an ordered list to its callers, although the tests of append,*)
(* delete and pop are made without the mutex: every append succeeds, and a *)
(* delete or pop fails only when, at one moment of the call, its element   *)
(* was not in the list, or the list was empty.                             *)
List == INSTANCE OrderedList WITH items <- contents
ListSpec == List!Spec
=============================================================================
