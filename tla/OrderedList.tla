----------------------------- MODULE OrderedList ----------------------------
(***************************************************************************)
(* What the list of src/include/pcaio/listT.c promises to its callers: a   *)
(* sequence of elements, each in it at most once, and for every call which *)
(* one it was, the element it was about and whether it succeeded.          *)
(***************************************************************************)
EXTENDS Sequences, SequencesExt

CONSTANTS Threads, Items, NoItem

VARIABLES
    items,    \* the elements, in the order in which they were appended
    result    \* result[th]: what the last call of th returned, <<call, element, success>>

Answers(th, c, v, ok) == result' = [result EXCEPT ![th] = <<c, v, ok>>]

Init == items = <<>> /\ result = [th \in Threads |-> <<"none", NoItem, TRUE>>]

(* list_append, of an element that is not in the list: it succeeds.        *)
Add(th, v) ==
    /\ v \notin ToSet(items)
    /\ items' = Append(items, v)
    /\ Answers(th, "append", v, TRUE)

(* list_delete: it fails exactly when the element is not in the list.      *)
Take(th, v) ==
    \/ \E k \in 1..Len(items) :
         /\ items[k] = v /\ items' = RemoveAt(items, k)
         /\ Answers(th, "delete", v, TRUE)
    \/ v \notin ToSet(items) /\ UNCHANGED items /\ Answers(th, "delete", v, FALSE)

(* list_pop: it fails exactly when the list is empty.                      *)
TakeFirst(th) ==
    IF items = <<>> THEN UNCHANGED items /\ Answers(th, "pop", NoItem, FALSE)
    ELSE items' = Tail(items) /\ Answers(th, "pop", Head(items), TRUE)

Next == \E th \in Threads : TakeFirst(th) \/ \E v \in Items : Add(th, v) \/ Take(th, v)

Spec == Init /\ [][Next]_<<items, result>>
=============================================================================
