---------------------------- MODULE BoundedQueue ----------------------------
(***************************************************************************)
(* What a ring of the player promises to the threads that use it: a queue  *)
(* of bounded length, whose calls take effect one at a time.  A call to    *)
(* insert is refused only by a full queue, a call to extract returns       *)
(* nothing only when there is nothing.  Module RingGeneric implements it.  *)
(***************************************************************************)
EXTENDS Naturals, Sequences

CONSTANTS Threads, Values, Capacity

VARIABLES
    queue,   \* the values inserted and not yet extracted, oldest first
    answer   \* what the last call of each thread returned

Init == queue = <<>> /\ answer = [t \in Threads |-> "none"]

Answer(t, a) == answer' = [answer EXCEPT ![t] = a]

Insert(t) ==
    \/ /\ Len(queue) < Capacity
       /\ \E v \in Values : queue' = Append(queue, v)
       /\ Answer(t, "accepted")
    \/ /\ Len(queue) = Capacity
       /\ UNCHANGED queue
       /\ Answer(t, "full")

Extract(t) ==
    \/ /\ queue # <<>>
       /\ queue' = Tail(queue)
       /\ Answer(t, Head(queue))
    \/ /\ queue = <<>>
       /\ UNCHANGED queue
       /\ Answer(t, "nothing")

Flush == queue' = <<>> /\ UNCHANGED answer

Next == (\E t \in Threads : Insert(t) \/ Extract(t)) \/ Flush

Spec == Init /\ [][Next]_<<queue, answer>>
=============================================================================
