--------------------------- MODULE BoundedChannel ---------------------------
(***************************************************************************)
(* What is left of a bounded queue when its users may die in the middle of *)
(* a call: the buffer itself.  An item joins at the back when there is     *)
(* room, the item at the front leaves, nothing else changes, and a reader  *)
(* comes in the end.                                                       *)
(***************************************************************************)
EXTENDS Naturals, Sequences

CONSTANTS
    Items,   \* what can be written
    Size     \* capacity of the buffer (Layout::size)

VARIABLE queue

Init == queue = << >>

Put(item) == Len(queue) < Size /\ queue' = Append(queue, item)

Get == queue # << >> /\ queue' = Tail(queue)

Next == Get \/ \E item \in Items : Put(item)

Spec == Init /\ [][Next]_queue

FairSpec == Spec /\ WF_queue(Get)
=============================================================================
