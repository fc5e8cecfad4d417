---------------------------- MODULE BoundedQueue ----------------------------
(***************************************************************************)
(* What the three-pointer ring promises its callers: a bounded queue with  *)
(* many producers and one consumer.  A write appends the item              *)
(* the producer is offering or is refused; a read removes the oldest item. *)
(* The n-th item accepted from producer p is the pair <<p, n>>, so that an *)
(* item lost, duplicated, invented or reordered is visible in `received'.  *)
(***************************************************************************)
EXTENDS Naturals, Sequences

CONSTANTS
    Producers,  \* the processes that write
    Size        \* capacity of the buffer (Layout::size)

VARIABLES
    queue,      \* accepted and not yet read, oldest first
    sent,       \* sent[p]: how many items of p were accepted
    received    \* every item read so far, in the order it was read

vars == <<queue, sent, received>>

Items == Producers \X (Nat \ {0})

Init ==
    /\ queue = << >>
    /\ sent = [p \in Producers |-> 0]
    /\ received = << >>

Put(p) ==
    /\ Len(queue) < Size
    /\ queue' = Append(queue, <<p, sent[p] + 1>>)
    /\ sent' = [sent EXCEPT ![p] = @ + 1]
    /\ UNCHANGED received

Get ==
    /\ queue # << >>
    /\ received' = Append(received, Head(queue))
    /\ queue' = Tail(queue)
    /\ UNCHANGED sent

Next == Get \/ \E p \in Producers : Put(p)

Spec == Init /\ [][Next]_vars
=============================================================================
