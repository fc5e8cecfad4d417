---------------------------- MODULE UnorderedPool ----------------------------
(***************************************************************************)
(* What the cell-lockable ring promises its callers: a bounded pool.  Each *)
(* item accepted stays in the pool until it is handed to the consumer,     *)
(* exactly once; nothing is promised about the order.  The n-th item       *)
(* accepted from producer p is the pair <<p, n>>.                          *)
(***************************************************************************)
EXTENDS Naturals, FiniteSets

CONSTANTS
    Producers,  \* the processes that write
    Size        \* how many items fit

VARIABLES
    pool,       \* accepted and not yet handed over
    sent,       \* sent[p]: how many items of p were accepted
    received    \* the items handed over

vars == <<pool, sent, received>>

Init ==
    /\ pool = {}
    /\ sent = [p \in Producers |-> 0]
    /\ received = {}

Put(p) ==
    /\ Cardinality(pool) < Size
    /\ sent' = [sent EXCEPT ![p] = @ + 1]
    /\ pool' = pool \cup {<<p, sent[p] + 1>>}
    /\ UNCHANGED received

Get(item) ==
    /\ item \in pool
    /\ pool' = pool \ {item}
    /\ received' = received \cup {item}
    /\ UNCHANGED sent

Next ==
    \/ \E p \in Producers : Put(p)
    \/ \E item \in pool : Get(item)

Spec == Init /\ [][Next]_vars
=============================================================================
