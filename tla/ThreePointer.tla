---------------------------- MODULE ThreePointer ----------------------------
(***************************************************************************)
(* The three-pointer MPSC ring buffer                                      *)
(* (src/src/buffer/ring/three_pointer_approach.hpp): any number of         *)
(* producers, one consumer, each a process or a thread attached to the     *)
(* same shared memory.  A producer claims an index by a CAS on write_head, *)
(* stores its item in the cell of that index and publishes it by a CAS on  *)
(* commit_head that succeeds only when every earlier index is published.   *)
(*                                                                         *)
(* One action is one access to shared memory together with the local code  *)
(* up to the next access.  Heads are unbounded naturals: their width is    *)
(* not modelled.  Operators that Next does not use and whose name extends  *)
(* that of the action after them are plausible bugs of that action, kept   *)
(* to test the properties.                                                 *)
(***************************************************************************)
EXTENDS Naturals, Sequences, FiniteSets

CONSTANTS
    Producers,       \* the producer processes
    Consumer,        \* the one consumer process
    Size,            \* Layout::size
    MaxWrites,       \* bound: successful writes per producer
    MaxCrashes,      \* bound: how many processes may die
    SpuriousFailure, \* may compare_exchange_weak fail without a reason?
    NoItem           \* content of a cell never written

ASSUME SizeAssumption == Size \in Nat \ {0}
ASSUME BoundAssumption == MaxWrites \in Nat /\ MaxCrashes \in Nat
ASSUME ConsumerAssumption == Consumer \notin Producers
ASSUME CasAssumption == SpuriousFailure \in BOOLEAN
ASSUME NoItemAssumption == NoItem \notin Producers \X (Nat \ {0})

Procs == Producers \cup {Consumer}
Items == Producers \X (Nat \ {0})

VARIABLES
    write_head, read_head, commit_head,   \* the three shared heads
    array,      \* the shared cells
    pc,         \* where each process is; "idle" between two calls
    r_h, w_h,   \* the locals of the same name
    output,     \* the consumer's local of the same name
    sent,       \* sent[p]: writes of p that returned true
    claimed,    \* history: the items in the order their index was claimed
    received,   \* history: the items read() returned
    crashed,    \* the processes that have died
    crashes     \* how many deaths so far

heads == <<write_head, read_head, commit_head>>
locals == <<r_h, w_h, output>>
history == <<sent, claimed, received>>
failures == <<crashed, crashes>>
vars == <<heads, array, pc, locals, history, failures>>

(* mem_layout[i]: i & (size - 1), size a power of two *)
Slot(i) == i % Size

(* What the caller of write() is offering: it offers it again when refused *)
ItemOf(p) == <<p, sent[p] + 1>>

Live(q) == q \notin crashed

Init ==
    /\ write_head = 0 /\ read_head = 0 /\ commit_head = 0
    /\ array = [s \in 0 .. Size - 1 |-> NoItem]
    /\ pc = [q \in Procs |-> "idle"]
    /\ r_h = [q \in Procs |-> 0]
    /\ w_h = [q \in Procs |-> 0]
    /\ output = NoItem
    /\ sent = [p \in Producers |-> 0]
    /\ claimed = << >> /\ received = << >>
    /\ crashed = {} /\ crashes = 0

Goto(q, label) == pc' = [pc EXCEPT ![q] = label]

-----------------------------------------------------------------------------
(* Producer::write *)

(* read_head.load, on entry and after each failed claim *)
LoadReadHead(p) ==
    /\ Live(p)
    /\ \/ pc[p] = "idle" /\ sent[p] < MaxWrites
       \/ pc[p] = "retry"
    /\ r_h' = [r_h EXCEPT ![p] = read_head]
    /\ Goto(p, "load")
    /\ UNCHANGED <<heads, array, w_h, output, history, failures>>

(* write_head.load shows Size items: return false *)
ReportFull(p) ==
    /\ Live(p) /\ pc[p] = "load"
    /\ write_head - r_h[p] >= Size
    /\ r_h' = [r_h EXCEPT ![p] = 0]
    /\ Goto(p, "idle")
    /\ UNCHANGED <<heads, array, w_h, output, history, failures>>

(* write_head.load shows room *)
LoadWriteHeadOffByOne(p) ==
    /\ Live(p) /\ pc[p] = "load"
    /\ write_head - r_h[p] <= Size
    /\ w_h' = [w_h EXCEPT ![p] = write_head]
    /\ Goto(p, "claim")
    /\ UNCHANGED <<heads, array, r_h, output, history, failures>>
LoadWriteHeadForgettingReader(p) ==
    /\ Live(p) /\ pc[p] = "load"
    /\ write_head < Size
    /\ w_h' = [w_h EXCEPT ![p] = write_head]
    /\ Goto(p, "claim")
    /\ UNCHANGED <<heads, array, r_h, output, history, failures>>
LoadWriteHead(p) ==
    /\ Live(p) /\ pc[p] = "load"
    /\ write_head - r_h[p] < Size
    /\ w_h' = [w_h EXCEPT ![p] = write_head]
    /\ Goto(p, "claim")
    /\ UNCHANGED <<heads, array, r_h, output, history, failures>>

(* write_head.compare_exchange_weak(w_h, w_h + 1) succeeds *)
ClaimSlotWithoutCas(p) ==
    /\ Live(p) /\ pc[p] = "claim"
    /\ write_head' = w_h[p] + 1
    /\ claimed' = Append(claimed, ItemOf(p))
    /\ Goto(p, "store")
    /\ UNCHANGED <<read_head, commit_head, array, locals, sent, received, failures>>
ClaimSlot(p) ==
    /\ Live(p) /\ pc[p] = "claim"
    /\ write_head = w_h[p]
    /\ write_head' = w_h[p] + 1
    /\ claimed' = Append(claimed, ItemOf(p))
    /\ Goto(p, "store")
    /\ UNCHANGED <<read_head, commit_head, array, locals, sent, received, failures>>

(* ... or fails: another producer claimed the index, or spuriously *)
ClaimFails(p) ==
    /\ Live(p) /\ pc[p] = "claim"
    /\ write_head # w_h[p] \/ SpuriousFailure
    /\ r_h' = [r_h EXCEPT ![p] = 0]
    /\ w_h' = [w_h EXCEPT ![p] = 0]
    /\ Goto(p, "retry")
    /\ UNCHANGED <<heads, array, output, history, failures>>

(* mem_layout[w_h] = item *)
StoreItem(p) ==
    /\ Live(p) /\ pc[p] = "store"
    /\ array' = [array EXCEPT ![Slot(w_h[p])] = ItemOf(p)]
    /\ Goto(p, "commit")
    /\ UNCHANGED <<heads, locals, history, failures>>

(* commit_head.compare_exchange_weak(w_h, w_h + 1) succeeds: return true.  *)
(* A failed attempt changes nothing and is a stuttering step.              *)
CommitSlotOutOfOrder(p) ==
    /\ Live(p) /\ pc[p] = "commit"
    /\ commit_head' = commit_head + 1
    /\ sent' = [sent EXCEPT ![p] = @ + 1]
    /\ r_h' = [r_h EXCEPT ![p] = 0]
    /\ w_h' = [w_h EXCEPT ![p] = 0]
    /\ Goto(p, "idle")
    /\ UNCHANGED <<write_head, read_head, array, output, claimed, received, failures>>
CommitSlot(p) ==
    /\ Live(p) /\ pc[p] = "commit"
    /\ commit_head = w_h[p]
    /\ commit_head' = w_h[p] + 1
    /\ sent' = [sent EXCEPT ![p] = @ + 1]
    /\ r_h' = [r_h EXCEPT ![p] = 0]
    /\ w_h' = [w_h EXCEPT ![p] = 0]
    /\ Goto(p, "idle")
    /\ UNCHANGED <<write_head, read_head, array, output, claimed, received, failures>>

Write(p) ==
    \/ LoadReadHead(p) \/ ReportFull(p) \/ LoadWriteHead(p)
    \/ ClaimSlot(p) \/ ClaimFails(p) \/ StoreItem(p) \/ CommitSlot(p)

-----------------------------------------------------------------------------
(* Consumer::read *)

(* read_head.load *)
LoadOwnHead ==
    /\ Live(Consumer) /\ pc[Consumer] = "idle"
    /\ r_h' = [r_h EXCEPT ![Consumer] = read_head]
    /\ Goto(Consumer, "look")
    /\ UNCHANGED <<heads, array, w_h, output, history, failures>>

(* commit_head.load shows nothing: return nullopt *)
ReportEmpty ==
    /\ Live(Consumer) /\ pc[Consumer] = "look"
    /\ commit_head <= r_h[Consumer]
    /\ r_h' = [r_h EXCEPT ![Consumer] = 0]
    /\ Goto(Consumer, "idle")
    /\ UNCHANGED <<heads, array, w_h, output, history, failures>>

(* commit_head.load shows an item *)
LoadCommitHeadOffByOne ==
    /\ Live(Consumer) /\ pc[Consumer] = "look"
    /\ commit_head >= r_h[Consumer]
    /\ Goto(Consumer, "fetch")
    /\ UNCHANGED <<heads, array, locals, history, failures>>
LoadWriteHeadAsConsumer ==
    /\ Live(Consumer) /\ pc[Consumer] = "look"
    /\ write_head > r_h[Consumer]
    /\ Goto(Consumer, "fetch")
    /\ UNCHANGED <<heads, array, locals, history, failures>>
LoadCommitHead ==
    /\ Live(Consumer) /\ pc[Consumer] = "look"
    /\ commit_head > r_h[Consumer]
    /\ Goto(Consumer, "fetch")
    /\ UNCHANGED <<heads, array, locals, history, failures>>

(* output = mem_layout[r_h] *)
FetchItem ==
    /\ Live(Consumer) /\ pc[Consumer] = "fetch"
    /\ output' = array[Slot(r_h[Consumer])]
    /\ Goto(Consumer, "advance")
    /\ UNCHANGED <<heads, array, r_h, w_h, history, failures>>

(* read_head.fetch_add(1): return output *)
AdvanceReadHeadTwice ==
    /\ Live(Consumer) /\ pc[Consumer] = "advance"
    /\ read_head' = read_head + 2
    /\ received' = Append(received, output)
    /\ r_h' = [r_h EXCEPT ![Consumer] = 0]
    /\ output' = NoItem
    /\ Goto(Consumer, "idle")
    /\ UNCHANGED <<write_head, commit_head, array, w_h, sent, claimed, failures>>
AdvanceReadHead ==
    /\ Live(Consumer) /\ pc[Consumer] = "advance"
    /\ read_head' = read_head + 1
    /\ received' = Append(received, output)
    /\ r_h' = [r_h EXCEPT ![Consumer] = 0]
    /\ output' = NoItem
    /\ Goto(Consumer, "idle")
    /\ UNCHANGED <<write_head, commit_head, array, w_h, sent, claimed, failures>>

Read == LoadOwnHead \/ ReportEmpty \/ LoadCommitHead \/ FetchItem \/ AdvanceReadHead

-----------------------------------------------------------------------------
(* A process dies between two accesses; what it claimed stays claimed.     *)
Crash(q) ==
    /\ Live(q) /\ crashes < MaxCrashes
    /\ crashed' = crashed \cup {q}
    /\ crashes' = crashes + 1
    /\ UNCHANGED <<heads, array, pc, locals, history>>

(* Another process attaches in its place: neither class keeps state of its *)
(* own (Consumer and Producer hold only the layout), so it starts afresh.  *)
Restart(q) ==
    /\ q \in crashed
    /\ crashed' = crashed \ {q}
    /\ Goto(q, "idle")
    /\ r_h' = [r_h EXCEPT ![q] = 0]
    /\ w_h' = [w_h EXCEPT ![q] = 0]
    /\ output' = IF q = Consumer THEN NoItem ELSE output
    /\ UNCHANGED <<heads, array, history, crashes>>

Next ==
    \/ \E p \in Producers : Write(p)
    \/ Read
    \/ \E q \in Procs : Crash(q) \/ Restart(q)

Spec == Init /\ [][Next]_vars

(***************************************************************************)
(* A live process is scheduled, and both sides call again after a refusal  *)
(* (as the loops of tests/buffer_general_test.cpp do).  Nobody is obliged  *)
(* to restart what died.                                                   *)
(***************************************************************************)
FairSpec ==
    /\ Spec
    /\ \A p \in Producers : WF_vars(Write(p))
    /\ WF_vars(Read)

-----------------------------------------------------------------------------
Labels == {"idle", "retry", "load", "claim", "store", "commit",
           "look", "fetch", "advance"}

(* Type invariant: in particular the consumer only ever returns items that *)
(* some producer wrote, never the content of an untouched cell.            *)
TypeOK ==
    /\ write_head \in Nat /\ read_head \in Nat /\ commit_head \in Nat
    /\ array \in [0 .. Size - 1 -> Items \cup {NoItem}]
    /\ pc \in [Procs -> Labels]
    /\ r_h \in [Procs -> Nat] /\ w_h \in [Procs -> Nat]
    /\ output \in Items \cup {NoItem}
    /\ sent \in [Producers -> Nat]
    /\ claimed \in Seq(Items) /\ received \in Seq(Items)
    /\ crashed \in SUBSET Procs /\ crashes \in Nat

Ticket(p) == pc[p] \in {"store", "commit"}

(* The cell a process is about to copy an item to or from, without any     *)
(* synchronisation of its own (lines 138 and 89).                          *)
Touches(q, s) ==
    \/ pc[q] = "store" /\ s = Slot(w_h[q])
    \/ pc[q] = "fetch" /\ s = Slot(r_h[q])

(* No two processes are ever in the same cell at once: the plain copies of *)
(* write() and read() are free of data races, whoever crashed or restarted.*)
NoCellRace ==
    \A q1, q2 \in Procs : \A s \in 0 .. Size - 1 :
        Touches(q1, s) /\ Touches(q2, s) => q1 = q2

(* Every published and unread index still holds the item claimed for it:   *)
(* publishing never runs ahead of storing, and nobody overwrites a cell    *)
(* before the consumer is through with it.                                 *)
CommittedIntact ==
    \A i \in read_head .. commit_head - 1 : array[Slot(i)] = claimed[i + 1]

(* The consumer returned the items in the order their indices were         *)
(* claimed, none lost and none twice.                                      *)
FifoDelivery ==
    /\ Len(received) = read_head
    /\ read_head <= Len(claimed)
    /\ \A i \in 1 .. Len(received) : received[i] = claimed[i]

(* Refinement: the ring is the bounded queue whose contents are the cells  *)
(* between read_head and commit_head; an item enters when its commit CAS   *)
(* succeeds and leaves when read_head moves past it.                       *)
Published == [i \in 1 .. commit_head - read_head |-> array[Slot(read_head + i - 1)]]

Queue == INSTANCE BoundedQueue WITH queue <- Published

RefinesQueue == Queue!Spec

(* A claimed index that is not published and that no live producer holds   *)
Abandoned(i) ==
    /\ i \in commit_head .. write_head - 1
    /\ \A p \in Producers : Ticket(p) /\ w_h[p] = i => ~Live(p)

(* Every claimed index is read in the end, if from some moment on the      *)
(* consumer is alive and no index is left behind by a producer that died   *)
(* between its claim and its commit: that is the only way to wedge the     *)
(* ring, and a death anywhere else leaves the others working.              *)
StallOnlyFromAbandonedTicket ==
    <>[](Live(Consumer) /\ \A i \in 0 .. write_head : ~Abandoned(i))
        => <>[](read_head = write_head /\ \A p \in Producers : Live(p) => sent[p] = MaxWrites)

-----------------------------------------------------------------------------
(***************************************************************************)
(* The inductive invariant: why no two processes meet in a cell.           *)
(***************************************************************************)

(* Producers and the consumer run different code *)
Roles ==
    /\ \A p \in Producers : pc[p] \in {"idle", "retry", "load", "claim", "store", "commit"}
    /\ pc[Consumer] \in {"idle", "look", "fetch", "advance"}

HeadsOrdered ==
    /\ read_head <= commit_head /\ commit_head <= write_head
    /\ write_head <= read_head + Size
    /\ Len(claimed) = write_head

(* What a producer saw before it claims bounds what it may claim, however  *)
(* stale it is: read_head only grows, and the CAS checks write_head.       *)
ClaimBounded ==
    \A p \in Producers :
        /\ pc[p] = "load" => r_h[p] <= read_head
        /\ pc[p] = "claim" => w_h[p] < read_head + Size

(* An index is held by one producer, and only until it is published *)
TicketsOpen ==
    \A p \in Producers : Ticket(p) =>
        /\ commit_head <= w_h[p] /\ w_h[p] < write_head
        /\ claimed[w_h[p] + 1] = ItemOf(p)

TicketsDistinct ==
    \A p, q \in Producers : Ticket(p) /\ Ticket(q) /\ w_h[p] = w_h[q] => p = q

StoredIntact ==
    \A p \in Producers : pc[p] = "commit" => array[Slot(w_h[p])] = ItemOf(p)

ConsumerPlace ==
    /\ pc[Consumer] \in {"look", "fetch", "advance"} => r_h[Consumer] = read_head
    /\ pc[Consumer] \in {"fetch", "advance"} => read_head < commit_head
    /\ pc[Consumer] = "advance" => output = claimed[read_head + 1]

(* Everything above at once.  A ring whose producers published out of      *)
(* order, reused an index or a cell too early, or whose consumer trusted   *)
(* the wrong head would break one of its parts.                            *)
IndInv ==
    /\ TypeOK /\ Roles /\ HeadsOrdered /\ ClaimBounded
    /\ TicketsOpen /\ TicketsDistinct /\ StoredIntact
    /\ ConsumerPlace /\ CommittedIntact /\ FifoDelivery
=============================================================================
