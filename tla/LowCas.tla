------------------------------- MODULE LowCas -------------------------------
(***************************************************************************)
(* The low-CAS MPSC ring                                                   *)
(* (src/src/static_lowcas_lockless_ring_buffer.hpp).  A producer takes a   *)
(* ticket by fetch_add on write_head and gives it back by fetch_sub when   *)
(* the ring is full; it never waits for a cell, but takes another ticket   *)
(* when the cell is locked or filled.  The consumer visits one ticket      *)
(* after the other and empties every cell it visits.                       *)
(*                                                                         *)
(* Of a cell only its header is modelled: the lock bit and whether the     *)
(* length is positive.  What the data is worth when two processes are in   *)
(* one cell (torn copies) is left out: no property here looks at it.  One  *)
(* action is one access to shared memory with the local code after it.     *)
(* The bound on tickets is there because nothing bounds them: a producer   *)
(* may find every cell it comes to locked, and the consumer, who empties   *)
(* one cell after the other, may be the one who locks them.                *)
(* Operators that Next does not use and whose name extends that of the     *)
(* action after them are plausible bugs of that action, kept to test the   *)
(* properties.                                                             *)
(***************************************************************************)
EXTENDS Naturals, FiniteSets

CONSTANTS
    Producers,   \* the producer processes
    Consumer,    \* the one consumer process
    Size,        \* U_size
    MaxWrites,   \* bound: successful writes per producer
    MaxTickets,  \* bound: the largest ticket
    MaxDeaths    \* bound: how many processes may die

ASSUME LowCasSizeAssumption == Size \in Nat \ {0}
ASSUME LowCasBoundAssumption == MaxWrites \in Nat /\ MaxTickets \in Nat /\ MaxDeaths \in Nat
ASSUME LowCasConsumerAssumption == Consumer \notin Producers
ASSUME LowCasFiniteAssumption == IsFiniteSet(Producers)

Procs == Producers \cup {Consumer}
Slots == 0 .. Size - 1

VARIABLES
    write_head, read_head,  \* the shared heads
    filled,      \* the cells whose length is positive
    locked,      \* the cells whose LOCK_BIT is set
    pc,          \* where each process is; "idle" between two calls
    r_h, w_h,    \* the locals of the same name
    expected,    \* expected[p]: the local of the fetch-min loop
    output,      \* the consumer's local of the same name: is its length positive?
    mine,        \* history: the lock bit was clear when read() set it
    sent,        \* sent[p]: writes of p that returned true
    under,       \* history: under[s], the ticket a filled cell s was filled under
    dead         \* the processes that have died

heads == <<write_head, read_head>>
cells == <<filled, locked, under>>
locals == <<r_h, w_h, expected, output, mine>>
vars == <<heads, cells, pc, locals, sent, dead>>

Slot(i) == i % Size

(* The heads start at 1, so that the predecessor of the first ticket is 0 *)
InitAtZero == write_head = 0 /\ read_head = 0
InitHeads == write_head = 1 /\ read_head = 1

Init ==
    /\ InitHeads
    /\ filled = {} /\ locked = {}
    /\ pc = [q \in Procs |-> "idle"]
    /\ r_h = [q \in Procs |-> 0]
    /\ w_h = [p \in Producers |-> 0]
    /\ expected = [p \in Producers |-> 0]
    /\ output = FALSE /\ mine = FALSE
    /\ sent = [p \in Producers |-> 0]
    /\ under = [s \in Slots |-> 0]
    /\ dead = {}

Step(q, from, to) ==
    /\ q \notin dead
    /\ pc[q] = from
    /\ pc' = [pc EXCEPT ![q] = to]

-----------------------------------------------------------------------------
(* LockLessRingBufferLowCASWrite::write *)

(* r_h = read_head.load *)
LoadReadHead(p) ==
    /\ \/ Step(p, "idle", "ticket") /\ sent[p] < MaxWrites
       \/ Step(p, "again", "ticket")
    /\ r_h' = [r_h EXCEPT ![p] = read_head]
    /\ UNCHANGED <<heads, cells, w_h, expected, output, mine, sent, dead>>

(* w_h = write_head.fetch_add(1): within the size of r_h ... *)
TakeTicket(p) ==
    /\ Step(p, "ticket", "lock")
    /\ write_head < Size + r_h[p] /\ write_head <= MaxTickets
    /\ w_h' = [w_h EXCEPT ![p] = write_head]
    /\ write_head' = write_head + 1
    /\ UNCHANGED <<read_head, cells, r_h, expected, output, mine, sent, dead>>

(* ... or beyond it *)
TakeTicketBeyond(p) ==
    /\ Step(p, "ticket", "refuse")
    /\ write_head >= Size + r_h[p] /\ write_head <= MaxTickets
    /\ w_h' = [w_h EXCEPT ![p] = write_head]
    /\ write_head' = write_head + 1
    /\ UNCHANGED <<read_head, cells, r_h, expected, output, mine, sent, dead>>

Forget(p) ==
    /\ r_h' = [r_h EXCEPT ![p] = 0]
    /\ w_h' = [w_h EXCEPT ![p] = 0]
    /\ expected' = [expected EXCEPT ![p] = 0]

(* write_head.fetch_sub(1); return false *)
GiveTicketBackTwice(p) ==
    /\ Step(p, "refuse", "idle")
    /\ write_head' = write_head - 2
    /\ Forget(p)
    /\ UNCHANGED <<read_head, cells, output, mine, sent, dead>>
GiveTicketBack(p) ==
    /\ Step(p, "refuse", "idle")
    /\ write_head' = write_head - 1
    /\ Forget(p)
    /\ UNCHANGED <<read_head, cells, output, mine, sent, dead>>

(* try_lock sets the bit of an empty cell *)
LockEmptyCell(p) ==
    /\ Step(p, "lock", "store")
    /\ Slot(w_h[p]) \notin locked \cup filled
    /\ locked' = locked \cup {Slot(w_h[p])}
    /\ UNCHANGED <<heads, filled, under, locals, sent, dead>>

(* try_lock finds it set: take another ticket *)
FindCellLocked(p) ==
    /\ Step(p, "lock", "again")
    /\ Slot(w_h[p]) \in locked
    /\ UNCHANGED <<heads, cells, locals, sent, dead>>

(* try_lock sets the bit of a filled cell ... *)
LockFilledCell(p) ==
    /\ Step(p, "lock", "release")
    /\ Slot(w_h[p]) \in filled \ locked
    /\ locked' = locked \cup {Slot(w_h[p])}
    /\ UNCHANGED <<heads, filled, under, locals, sent, dead>>

(* ... and clears it again: take another ticket *)
ReleaseFilledCell(p) ==
    /\ Step(p, "release", "again")
    /\ locked' = locked \ {Slot(w_h[p])}
    /\ UNCHANGED <<heads, filled, under, locals, sent, dead>>

(* *array_loc = item: the item's header has its lock bit set *)
StoreItem(p) ==
    /\ Step(p, "store", "publish")
    /\ filled' = filled \cup {Slot(w_h[p])}
    /\ locked' = locked \cup {Slot(w_h[p])}
    /\ under' = [under EXCEPT ![Slot(w_h[p])] = w_h[p]]
    /\ UNCHANGED <<heads, locals, sent, dead>>

(* counter.atomic_store: the item's header with the bit clear *)
PublishItem(p) ==
    /\ Step(p, "publish", "min")
    /\ filled' = filled \cup {Slot(w_h[p])}
    /\ locked' = locked \ {Slot(w_h[p])}
    /\ under' = [under EXCEPT ![Slot(w_h[p])] = w_h[p]]
    /\ UNCHANGED <<heads, locals, sent, dead>>

ReturnTrue(p, from) ==
    /\ Step(p, from, "idle")
    /\ sent' = [sent EXCEPT ![p] = @ + 1]
    /\ Forget(p)
    /\ UNCHANGED <<cells, output, mine, dead>>

(* expected = read_head.load, or what a failed CAS found there: go on if   *)
(* the consumer is past the ticket's predecessor ...                       *)
FindReaderPast(p) ==
    /\ Step(p, "min", "cas") \/ (Step(p, "cas", "cas") /\ expected[p] # read_head)
    /\ w_h[p] - 1 < read_head
    /\ expected' = [expected EXCEPT ![p] = read_head]
    /\ UNCHANGED <<heads, cells, r_h, w_h, output, mine, sent, dead>>

(* ... and return true if it is not *)
FindReaderBelow(p) ==
    /\ \/ ReturnTrue(p, "min")
       \/ ReturnTrue(p, "cas") /\ expected[p] # read_head
    /\ w_h[p] - 1 >= read_head
    /\ UNCHANGED heads

(* read_head.compare_exchange_weak(expected, val): return true *)
LowerReadHeadToTicket(p) ==
    /\ ReturnTrue(p, "cas")
    /\ read_head = expected[p]
    /\ read_head' = w_h[p]
    /\ UNCHANGED write_head
LowerReadHead(p) ==
    /\ ReturnTrue(p, "cas")
    /\ read_head = expected[p]
    /\ read_head' = w_h[p] - 1
    /\ UNCHANGED write_head

Write(p) ==
    \/ LoadReadHead(p) \/ TakeTicket(p) \/ TakeTicketBeyond(p) \/ GiveTicketBack(p)
    \/ LockEmptyCell(p) \/ FindCellLocked(p) \/ LockFilledCell(p) \/ ReleaseFilledCell(p)
    \/ StoreItem(p) \/ PublishItem(p)
    \/ FindReaderPast(p) \/ FindReaderBelow(p) \/ LowerReadHead(p)

-----------------------------------------------------------------------------
(* LockLessRingBufferLowCASRead::read *)

(* r_h = read_head.load *)
LoadOwnHead ==
    /\ Step(Consumer, "idle", "look")
    /\ r_h' = [r_h EXCEPT ![Consumer] = read_head]
    /\ UNCHANGED <<heads, cells, w_h, expected, output, mine, sent, dead>>

(* write_head.load: no ticket was taken at r_h; return nullopt *)
ReportEmpty ==
    /\ Step(Consumer, "look", "idle")
    /\ write_head <= r_h[Consumer]
    /\ r_h' = [r_h EXCEPT ![Consumer] = 0]
    /\ UNCHANGED <<heads, cells, w_h, expected, output, mine, sent, dead>>

SeeTicketOffByOne ==
    /\ Step(Consumer, "look", "wait")
    /\ write_head >= r_h[Consumer]
    /\ UNCHANGED <<heads, cells, locals, sent, dead>>
SeeTicket ==
    /\ Step(Consumer, "look", "wait")
    /\ write_head > r_h[Consumer]
    /\ UNCHANGED <<heads, cells, locals, sent, dead>>

(* try_read_lock sets the bit and returns the length: the loop goes on ... *)
LockFreeCell ==
    /\ Step(Consumer, "wait", "wait")
    /\ Slot(r_h[Consumer]) \notin locked
    /\ locked' = locked \cup {Slot(r_h[Consumer])}
    /\ mine' = TRUE
    /\ UNCHANGED <<heads, filled, under, r_h, w_h, expected, output, sent, dead>>

(* ... and ends at NO_VALUE: the bit was set, by whomever *)
FindLocked ==
    /\ Step(Consumer, "wait", "copy")
    /\ Slot(r_h[Consumer]) \in locked
    /\ UNCHANGED <<heads, cells, locals, sent, dead>>

(* output = *array_loc *)
CopyItem ==
    /\ Step(Consumer, "copy", "reset")
    /\ output' = (Slot(r_h[Consumer]) \in filled)
    /\ UNCHANGED <<heads, cells, r_h, w_h, expected, mine, sent, dead>>

(* counter.atomic_store(RESET): length 0, bit clear *)
ResetCell ==
    /\ Step(Consumer, "reset", "advance")
    /\ filled' = filled \ {Slot(r_h[Consumer])}
    /\ locked' = locked \ {Slot(r_h[Consumer])}
    /\ under' = [under EXCEPT ![Slot(r_h[Consumer])] = 0]
    /\ mine' = FALSE
    /\ UNCHANGED <<heads, r_h, w_h, expected, output, sent, dead>>

(* read_head.fetch_add(1); return the item if its length is positive *)
AdvanceReadHead ==
    /\ Step(Consumer, "advance", "idle")
    /\ read_head' = read_head + 1
    /\ r_h' = [r_h EXCEPT ![Consumer] = 0]
    /\ output' = FALSE
    /\ UNCHANGED <<write_head, cells, w_h, expected, mine, sent, dead>>

Read ==
    \/ LoadOwnHead \/ ReportEmpty \/ SeeTicket \/ LockFreeCell \/ FindLocked
    \/ CopyItem \/ ResetCell \/ AdvanceReadHead

-----------------------------------------------------------------------------
(* A process dies between two accesses, with its ticket and its lock *)
Die(q) ==
    /\ q \notin dead /\ Cardinality(dead) < MaxDeaths
    /\ dead' = dead \cup {q}
    /\ UNCHANGED <<heads, cells, pc, locals, sent>>

Next ==
    \/ \E p \in Producers : Write(p)
    \/ Read
    \/ \E q \in Procs : Die(q)

Spec == Init /\ [][Next]_vars

-----------------------------------------------------------------------------
(* Type invariant: in particular no head is ever taken below zero.         *)
TypeOK ==
    /\ write_head \in Nat /\ read_head \in Nat
    /\ filled \in SUBSET Slots /\ locked \in SUBSET Slots
    /\ pc \in [Procs -> {"idle", "again", "ticket", "refuse", "lock", "release",
                         "store", "publish", "min", "cas",
                         "look", "wait", "copy", "reset", "advance"}]
    /\ r_h \in [Procs -> Nat] /\ w_h \in [Producers -> Nat]
    /\ expected \in [Producers -> Nat]
    /\ output \in BOOLEAN /\ mine \in BOOLEAN
    /\ sent \in [Producers -> Nat]
    /\ under \in [Slots -> Nat]
    /\ dead \in SUBSET Procs

(* The producer of the item in cell s has not finished its fetch-min yet *)
Unsettled(s) ==
    \E p \in Producers : pc[p] \in {"publish", "min", "cas"} /\ w_h[p] = under[s]

(* The consumer has a fetch_add of read_head ahead of it *)
AdvancePending == pc[Consumer] \in {"look", "wait", "copy", "reset", "advance"}

(* No item is passed over: once the write that stored it is through its    *)
(* fetch-min, read_head is low enough for the consumer to come to the      *)
(* item's ticket, even if one fetch_add that it decided on earlier is      *)
(* still to come, or the consumer is about to empty the very cell.         *)
NothingPassedOver ==
    \A s \in filled : ~Unsettled(s) =>
        \/ read_head + (IF AdvancePending THEN 1 ELSE 0) <= under[s]
        \/ pc[Consumer] \in {"look", "wait", "copy", "reset"} /\ Slot(r_h[Consumer]) = s

(* The consumer runs past the tickets taken by no more than the number of  *)
(* producers, however often they took a ticket beyond the size and gave it *)
(* back while it was looking: only those that are not about to give one    *)
(* back can have let it pass.                                              *)
ReaderAheadBounded ==
    read_head + (IF pc[Consumer] \in {"wait", "copy", "reset", "advance"} THEN 1 ELSE 0)
        <= write_head + Cardinality({p \in Producers : pc[p] # "refuse"})

(* The comment after the wait loop, line 179: "Now we know that we locked  *)
(* it :)".  The bit of the cell that read() copies and resets was set by   *)
(* read() itself.                                                          *)
ReaderLocksCell == pc[Consumer] \in {"copy", "reset"} => mine

=============================================================================
