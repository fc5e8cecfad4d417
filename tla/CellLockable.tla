---------------------------- MODULE CellLockable ----------------------------
(***************************************************************************)
(* The cell-lockable MPSC ring                                             *)
(* (src/src/buffer/ring/cell_lockable_approach.hpp) over the layout's      *)
(* try_read_lock and try_write_lock                                        *)
(* (src/src/buffer/layouts/lockless_ring_buffer_layout.hpp).  A producer   *)
(* takes a ticket by fetch_add on write_head, locks the cell of the        *)
(* ticket, stores, unlocks, and lowers read_head to just below the ticket  *)
(* if the consumer has passed it.  The consumer visits one ticket after    *)
(* the other, takes what it finds and skips empty cells; with read_lock it *)
(* gets a guard instead, uses the item in place and drops the guard later. *)
(*                                                                         *)
(* One action is one access to shared memory (inside a locked cell: one    *)
(* use of the cell) together with the local code up to the next one.       *)
(* Operators that Next does not use and whose name extends that of the     *)
(* action after them are plausible bugs of that action, kept to test the   *)
(* properties.                                                             *)
(***************************************************************************)
EXTENDS Integers, FiniteSets

CONSTANTS
    Producers,   \* the producer processes
    Consumer,    \* the one consumer process
    Size,        \* Layout::size
    MaxIndex,    \* the largest value of index_type
    MaxWrites,   \* bound: successful writes per producer
    MaxDeaths,   \* bound: how many producers may die
    Empty,       \* a cell with length 0
    NoTicket     \* an empty cache_w_h

ASSUME CellSizeAssumption == Size \in Nat \ {0}
ASSUME CellBoundAssumption == MaxIndex \in Nat /\ MaxWrites \in Nat /\ MaxDeaths \in Nat
ASSUME CellConsumerAssumption == Consumer \notin Producers
ASSUME CellValueAssumption ==
    /\ Empty \notin Producers \X (Nat \ {0})
    /\ NoTicket \notin Nat

Procs == Producers \cup {Consumer}
Slots == 0 .. Size - 1
Items == Producers \X (Nat \ {0})

VARIABLES
    write_head, read_head,  \* the shared heads
    cell,        \* cell[s]: the item in cell s, or Empty (length 0)
    locked,      \* the cells whose lock word is set
    pc,          \* where each process is; "idle" between two calls
    index,       \* w_h of a producer, r_h of the consumer
    cache_w_h,   \* cache_w_h[p]: a ticket kept from a refused write
    expected,    \* expected[p]: the local of the fetch-min loop
    output,      \* the consumer's local of the same name
    held,        \* the cells of the guards read_lock returned, not dropped yet
    sent,        \* sent[p]: writes of p that returned true
    received,    \* history: the items read() returned
    under,       \* history: under[s], the ticket cell s was filled under
    overlap,     \* history: did the consumer call while it held a guard?
    dead         \* the producers that have died

heads == <<write_head, read_head>>
cells == <<cell, locked, under>>
guards == <<held, overlap>>
locals == <<index, cache_w_h, expected, output, guards>>
vars == <<heads, cells, pc, locals, sent, received, dead>>

Slot(i) == i % Size
ItemOf(p) == <<p, sent[p] + 1>>
Before(i) == (i + MaxIndex) % (MaxIndex + 1)   \* i - 1 in index_type

(* CacheAlignedHeaderLine: its lock byte and its length *)
TryLock(s) == s \notin locked /\ locked' = locked \cup {s}
Unlock(s) == locked' = locked \ {s}
ContainsData(s) == cell[s] # Empty
ClearData(s) == cell' = [cell EXCEPT ![s] = Empty]
Assign(s, item) == cell' = [cell EXCEPT ![s] = item]   \* the lock byte stays

Init ==
    /\ write_head = 0 /\ read_head = 0
    /\ cell = [s \in Slots |-> Empty]
    /\ locked = {}
    /\ pc = [q \in Procs |-> "idle"]
    /\ index = [q \in Procs |-> 0]
    /\ cache_w_h = [p \in Producers |-> NoTicket]
    /\ expected = [p \in Producers |-> 0]
    /\ output = Empty
    /\ held = {} /\ overlap = FALSE
    /\ sent = [p \in Producers |-> 0]
    /\ received = {}
    /\ under = [s \in Slots |-> 0]
    /\ dead = {}

Step(q, from, to) ==
    /\ q \notin dead
    /\ pc[q] = from
    /\ pc' = [pc EXCEPT ![q] = to]

-----------------------------------------------------------------------------
(* ProducerConsumer::write *)

(* w_h = cache_w_h.value(); cache_w_h = nullopt *)
UseCachedTicket(p) ==
    /\ Step(p, "idle", "check")
    /\ sent[p] < MaxWrites /\ cache_w_h[p] # NoTicket
    /\ index' = [index EXCEPT ![p] = cache_w_h[p]]
    /\ cache_w_h' = [cache_w_h EXCEPT ![p] = NoTicket]
    /\ UNCHANGED <<heads, cells, expected, output, guards, sent, received, dead>>

(* w_h = write_head.fetch_add(1): first round, or after an occupied cell *)
TakeTicket(p) ==
    /\ \/ Step(p, "idle", "check") /\ sent[p] < MaxWrites
       \/ Step(p, "again", "check")
    /\ cache_w_h[p] = NoTicket
    /\ index' = [index EXCEPT ![p] = write_head]
    /\ write_head' = write_head + 1
    /\ UNCHANGED <<read_head, cells, cache_w_h, expected, output, guards, sent, received, dead>>

(* read_head.load shows no room: cache_w_h = w_h; return false *)
ReportFullDroppingTicket(p) ==
    /\ Step(p, "check", "idle")
    /\ index[p] >= Size + read_head
    /\ write_head' = write_head - 1
    /\ index' = [index EXCEPT ![p] = 0]
    /\ UNCHANGED <<read_head, cells, cache_w_h, expected, output, guards, sent, received, dead>>
ReportFull(p) ==
    /\ Step(p, "check", "idle")
    /\ index[p] >= Size + read_head
    /\ cache_w_h' = [cache_w_h EXCEPT ![p] = index[p]]
    /\ index' = [index EXCEPT ![p] = 0]
    /\ UNCHANGED <<heads, cells, expected, output, guards, sent, received, dead>>

(* read_head.load shows room *)
SeeRoom(p) ==
    /\ Step(p, "check", "lock")
    /\ index[p] < Size + read_head
    /\ UNCHANGED <<heads, cells, locals, sent, received, dead>>

(* try_lock succeeds; a failed attempt is a stuttering step of the spin *)
LockCellUntested(q) ==
    /\ Step(q, "lock", "locked")
    /\ locked' = locked \cup {Slot(index[q])}
    /\ UNCHANGED <<heads, cell, under, locals, sent, received, dead>>
LockCell(q) ==
    /\ Step(q, "lock", "locked")
    /\ TryLock(Slot(index[q]))
    /\ UNCHANGED <<heads, cell, under, locals, sent, received, dead>>

(* contains_data: the guard unlocks, the loop takes another ticket *)
LeaveOccupiedCell(p) ==
    /\ Step(p, "locked", "again")
    /\ ContainsData(Slot(index[p]))
    /\ Unlock(Slot(index[p]))
    /\ UNCHANGED <<heads, cell, under, locals, sent, received, dead>>

(* **l_g_opt = item *)
StoreItemOverwriting(p) ==
    /\ Step(p, "locked", "unlock")
    /\ Assign(Slot(index[p]), ItemOf(p))
    /\ under' = [under EXCEPT ![Slot(index[p])] = index[p]]
    /\ UNCHANGED <<heads, locked, locals, sent, received, dead>>
StoreItem(p) ==
    /\ Step(p, "locked", "unlock")
    /\ ~ContainsData(Slot(index[p]))
    /\ Assign(Slot(index[p]), ItemOf(p))
    /\ under' = [under EXCEPT ![Slot(index[p])] = index[p]]
    /\ UNCHANGED <<heads, locked, locals, sent, received, dead>>

(* the writer guard unlocks *)
UnlockCell(p) ==
    /\ Step(p, "unlock", "min")
    /\ Unlock(Slot(index[p]))
    /\ UNCHANGED <<heads, cell, under, locals, sent, received, dead>>

ReturnTrue(p, from) ==
    /\ Step(p, from, "idle")
    /\ sent' = [sent EXCEPT ![p] = @ + 1]
    /\ index' = [index EXCEPT ![p] = 0]
    /\ expected' = [expected EXCEPT ![p] = 0]
    /\ UNCHANGED <<cells, cache_w_h, output, guards, received, dead>>

(* expected = read_head.load, or what a failed CAS found there: go on if   *)
(* the consumer is past the ticket's predecessor ...                       *)
FindReaderPast(p) ==
    /\ Step(p, "min", "cas") \/ (Step(p, "cas", "cas") /\ expected[p] # read_head)
    /\ Before(index[p]) < read_head
    /\ expected' = [expected EXCEPT ![p] = read_head]
    /\ UNCHANGED <<heads, cells, index, cache_w_h, output, guards, sent, received, dead>>

(* ... and return true if it is not *)
FindReaderBelow(p) ==
    /\ \/ ReturnTrue(p, "min")
       \/ ReturnTrue(p, "cas") /\ expected[p] # read_head
    /\ Before(index[p]) >= read_head
    /\ UNCHANGED heads

(* read_head.compare_exchange_weak(expected, val): return true *)
LowerReadHeadToTicket(p) ==
    /\ ReturnTrue(p, "cas")
    /\ read_head = expected[p]
    /\ read_head' = index[p]
    /\ UNCHANGED write_head
LowerReadHead(p) ==
    /\ ReturnTrue(p, "cas")
    /\ read_head = expected[p]
    /\ read_head' = Before(index[p])
    /\ UNCHANGED write_head

Write(p) ==
    \/ UseCachedTicket(p) \/ TakeTicket(p) \/ ReportFull(p) \/ SeeRoom(p)
    \/ LockCell(p) \/ LeaveOccupiedCell(p) \/ StoreItem(p)
    \/ UnlockCell(p) \/ FindReaderPast(p) \/ FindReaderBelow(p) \/ LowerReadHead(p)

-----------------------------------------------------------------------------
(* ProducerConsumer::read and read_lock *)

(* read_head.load *)
LoadReadHead ==
    /\ Step(Consumer, "idle", "look")
    /\ index' = [index EXCEPT ![Consumer] = read_head]
    /\ overlap' = (overlap \/ held # {})
    /\ UNCHANGED <<heads, cells, cache_w_h, expected, output, held, sent, received, dead>>

(* write_head.load: no ticket was taken at r_h; return nullopt *)
ReportEmpty ==
    /\ Step(Consumer, "look", "idle")
    /\ index[Consumer] >= write_head
    /\ index' = [index EXCEPT ![Consumer] = 0]
    /\ UNCHANGED <<heads, cells, cache_w_h, expected, output, guards, sent, received, dead>>

SeeTicketOffByOne ==
    /\ Step(Consumer, "look", "lock")
    /\ index[Consumer] <= write_head
    /\ UNCHANGED <<heads, cells, locals, sent, received, dead>>
SeeTicket ==
    /\ Step(Consumer, "look", "lock")
    /\ index[Consumer] < write_head
    /\ UNCHANGED <<heads, cells, locals, sent, received, dead>>

(* output = **l_g_opt; the reader guard clears the cell and unlocks it.    *)
(* The guard does the same to a cell found empty.                          *)
TakeFromCell ==
    /\ Step(Consumer, "locked", "advance")
    /\ output' = cell[Slot(index[Consumer])]
    /\ ClearData(Slot(index[Consumer]))
    /\ Unlock(Slot(index[Consumer]))
    /\ UNCHANGED <<heads, under, index, cache_w_h, expected, guards, sent, received, dead>>

(* read_lock finds an item: it returns a guard of the cell *)
KeepGuard ==
    /\ Step(Consumer, "locked", "idle")
    /\ ContainsData(Slot(index[Consumer]))
    /\ held' = held \cup {Slot(index[Consumer])}
    /\ index' = [index EXCEPT ![Consumer] = 0]
    /\ UNCHANGED <<heads, cells, cache_w_h, expected, output, overlap, sent, received, dead>>

(* The caller drops a guard: ReaderDataGuard calls the guard of the cell,  *)
(* which clears the cell and unlocks it, and goes on to its fetch_add      *)
DropGuard(s) ==
    /\ Step(Consumer, "idle", "advance")
    /\ s \in held
    /\ held' = held \ {s}
    /\ output' = cell[s]
    /\ ClearData(s)
    /\ Unlock(s)
    /\ UNCHANGED <<heads, under, index, cache_w_h, expected, overlap, sent, received, dead>>

(* read_head.fetch_add(1); return the item, or nullopt *)
AdvanceReadHeadReturningEmpty ==
    /\ Step(Consumer, "advance", "idle")
    /\ read_head' = read_head + 1
    /\ received' = received \cup {output}
    /\ output' = Empty
    /\ index' = [index EXCEPT ![Consumer] = 0]
    /\ UNCHANGED <<write_head, cells, cache_w_h, expected, guards, sent, dead>>
AdvanceReadHead ==
    /\ Step(Consumer, "advance", "idle")
    /\ read_head' = read_head + 1
    /\ received' = received \cup ({output} \ {Empty})
    /\ output' = Empty
    /\ index' = [index EXCEPT ![Consumer] = 0]
    /\ UNCHANGED <<write_head, cells, cache_w_h, expected, guards, sent, dead>>

Read ==
    \/ LoadReadHead \/ ReportEmpty \/ SeeTicket \/ LockCell(Consumer)
    \/ TakeFromCell \/ AdvanceReadHead
    \/ KeepGuard \/ \E s \in Slots : DropGuard(s)

-----------------------------------------------------------------------------
(* A producer dies between two steps, with its ticket and its lock *)
Die(p) ==
    /\ p \notin dead /\ Cardinality(dead) < MaxDeaths
    /\ dead' = dead \cup {p}
    /\ UNCHANGED <<heads, cells, pc, locals, sent, received>>

Next ==
    \/ \E p \in Producers : Write(p) \/ Die(p)
    \/ Read

Spec == Init /\ [][Next]_vars

(* A live process is scheduled, calls again after a refusal and drops the  *)
(* guards it has.  The cell locks are test-and-set locks: nothing says who *)
(* gets one next.                                                          *)
FairSpec ==
    /\ Spec
    /\ \A p \in Producers : WF_vars(Write(p))
    /\ WF_vars(Read)

-----------------------------------------------------------------------------
(* Type invariant: in particular read() returns only items.                *)
TypeOK ==
    /\ write_head \in Nat /\ read_head \in Nat
    /\ cell \in [Slots -> Items \cup {Empty}]
    /\ locked \in SUBSET Slots
    /\ pc \in [Procs -> {"idle", "check", "lock", "locked", "again",
                         "unlock", "min", "cas", "look", "advance"}]
    /\ index \in [Procs -> Nat]
    /\ cache_w_h \in [Producers -> Nat \cup {NoTicket}]
    /\ expected \in [Producers -> Nat]
    /\ output \in Items \cup {Empty}
    /\ held \in SUBSET Slots /\ overlap \in BOOLEAN
    /\ sent \in [Producers -> Nat]
    /\ received \in SUBSET Items
    /\ under \in [Slots -> Nat]
    /\ dead \in SUBSET Producers

InCell(q, s) ==
    \/ pc[q] \in {"locked", "unlock"} /\ Slot(index[q]) = s
    \/ q = Consumer /\ s \in held

(* The guards of try_read_lock and try_write_lock give exclusive access to *)
(* a cell (src/src/common/concepts/generic.hpp:58-59), although tickets of *)
(* different rounds and a lowered read_head send processes to it at once.  *)
CellExclusive ==
    \A s \in Slots : \A q1, q2 \in Procs :
        InCell(q1, s) /\ InCell(q2, s) => q1 = q2

(* The consumer has a fetch_add of read_head ahead of it *)
AdvancePending == held # {} \/ pc[Consumer] \in {"look", "lock", "locked", "advance"}

(* The producer of the item in cell s has not finished its fetch-min yet *)
Unsettled(s) ==
    \E p \in Producers : pc[p] \in {"unlock", "min", "cas"} /\ index[p] = under[s]

(* No item is left behind: once the write that stored it is through its    *)
(* fetch-min, the consumer is either on its way to the very cell or will   *)
(* still come to the item's ticket, even if one fetch_add that it decided  *)
(* on earlier, or that a guard it keeps will do, is still to come.  The    *)
(* exceptions are ticket 0, whose predecessor in index_type is the largest *)
(* index, and a consumer that called again while it held a guard, so that  *)
(* two fetch_adds are to come.                                             *)
NothingLeftBehind ==
    \A s \in Slots \ held :
        cell[s] # Empty /\ under[s] > 0 /\ ~Unsettled(s) /\ ~overlap =>
            \/ read_head + (IF AdvancePending THEN 1 ELSE 0) <= under[s]
            \/ pc[Consumer] \in {"look", "lock", "locked"} /\ Slot(index[Consumer]) = s

(* The consumer never runs ahead of the tickets that were taken, so that a *)
(* ticket not yet taken is never passed over, unless it called while it    *)
(* held a guard: then one fetch_add can come too many.                     *)
ReaderBehindTickets ==
    ~overlap => LET calling == held # {} \/ pc[Consumer] \in {"lock", "locked", "advance"}
                IN  read_head + (IF calling THEN 1 ELSE 0) <= write_head

(* Refinement: the ring is a pool of at most Size items, each of which is  *)
(* handed over exactly once.  An item enters when it is stored and leaves  *)
(* when the consumer clears its cell.                                      *)
InPool == {cell[s] : s \in Slots} \ {Empty}
Stored(p) == sent[p] + IF pc[p] \in {"unlock", "min", "cas"} THEN 1 ELSE 0

Pool == INSTANCE UnorderedPool
            WITH pool <- InPool,
                 sent <- [p \in Producers |-> Stored(p)],
                 received <- received \cup ({output} \ {Empty})

RefinesPool == Pool!Spec

(* A producer that died holding the lock of a cell *)
DiedInCell == \E p \in dead, s \in Slots : InCell(p, s)

(* Every write is accepted and every item read in the end, unless a        *)
(* producer died inside a cell or the consumer called while it held a      *)
(* guard, when it may come to that guard's own cell; a death anywhere else *)
(* costs at most the item of the call it cut short.  The items stored      *)
(* under ticket 0 are left out: see EveryItemRead.                         *)
LaterItemsRead ==
    <>(DiedInCell \/ overlap) \/
    <>[](/\ \A p \in Producers \ dead : sent[p] = MaxWrites
         /\ \A s \in Slots : cell[s] # Empty => under[s] = 0 \/ Unsettled(s))

(* The reader of tests/buffer_general_test.cpp:205-222 expects every item  *)
(* written to arrive ("All Found"); it drops a guard before the next call. *)
EveryItemRead == <>overlap \/ <>[](\A s \in Slots : cell[s] = Empty)
=============================================================================
