------------------------------ MODULE CellOpt1 ------------------------------
(***************************************************************************)
(* The first optimisation of the cell-lockable ring                        *)
(* (src/src/buffer/ring/cell_lockable_approach_opt_1.hpp), over the same   *)
(* layout.  A producer takes no ticket: it loads write_head, locks the     *)
(* cell of that index, advances write_head while it holds the lock, and    *)
(* stores.  No producer lowers read_head.                                  *)
(*                                                                         *)
(* One action is one access to shared memory (inside a locked cell: one    *)
(* use of the cell) together with the local code up to the next one.       *)
(* Operators that Next does not use and whose name extends that of the     *)
(* action after them are plausible bugs of that action, kept to test the   *)
(* properties.                                                             *)
(***************************************************************************)
EXTENDS Integers, FiniteSets

CONSTANTS
    Producers,   \* the producer processes
    Consumer,    \* the one consumer process
    Size,        \* Layout::size
    MaxWrites,   \* bound: successful writes per producer
    MaxDeaths,   \* bound: how many producers may die
    Empty        \* a cell with length 0

ASSUME OptSizeAssumption == Size \in Nat \ {0}
ASSUME OptBoundAssumption == MaxWrites \in Nat /\ MaxDeaths \in Nat
ASSUME OptConsumerAssumption == Consumer \notin Producers
ASSUME OptValueAssumption == Empty \notin Producers \X (Nat \ {0})

Procs == Producers \cup {Consumer}
Slots == 0 .. Size - 1
Items == Producers \X (Nat \ {0})

VARIABLES
    write_head, read_head,  \* the shared heads
    cell,        \* cell[s]: the item in cell s, or Empty (length 0)
    locked,      \* the cells whose lock word is set
    pc,          \* where each process is; "idle" between two calls
    index,       \* w_h of a producer, r_h of the consumer
    output,      \* the consumer's local of the same name
    sent,        \* sent[p]: writes of p that returned true
    received,    \* history: the items read() returned
    stale,       \* history: an item was stored at an index already used
    dead         \* the producers that have died

heads == <<write_head, read_head>>
cells == <<cell, locked>>
calls == <<sent, received, stale, dead>>
vars == <<heads, cells, pc, index, output, calls>>

Slot(i) == i % Size
ItemOf(p) == <<p, sent[p] + 1>>

Init ==
    /\ write_head = 0 /\ read_head = 0
    /\ cell = [s \in Slots |-> Empty]
    /\ locked = {}
    /\ pc = [q \in Procs |-> "idle"]
    /\ index = [q \in Procs |-> 0]
    /\ output = Empty
    /\ sent = [p \in Producers |-> 0]
    /\ received = {}
    /\ stale = FALSE
    /\ dead = {}

Step(q, from, to) ==
    /\ q \notin dead
    /\ pc[q] = from
    /\ pc' = [pc EXCEPT ![q] = to]

Load(q, head) == index' = [index EXCEPT ![q] = head]

-----------------------------------------------------------------------------
(* try_read_lock, try_write_lock: the test-and-set of the cell's lock word *)
(* succeeds; a failed attempt is a stuttering step of the spin             *)
LockCellUntested(q) ==
    /\ Step(q, "lock", "locked")
    /\ locked' = locked \cup {Slot(index[q])}
    /\ UNCHANGED <<heads, cell, index, output, calls>>
LockCell(q) ==
    /\ Step(q, "lock", "locked")
    /\ Slot(index[q]) \notin locked
    /\ locked' = locked \cup {Slot(index[q])}
    /\ UNCHANGED <<heads, cell, index, output, calls>>

-----------------------------------------------------------------------------
(* ProducerConsumer::write *)

(* w_h = write_head.load(): first round, or after an occupied cell *)
LoadWriteHead(p) ==
    /\ \/ Step(p, "idle", "check") /\ sent[p] < MaxWrites
       \/ Step(p, "again", "check")
    /\ Load(p, write_head)
    /\ UNCHANGED <<heads, cells, output, calls>>

(* r_h = read_head.load() shows no room: return false *)
ReportFull(p) ==
    /\ Step(p, "check", "idle")
    /\ index[p] >= Size + read_head
    /\ Load(p, 0)
    /\ UNCHANGED <<heads, cells, output, calls>>

(* r_h = read_head.load() shows room *)
SeeRoom(p) ==
    /\ Step(p, "check", "lock")
    /\ index[p] < Size + read_head
    /\ UNCHANGED <<heads, cells, index, output, calls>>

(* contains_data: try_write_lock unlocks and returns nullopt; continue *)
LeaveOccupiedCell(p) ==
    /\ Step(p, "locked", "again")
    /\ cell[Slot(index[p])] # Empty
    /\ locked' = locked \ {Slot(index[p])}
    /\ UNCHANGED <<heads, cell, index, output, calls>>

(* write_head.fetch_add(1), whatever write_head is by now *)
AdvanceWriteHeadUnlooked(p) ==
    /\ Step(p, "locked", "store")
    /\ write_head' = write_head + 1
    /\ stale' = (stale \/ index[p] # write_head)
    /\ UNCHANGED <<read_head, cells, index, output, sent, received, dead>>
AdvanceWriteHead(p) ==
    /\ Step(p, "locked", "store")
    /\ cell[Slot(index[p])] = Empty
    /\ write_head' = write_head + 1
    /\ stale' = (stale \/ index[p] # write_head)
    /\ UNCHANGED <<read_head, cells, index, output, sent, received, dead>>

(* **l_g_opt = item *)
StoreItem(p) ==
    /\ Step(p, "store", "unlock")
    /\ cell' = [cell EXCEPT ![Slot(index[p])] = ItemOf(p)]
    /\ UNCHANGED <<heads, locked, index, output, calls>>

(* the writer guard unlocks; return true *)
UnlockCell(p) ==
    /\ Step(p, "unlock", "idle")
    /\ locked' = locked \ {Slot(index[p])}
    /\ sent' = [sent EXCEPT ![p] = @ + 1]
    /\ Load(p, 0)
    /\ UNCHANGED <<heads, cell, output, received, stale, dead>>

Write(p) ==
    \/ LoadWriteHead(p) \/ ReportFull(p) \/ SeeRoom(p) \/ LockCell(p)
    \/ LeaveOccupiedCell(p) \/ AdvanceWriteHead(p) \/ StoreItem(p) \/ UnlockCell(p)

-----------------------------------------------------------------------------
(* ProducerConsumer::read *)

(* r_h = read_head.load() *)
LoadReadHead ==
    /\ Step(Consumer, "idle", "look")
    /\ Load(Consumer, read_head)
    /\ UNCHANGED <<heads, cells, output, calls>>

(* w_h = write_head.load() shows nothing stored: return nullopt *)
ReportEmptyLeavingOne ==
    /\ Step(Consumer, "look", "idle")
    /\ index[Consumer] + 1 >= write_head
    /\ Load(Consumer, 0)
    /\ UNCHANGED <<heads, cells, output, calls>>
ReportEmpty ==
    /\ Step(Consumer, "look", "idle")
    /\ index[Consumer] >= write_head
    /\ Load(Consumer, 0)
    /\ UNCHANGED <<heads, cells, output, calls>>

(* w_h = write_head.load() shows an index that was used *)
SeeItemOffByOne ==
    /\ Step(Consumer, "look", "lock")
    /\ index[Consumer] <= write_head
    /\ UNCHANGED <<heads, cells, index, output, calls>>
SeeItem ==
    /\ Step(Consumer, "look", "lock")
    /\ index[Consumer] < write_head
    /\ UNCHANGED <<heads, cells, index, output, calls>>

(* output = *l_g; the reader guard clears the cell and unlocks it, as it   *)
(* does when the cell is empty and output stays nullopt                    *)
TakeFromCell ==
    /\ Step(Consumer, "locked", "advance")
    /\ output' = cell[Slot(index[Consumer])]
    /\ cell' = [cell EXCEPT ![Slot(index[Consumer])] = Empty]
    /\ locked' = locked \ {Slot(index[Consumer])}
    /\ UNCHANGED <<heads, index, calls>>

(* read_head.fetch_add(1); return output *)
AdvanceReadHeadReturningEmpty ==
    /\ Step(Consumer, "advance", "idle")
    /\ read_head' = read_head + 1
    /\ received' = received \cup {output}
    /\ output' = Empty
    /\ Load(Consumer, 0)
    /\ UNCHANGED <<write_head, cells, sent, stale, dead>>
AdvanceReadHead ==
    /\ Step(Consumer, "advance", "idle")
    /\ read_head' = read_head + 1
    /\ received' = received \cup ({output} \ {Empty})
    /\ output' = Empty
    /\ Load(Consumer, 0)
    /\ UNCHANGED <<write_head, cells, sent, stale, dead>>

Read ==
    \/ LoadReadHead \/ ReportEmpty \/ SeeItem \/ LockCell(Consumer)
    \/ TakeFromCell \/ AdvanceReadHead

-----------------------------------------------------------------------------
(* A producer dies between two steps, with its lock *)
Die(p) ==
    /\ p \notin dead /\ Cardinality(dead) < MaxDeaths
    /\ dead' = dead \cup {p}
    /\ UNCHANGED <<heads, cells, pc, index, output, sent, received, stale>>

Next ==
    \/ \E p \in Producers : Write(p) \/ Die(p)
    \/ Read

Spec == Init /\ [][Next]_vars

(* A live process is scheduled and calls again after a refusal *)
FairSpec ==
    /\ Spec
    /\ \A p \in Producers : WF_vars(Write(p))
    /\ WF_vars(Read)

-----------------------------------------------------------------------------
(* Type invariant: in particular read() returns only items.                *)
TypeOK ==
    /\ write_head \in Nat /\ read_head \in Nat
    /\ cell \in [Slots -> Items \cup {Empty}]
    /\ locked \in SUBSET Slots
    /\ pc \in [Procs -> {"idle", "check", "lock", "locked", "again",
                         "store", "unlock", "look", "advance"}]
    /\ index \in [Procs -> Nat]
    /\ output \in Items \cup {Empty}
    /\ sent \in [Producers -> Nat]
    /\ received \in SUBSET Items
    /\ stale \in BOOLEAN
    /\ dead \in SUBSET Producers

InCell(q, s) == pc[q] \in {"locked", "store", "unlock"} /\ Slot(index[q]) = s

(* All variables keep their types, the consumer never passes an index      *)
(* before an item was promised there, and as long as no index was used     *)
(* twice the producers never run more than Size ahead of it, however old   *)
(* the read_head they decided on is.                                       *)
HeadsOrdered ==
    /\ TypeOK
    /\ read_head + (IF pc[Consumer] \in {"lock", "locked", "advance"} THEN 1 ELSE 0)
           <= write_head
    /\ ~stale => write_head <= read_head + Size

(* Refinement: the ring is a pool of at most Size items, each of which is  *)
(* handed over exactly once, even when producers store at stale indices.   *)
InPool == {cell[s] : s \in Slots} \ {Empty}
Stored(p) == sent[p] + IF pc[p] = "unlock" THEN 1 ELSE 0

Pool == INSTANCE UnorderedPool
            WITH pool <- InPool,
                 sent <- [p \in Producers |-> Stored(p)],
                 received <- received \cup ({output} \ {Empty})

RefinesPool == Pool!Spec

(* As long as no producer stored at an index that was already used, the    *)
(* consumer gets the items of each producer in the order they were         *)
(* written.                                                                *)
InOrderUnlessStale ==
    [][\A p \in Producers, n \in 1 .. MaxWrites :
            <<p, n>> \in received' \ received /\ ~stale
                => \A m \in 1 .. n - 1 : <<p, m>> \in received]_vars

(* A producer that died holding the lock of a cell *)
DiedInCell == \E p \in dead, s \in Slots : InCell(p, s)

(* Every write is accepted and every item read in the end, unless a        *)
(* producer died inside a cell or stored at an index already used: a       *)
(* producer that waited for the cell lock while the index it loaded was    *)
(* filled and read advances write_head for one cell and fills another.     *)
(* Its item is then out of the consumer's reach, and once the ring comes   *)
(* round to it producers spin on a full cell of a ring that reads empty.   *)
DrainedUnlessStale ==
    \/ <>(stale \/ DiedInCell)
    \/ <>[](/\ \A p \in Producers \ dead : sent[p] = MaxWrites
            /\ \A s \in Slots : cell[s] = Empty)
=============================================================================
