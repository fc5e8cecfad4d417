------------------------- MODULE CellLockableProofs -------------------------
(***************************************************************************)
(* Proofs about CellLockable for every set of producers, every capacity,   *)
(* every width of index_type and any number of deaths.  IInv is inductive; *)
(* the safety invariants and the refinement of the unordered pool follow   *)
(* from it.                                                                *)
(***************************************************************************)
EXTENDS CellLockable, FiniteSetTheorems, TLAPS

-----------------------------------------------------------------------------
(* The inductive invariant *)

(* Producers are in write(), the consumer in read() or read_lock().        *)
Roles ==
    /\ \A p \in Producers : pc[p] \in {"idle", "check", "lock", "locked", "again",
                                       "unlock", "min", "cas"}
    /\ pc[Consumer] \in {"idle", "look", "lock", "locked", "advance"}
    /\ pc[Consumer] # "advance" => output = Empty

Holds(q) == pc[q] \in {"locked", "unlock"}

(* Whoever is in a cell, or keeps a guard of it, has set its lock word,    *)
(* and no two of them set the same one.                                    *)
LocksTaken ==
    /\ \A q \in Procs : Holds(q) => Slot(index[q]) \in locked /\ Slot(index[q]) \notin held
    /\ held \subseteq locked
    /\ \A q1, q2 \in Procs :
          Holds(q1) /\ Holds(q2) /\ Slot(index[q1]) = Slot(index[q2]) => q1 = q2

(* The tickets in use were taken; a reader to be lowered is past them.     *)
TicketsTaken ==
    /\ \A p \in Producers : pc[p] \in {"check", "lock", "locked", "again", "unlock", "min", "cas"}
                                => index[p] < write_head
    /\ \A p \in Producers : cache_w_h[p] # NoTicket => cache_w_h[p] < write_head
    /\ \A p \in Producers : pc[p] = "cas" => Before(index[p]) < expected[p]

(* A full cell was filled under a ticket of its own.                       *)
FilledUnderTicket ==
    \A s \in Slots : cell[s] # Empty => Slot(under[s]) = s /\ under[s] < write_head

(* While no call overlaps a guard, there is at most one guard, kept        *)
(* between two calls, and read_head has not gone past the consumer.        *)
ReaderPlace ==
    ~overlap =>
        /\ held # {} => pc[Consumer] = "idle"
        /\ \A s, t \in held : s = t
        /\ pc[Consumer] \in {"look", "lock", "locked"} => read_head <= index[Consumer]
        /\ pc[Consumer] \in {"lock", "locked"} => index[Consumer] < write_head

(* NothingLeftBehind, with the consumer on its way to the item's very      *)
(* ticket: a reader on its way to another ticket of the same cell might    *)
(* still turn back at write_head.                                          *)
OnItsWay(s) == pc[Consumer] \in {"look", "lock", "locked"} /\ index[Consumer] = under[s]

StillToCome(s) == read_head + (IF AdvancePending THEN 1 ELSE 0) <= under[s]

Reached ==
    \A s \in Slots \ held :
        cell[s] # Empty /\ under[s] > 0 /\ ~Unsettled(s) /\ ~overlap => StillToCome(s) \/ OnItsWay(s)

(* Each item is in one cell, and is one that its producer has stored.      *)
ItemsApart ==
    /\ \A s, t \in Slots : cell[s] = cell[t] /\ cell[s] # Empty => s = t
    /\ \A s \in Slots : cell[s] # Empty => cell[s][2] <= Stored(cell[s][1])

IInv ==
    /\ TypeOK /\ Roles /\ LocksTaken /\ TicketsTaken /\ FilledUnderTicket
    /\ ReaderPlace /\ ReaderBehindTickets /\ Reached /\ ItemsApart

-----------------------------------------------------------------------------
(* Facts about the operators *)

(* The cell of an index is a cell of the ring.                             *)
LEMMA SlotInRange ==
    ASSUME NEW i \in Nat
    PROVE  Slot(i) \in Slots
BY CellSizeAssumption DEF Slot, Slots

(* The predecessor of an index is an index, and a smaller one unless the   *)
(* index is 0; no bound on the index is needed.                            *)
LEMMA BeforeIsBelow ==
    ASSUME NEW i \in Nat
    PROVE  Before(i) \in Nat /\ (i > 0 => Before(i) <= i - 1)
<1> DEFINE m == MaxIndex + 1
           j == i + MaxIndex
           q == j \div m
           r == j % m
<1>1. m \in Nat \ {0} /\ j \in Nat
    BY CellBoundAssumption
<1>2. q \in Int /\ r \in Nat /\ r < m /\ j = m * q + r
    BY SMTT(30), <1>1
<1>3. ASSUME i > 0 PROVE r <= i - 1
    <2>1. j >= m /\ j = i - 1 + m
        BY <1>3, CellBoundAssumption
    <2> HIDE DEF m, j, q, r
    <2>2. CASE q >= 1
        <3>1. m * q >= m * 1
            BY <1>1, <1>2, <2>2
        <3> QED BY <1>1, <1>2, <2>1, <3>1
    <2>3. CASE q <= 0
        <3>1. m * q <= m * 0
            BY <1>1, <1>2, <2>3
        <3> QED BY <1>1, <1>2, <2>1, <3>1
    <2> QED BY <1>2, <2>2, <2>3
<1>4. Before(i) = r
    BY DEF Before
<1> QED BY <1>2, <1>3, <1>4

(* A step that leaves the cells and the consumer alone, raises no head and *)
(* settles no item keeps every stored item within reach.                   *)
LEMMA ReachedStays ==
    ASSUME TypeOK, Reached, CellConsumerAssumption,
           UNCHANGED <<cell, under, held, overlap>>,
           read_head' \in Nat, read_head' <= read_head,
           pc'[Consumer] = pc[Consumer], index'[Consumer] = index[Consumer],
           \A p \in Producers : pc[p] \in {"unlock", "min", "cas"} =>
               pc'[p] \in {"unlock", "min", "cas"} /\ index'[p] = index[p]
    PROVE  Reached'
<1> SUFFICES ASSUME NEW s \in Slots \ held,
                    cell[s] # Empty, under[s] > 0, ~Unsettled(s)', ~overlap
             PROVE  StillToCome(s)' \/ OnItsWay(s)'
    BY DEF Reached
<1>1. ~Unsettled(s)
    BY DEF Unsettled
<1>2. StillToCome(s) \/ OnItsWay(s)
    BY <1>1 DEF Reached
<1>3. CASE StillToCome(s)
    BY <1>3 DEF StillToCome, AdvancePending, TypeOK
<1>4. CASE OnItsWay(s)
    BY <1>4 DEF OnItsWay
<1> QED BY <1>2, <1>3, <1>4

(* Lowering a head keeps it behind what it was behind.                     *)
LEMMA LowerIsBehind ==
    \A low, high, bound, ahead \in Nat :
        low < high /\ high + ahead <= bound => low + ahead <= bound
OBVIOUS

(* All heads are zero, all cells empty and unlocked. *)
LEMMA InitIInv == Init => IInv
<1> SUFFICES ASSUME Init PROVE IInv
    OBVIOUS
<1> USE CellSizeAssumption, CellValueAssumption DEF Init, Procs
<1>1. TypeOK /\ Roles
    BY DEF TypeOK, Roles, Slots
<1>2. LocksTaken /\ TicketsTaken /\ FilledUnderTicket
    BY DEF LocksTaken, Holds, TicketsTaken, FilledUnderTicket
<1>3. ReaderPlace /\ ReaderBehindTickets /\ Reached /\ ItemsApart
    BY DEF ReaderPlace, ReaderBehindTickets, Reached, ItemsApart
<1> QED BY <1>1, <1>2, <1>3 DEF IInv

(* No step leaves the inductive invariant.                                 *)
LEMMA StepIInv == IInv /\ [Next]_vars => IInv'
<1> SUFFICES ASSUME IInv, [Next]_vars PROVE IInv'
    OBVIOUS
<1> USE CellSizeAssumption, CellBoundAssumption, CellConsumerAssumption, CellValueAssumption
<1> USE DEF Step, Procs, heads, cells, guards, locals, TryLock, Unlock, ContainsData, ClearData, Assign,
            ReturnTrue
<1>0. /\ TypeOK /\ Roles /\ LocksTaken /\ TicketsTaken /\ FilledUnderTicket
      /\ ReaderPlace /\ ReaderBehindTickets /\ Reached /\ ItemsApart
    BY DEF IInv
<1>1. ASSUME NEW p \in Producers, UseCachedTicket(p) PROVE IInv'
    <2>1. TypeOK' /\ Roles'
        BY <1>0, <1>1, SlotInRange, BeforeIsBelow DEF UseCachedTicket, TypeOK, Roles, Items, ItemOf
    <2>2. LocksTaken'
        BY <1>0, <1>1, SlotInRange DEF UseCachedTicket, TypeOK, Roles, LocksTaken, Holds
    <2>3. TicketsTaken' /\ FilledUnderTicket'
        BY <1>0, <1>1, SlotInRange DEF UseCachedTicket, TypeOK, Roles, TicketsTaken, FilledUnderTicket, Slot
    <2>4. ReaderPlace' /\ ReaderBehindTickets'
        BY <1>0, <1>1 DEF UseCachedTicket, TypeOK, Roles, ReaderPlace, ReaderBehindTickets
    <2>5. Reached'
        BY <1>0, <1>1, <2>1, ReachedStays DEF UseCachedTicket, TypeOK
    <2>6. ItemsApart'
        BY <1>0, <1>1 DEF UseCachedTicket, TypeOK, Roles, ItemsApart, Stored, Items
    <2> QED BY <2>1, <2>2, <2>3, <2>4, <2>5, <2>6 DEF IInv
<1>2. ASSUME NEW p \in Producers, TakeTicket(p) PROVE IInv'
    <2>1. TypeOK' /\ Roles'
        <3>1. pc' = [pc EXCEPT ![p] = "check"]
            BY <1>2 DEF TakeTicket
        <3> QED BY <1>0, <1>2, <3>1 DEF TakeTicket, TypeOK, Roles
    <2>2. LocksTaken'
        BY <1>0, <1>2, SlotInRange DEF TakeTicket, TypeOK, Roles, LocksTaken, Holds
    <2>3. TicketsTaken' /\ FilledUnderTicket'
        BY <1>0, <1>2, SlotInRange DEF TakeTicket, TypeOK, Roles, TicketsTaken, FilledUnderTicket, Slot
    <2>4. ReaderPlace' /\ ReaderBehindTickets'
        BY <1>0, <1>2 DEF TakeTicket, TypeOK, Roles, ReaderPlace, ReaderBehindTickets
    <2>5. Reached'
        BY <1>0, <1>2, <2>1, ReachedStays DEF TakeTicket, TypeOK
    <2>6. ItemsApart'
        BY <1>0, <1>2 DEF TakeTicket, TypeOK, Roles, ItemsApart, Stored, Items
    <2> QED BY <2>1, <2>2, <2>3, <2>4, <2>5, <2>6 DEF IInv
<1>3. ASSUME NEW p \in Producers, ReportFull(p) PROVE IInv'
    <2>1. TypeOK' /\ Roles'
        BY <1>0, <1>3, SlotInRange, BeforeIsBelow DEF ReportFull, TypeOK, Roles, Items, ItemOf
    <2>2. LocksTaken'
        BY <1>0, <1>3, SlotInRange DEF ReportFull, TypeOK, Roles, LocksTaken, Holds
    <2>3. TicketsTaken' /\ FilledUnderTicket'
        BY <1>0, <1>3, SlotInRange DEF ReportFull, TypeOK, Roles, TicketsTaken, FilledUnderTicket, Slot
    <2>4. ReaderPlace' /\ ReaderBehindTickets'
        BY <1>0, <1>3 DEF ReportFull, TypeOK, Roles, ReaderPlace, ReaderBehindTickets
    <2>5. Reached'
        BY <1>0, <1>3, <2>1, ReachedStays DEF ReportFull, TypeOK
    <2>6. ItemsApart'
        BY <1>0, <1>3 DEF ReportFull, TypeOK, Roles, ItemsApart, Stored, Items
    <2> QED BY <2>1, <2>2, <2>3, <2>4, <2>5, <2>6 DEF IInv
<1>4. ASSUME NEW p \in Producers, SeeRoom(p) PROVE IInv'
    <2>1. TypeOK' /\ Roles'
        BY <1>0, <1>4, SlotInRange, BeforeIsBelow DEF SeeRoom, TypeOK, Roles, Items, ItemOf
    <2>2. LocksTaken'
        BY <1>0, <1>4, SlotInRange DEF SeeRoom, TypeOK, Roles, LocksTaken, Holds
    <2>3. TicketsTaken' /\ FilledUnderTicket'
        BY <1>0, <1>4, SlotInRange DEF SeeRoom, TypeOK, Roles, TicketsTaken, FilledUnderTicket, Slot
    <2>4. ReaderPlace' /\ ReaderBehindTickets'
        BY <1>0, <1>4 DEF SeeRoom, TypeOK, Roles, ReaderPlace, ReaderBehindTickets
    <2>5. Reached'
        BY <1>0, <1>4, <2>1, ReachedStays DEF SeeRoom, TypeOK
    <2>6. ItemsApart'
        BY <1>0, <1>4 DEF SeeRoom, TypeOK, Roles, ItemsApart, Stored, Items
    <2> QED BY <2>1, <2>2, <2>3, <2>4, <2>5, <2>6 DEF IInv
<1>5. ASSUME NEW p \in Producers, LockCell(p) PROVE IInv'
    <2>1. TypeOK' /\ Roles'
        BY <1>0, <1>5, SlotInRange, BeforeIsBelow DEF LockCell, TypeOK, Roles, Items, ItemOf
    <2>2. LocksTaken'
        BY <1>0, <1>5, SlotInRange DEF LockCell, TypeOK, Roles, LocksTaken, Holds
    <2>3. TicketsTaken' /\ FilledUnderTicket'
        BY <1>0, <1>5, SlotInRange DEF LockCell, TypeOK, Roles, TicketsTaken, FilledUnderTicket, Slot
    <2>4. ReaderPlace' /\ ReaderBehindTickets'
        BY <1>0, <1>5 DEF LockCell, TypeOK, Roles, ReaderPlace, ReaderBehindTickets
    <2>5. Reached'
        BY <1>0, <1>5, <2>1, ReachedStays DEF LockCell, TypeOK
    <2>6. ItemsApart'
        BY <1>0, <1>5 DEF LockCell, TypeOK, Roles, ItemsApart, Stored, Items
    <2> QED BY <2>1, <2>2, <2>3, <2>4, <2>5, <2>6 DEF IInv
<1>6. ASSUME NEW p \in Producers, LeaveOccupiedCell(p) PROVE IInv'
    <2>1. TypeOK' /\ Roles'
        BY <1>0, <1>6, SlotInRange, BeforeIsBelow DEF LeaveOccupiedCell, TypeOK, Roles, Items, ItemOf
    <2>2. LocksTaken'
        BY <1>0, <1>6, SlotInRange DEF LeaveOccupiedCell, TypeOK, Roles, LocksTaken, Holds
    <2>3. TicketsTaken' /\ FilledUnderTicket'
        BY <1>0, <1>6, SlotInRange DEF LeaveOccupiedCell, TypeOK, Roles, TicketsTaken, FilledUnderTicket, Slot
    <2>4. ReaderPlace' /\ ReaderBehindTickets'
        BY <1>0, <1>6 DEF LeaveOccupiedCell, TypeOK, Roles, ReaderPlace, ReaderBehindTickets
    <2>5. Reached'
        BY <1>0, <1>6, <2>1, ReachedStays DEF LeaveOccupiedCell, TypeOK
    <2>6. ItemsApart'
        BY <1>0, <1>6 DEF LeaveOccupiedCell, TypeOK, Roles, ItemsApart, Stored, Items
    <2> QED BY <2>1, <2>2, <2>3, <2>4, <2>5, <2>6 DEF IInv
<1>7. ASSUME NEW p \in Producers, StoreItem(p) PROVE IInv'
    <2>1. TypeOK' /\ Roles'
        BY <1>0, <1>7, SlotInRange, BeforeIsBelow DEF StoreItem, TypeOK, Roles, Items, ItemOf
    <2>2. LocksTaken'
        BY <1>0, <1>7, SlotInRange DEF StoreItem, TypeOK, Roles, LocksTaken, Holds
    <2>3. TicketsTaken' /\ FilledUnderTicket'
        BY <1>0, <1>7, SlotInRange DEF StoreItem, TypeOK, Roles, TicketsTaken, FilledUnderTicket, Slot
    <2>4. ReaderPlace' /\ ReaderBehindTickets'
        BY <1>0, <1>7 DEF StoreItem, TypeOK, Roles, ReaderPlace, ReaderBehindTickets
    <2>5. Reached'
        <3> SUFFICES ASSUME NEW s \in Slots \ held,
                            cell'[s] # Empty, under'[s] > 0, ~Unsettled(s)', ~overlap
                     PROVE  StillToCome(s)' \/ OnItsWay(s)'
            BY <1>7 DEF StoreItem, Reached
        <3>1. s # Slot(index[p])
            BY <1>0, <1>7 DEF StoreItem, TypeOK, Unsettled
        <3>2. cell'[s] = cell[s] /\ under'[s] = under[s] /\ ~Unsettled(s)
            BY <1>0, <1>7, <3>1 DEF StoreItem, TypeOK, Unsettled
        <3>3. StillToCome(s) \/ OnItsWay(s)
            BY <1>0, <3>2 DEF Reached
        <3> QED BY <1>0, <1>7, <3>2, <3>3 DEF StoreItem, TypeOK, StillToCome, AdvancePending, OnItsWay
    <2>6. ItemsApart'
        <3>1. Slot(index[p]) \in Slots /\ cell' = [cell EXCEPT ![Slot(index[p])] = ItemOf(p)]
            BY <1>0, <1>7, SlotInRange DEF StoreItem, TypeOK
        <3>2. /\ sent' = sent /\ Stored(p) = sent[p] /\ Stored(p)' = sent[p] + 1
              /\ \A q \in Producers : q # p => Stored(q)' = Stored(q)
            BY <1>0, <1>7 DEF StoreItem, TypeOK, Stored
        <3>3. /\ ItemOf(p) \in Items /\ ItemOf(p)[1] = p /\ ItemOf(p)[2] = sent[p] + 1
              /\ sent[p] \in Nat
            BY <1>0 DEF TypeOK, ItemOf, Items
        <3>4. ASSUME NEW s \in Slots, s # Slot(index[p]), cell[s] # Empty
              PROVE  /\ cell'[s] = cell[s] /\ cell[s] # ItemOf(p)
                     /\ (cell[s][2] <= Stored(cell[s][1]))'
            <4>1. cell[s] \in Items /\ cell[s][1] \in Producers /\ cell[s][2] \in Nat
                BY <1>0, <3>4 DEF TypeOK, Items
            <4>2. cell'[s] = cell[s] /\ cell[s][2] <= Stored(cell[s][1])
                BY <1>0, <3>1, <3>4 DEF TypeOK, ItemsApart
            <4>3. CASE cell[s][1] = p
                BY <3>2, <3>3, <4>1, <4>2, <4>3
            <4>4. CASE cell[s][1] # p
                BY <3>2, <3>3, <4>1, <4>2, <4>4
            <4> QED BY <4>2, <4>3, <4>4
        <3>5. \A s, t \in Slots : cell'[s] = cell'[t] /\ cell'[s] # Empty => s = t
            BY <1>0, <3>1, <3>3, <3>4 DEF TypeOK, ItemsApart, Items
        <3>6. ASSUME NEW s \in Slots, cell'[s] # Empty
              PROVE  (cell[s][2] <= Stored(cell[s][1]))'
            <4>1. CASE s = Slot(index[p])
                <5>1. cell'[s] = ItemOf(p)
                    BY <1>0, <3>1, <4>1 DEF TypeOK
                <5> QED BY <3>2, <3>3, <5>1
            <4>2. CASE s # Slot(index[p])
                BY <1>0, <3>1, <3>4, <3>6, <4>2 DEF TypeOK
            <4> QED BY <4>1, <4>2
        <3> QED BY <3>5, <3>6 DEF ItemsApart
    <2> QED BY <2>1, <2>2, <2>3, <2>4, <2>5, <2>6 DEF IInv
<1>8. ASSUME NEW p \in Producers, UnlockCell(p) PROVE IInv'
    <2>1. TypeOK' /\ Roles'
        BY <1>0, <1>8, SlotInRange, BeforeIsBelow DEF UnlockCell, TypeOK, Roles, Items, ItemOf
    <2>2. LocksTaken'
        BY <1>0, <1>8, SlotInRange DEF UnlockCell, TypeOK, Roles, LocksTaken, Holds
    <2>3. TicketsTaken' /\ FilledUnderTicket'
        BY <1>0, <1>8, SlotInRange DEF UnlockCell, TypeOK, Roles, TicketsTaken, FilledUnderTicket, Slot
    <2>4. ReaderPlace' /\ ReaderBehindTickets'
        BY <1>0, <1>8 DEF UnlockCell, TypeOK, Roles, ReaderPlace, ReaderBehindTickets
    <2>5. Reached'
        BY <1>0, <1>8, <2>1, ReachedStays DEF UnlockCell, TypeOK
    <2>6. ItemsApart'
        BY <1>0, <1>8 DEF UnlockCell, TypeOK, Roles, ItemsApart, Stored, Items
    <2> QED BY <2>1, <2>2, <2>3, <2>4, <2>5, <2>6 DEF IInv
<1>9. ASSUME NEW p \in Producers, FindReaderPast(p) PROVE IInv'
    <2>1. TypeOK' /\ Roles'
        BY <1>0, <1>9, SlotInRange, BeforeIsBelow DEF FindReaderPast, TypeOK, Roles, Items, ItemOf
    <2>2. LocksTaken'
        BY <1>0, <1>9, SlotInRange DEF FindReaderPast, TypeOK, Roles, LocksTaken, Holds
    <2>3. TicketsTaken' /\ FilledUnderTicket'
        BY <1>0, <1>9, SlotInRange DEF FindReaderPast, TypeOK, Roles, TicketsTaken, FilledUnderTicket, Slot
    <2>4. ReaderPlace' /\ ReaderBehindTickets'
        BY <1>0, <1>9 DEF FindReaderPast, TypeOK, Roles, ReaderPlace, ReaderBehindTickets
    <2>5. Reached'
        BY <1>0, <1>9, <2>1, ReachedStays DEF FindReaderPast, TypeOK
    <2>6. ItemsApart'
        BY <1>0, <1>9 DEF FindReaderPast, TypeOK, Roles, ItemsApart, Stored, Items
    <2> QED BY <2>1, <2>2, <2>3, <2>4, <2>5, <2>6 DEF IInv
<1>10. ASSUME NEW p \in Producers, FindReaderBelow(p) PROVE IInv'
    <2>1. TypeOK' /\ Roles'
        <3>1. /\ pc' = [pc EXCEPT ![p] = "idle"] /\ sent' = [sent EXCEPT ![p] = @ + 1]
              /\ index' = [index EXCEPT ![p] = 0] /\ expected' = [expected EXCEPT ![p] = 0]
              /\ UNCHANGED <<heads, cells, cache_w_h, output, guards, received, dead>>
            BY <1>10 DEF FindReaderBelow
        <3> QED BY <1>0, <3>1 DEF TypeOK, Roles
    <2>2. LocksTaken'
        BY <1>0, <1>10, SlotInRange DEF FindReaderBelow, TypeOK, Roles, LocksTaken, Holds
    <2>3. TicketsTaken' /\ FilledUnderTicket'
        <3>1. TicketsTaken'
            BY <1>0, <1>10 DEF FindReaderBelow, TypeOK, Roles, TicketsTaken
        <3>2. FilledUnderTicket'
            BY <1>0, <1>10 DEF FindReaderBelow, FilledUnderTicket, Slot
        <3> QED BY <3>1, <3>2
    <2>4. ReaderPlace' /\ ReaderBehindTickets'
        BY <1>0, <1>10 DEF FindReaderBelow, TypeOK, Roles, ReaderPlace, ReaderBehindTickets
    <2>5. Reached'
        <3> SUFFICES ASSUME NEW s \in Slots \ held,
                            cell[s] # Empty, under[s] > 0, ~Unsettled(s)', ~overlap
                     PROVE  StillToCome(s)' \/ OnItsWay(s)'
            BY <1>10 DEF FindReaderBelow, Reached
        <3>1. /\ pc'[Consumer] = pc[Consumer] /\ index'[Consumer] = index[Consumer]
              /\ UNCHANGED <<held, under>> /\ read_head' \in Nat /\ read_head' <= read_head
              /\ index[p] \in Nat /\ read_head' <= Before(index[p])
            BY <1>0, <1>10, <2>1, BeforeIsBelow DEF FindReaderBelow, TypeOK, TicketsTaken
        <3>2. CASE index[p] = under[s]
            <4>1. read_head' <= under[s] - 1
                BY <1>0, <3>1, <3>2, BeforeIsBelow DEF TypeOK
            <4> QED BY <1>0, <3>1, <4>1 DEF TypeOK, StillToCome, AdvancePending
        <3>3. CASE index[p] # under[s]
            <4>1. ~Unsettled(s)
                BY <1>0, <1>10, <3>3 DEF FindReaderBelow, TypeOK, Unsettled
            <4>2. StillToCome(s) \/ OnItsWay(s)
                BY <1>0, <1>10, <4>1 DEF Reached
            <4> QED BY <1>0, <3>1, <4>2 DEF TypeOK, StillToCome, AdvancePending, OnItsWay
        <3> QED BY <3>2, <3>3
    <2>6. ItemsApart'
        BY <1>0, <1>10 DEF FindReaderBelow, TypeOK, Roles, ItemsApart, Stored, Items
    <2> QED BY <2>1, <2>2, <2>3, <2>4, <2>5, <2>6 DEF IInv
<1>11. ASSUME NEW p \in Producers, LowerReadHead(p) PROVE IInv'
    <2>1. TypeOK' /\ Roles'
        BY <1>0, <1>11, SlotInRange, BeforeIsBelow DEF LowerReadHead, TypeOK, Roles, Items, ItemOf
    <2>2. LocksTaken'
        BY <1>0, <1>11, SlotInRange DEF LowerReadHead, TypeOK, Roles, LocksTaken, Holds
    <2>3. TicketsTaken' /\ FilledUnderTicket'
        BY <1>0, <1>11, SlotInRange DEF LowerReadHead, TypeOK, Roles, TicketsTaken, FilledUnderTicket, Slot
    <2>4. ReaderPlace' /\ ReaderBehindTickets'
        <3> SUFFICES ASSUME ~overlap' PROVE (ReaderPlace /\ ReaderBehindTickets)'
            BY DEF ReaderPlace, ReaderBehindTickets
        <3>1. read_head' < read_head /\ read_head' \in Nat
            BY <1>0, <1>11, BeforeIsBelow DEF LowerReadHead, TypeOK, TicketsTaken
        <3>2. /\ ~overlap /\ overlap' = overlap /\ held' = held
              /\ pc'[Consumer] = pc[Consumer] /\ index'[Consumer] = index[Consumer]
            BY <1>0, <1>11 DEF LowerReadHead, TypeOK
        <3>0. write_head' = write_head /\ write_head \in Nat /\ read_head \in Nat
            BY <1>0, <1>11 DEF LowerReadHead, TypeOK
        <3>3. ReaderPlace'
            BY <1>0, <3>0, <3>1, <3>2 DEF TypeOK, ReaderPlace
        <3>4. ReaderBehindTickets'
            <4> DEFINE calling == held # {} \/ pc[Consumer] \in {"lock", "locked", "advance"}
            <4>0. calling' = calling
                BY <3>2
            <4>1. CASE calling
                <5>1. read_head + 1 <= write_head
                    BY <1>0, <3>2, <4>1 DEF ReaderBehindTickets
                <5>2. read_head' + 1 <= write_head'
                    BY <3>0, <3>1, <5>1, LowerIsBehind
                <5> QED BY <4>0, <4>1, <5>2 DEF ReaderBehindTickets
            <4>2. CASE ~calling
                <5>1. read_head + 0 <= write_head
                    BY <1>0, <3>2, <4>2 DEF ReaderBehindTickets
                <5>2. read_head' + 0 <= write_head'
                    BY <3>0, <3>1, <5>1, LowerIsBehind
                <5> QED BY <4>0, <4>2, <5>2 DEF ReaderBehindTickets
            <4> QED BY <4>1, <4>2
        <3> QED BY <3>3, <3>4
    <2>5. Reached'
        <3> SUFFICES ASSUME NEW s \in Slots \ held,
                            cell[s] # Empty, under[s] > 0, ~Unsettled(s)', ~overlap
                     PROVE  StillToCome(s)' \/ OnItsWay(s)'
            BY <1>11 DEF LowerReadHead, Reached
        <3>1. /\ pc'[Consumer] = pc[Consumer] /\ index'[Consumer] = index[Consumer]
              /\ UNCHANGED <<held, under>> /\ read_head' \in Nat /\ read_head' <= read_head
              /\ index[p] \in Nat /\ read_head' <= Before(index[p])
            BY <1>0, <1>11, <2>1, BeforeIsBelow DEF LowerReadHead, TypeOK, TicketsTaken
        <3>2. CASE index[p] = under[s]
            <4>1. read_head' <= under[s] - 1
                BY <1>0, <3>1, <3>2, BeforeIsBelow DEF TypeOK
            <4> QED BY <1>0, <3>1, <4>1 DEF TypeOK, StillToCome, AdvancePending
        <3>3. CASE index[p] # under[s]
            <4>1. ~Unsettled(s)
                BY <1>0, <1>11, <3>3 DEF LowerReadHead, TypeOK, Unsettled
            <4>2. StillToCome(s) \/ OnItsWay(s)
                BY <1>0, <1>11, <4>1 DEF Reached
            <4> QED BY <1>0, <3>1, <4>2 DEF TypeOK, StillToCome, AdvancePending, OnItsWay
        <3> QED BY <3>2, <3>3
    <2>6. ItemsApart'
        BY <1>0, <1>11 DEF LowerReadHead, TypeOK, Roles, ItemsApart, Stored, Items
    <2> QED BY <2>1, <2>2, <2>3, <2>4, <2>5, <2>6 DEF IInv
<1>12. ASSUME NEW p \in Producers, Die(p) PROVE IInv'
    <2>1. TypeOK' /\ Roles'
        BY <1>0, <1>12, SlotInRange, BeforeIsBelow DEF Die, TypeOK, Roles, Items, ItemOf
    <2>2. LocksTaken'
        BY <1>0, <1>12, SlotInRange DEF Die, TypeOK, Roles, LocksTaken, Holds
    <2>3. TicketsTaken' /\ FilledUnderTicket'
        BY <1>0, <1>12, SlotInRange DEF Die, TypeOK, Roles, TicketsTaken, FilledUnderTicket, Slot
    <2>4. ReaderPlace' /\ ReaderBehindTickets'
        BY <1>0, <1>12 DEF Die, TypeOK, Roles, ReaderPlace, ReaderBehindTickets
    <2>5. Reached'
        BY <1>0, <1>12, <2>1, ReachedStays DEF Die, TypeOK
    <2>6. ItemsApart'
        BY <1>0, <1>12 DEF Die, TypeOK, Roles, ItemsApart, Stored, Items
    <2> QED BY <2>1, <2>2, <2>3, <2>4, <2>5, <2>6 DEF IInv
<1>13. CASE LoadReadHead
    <2>1. TypeOK' /\ Roles'
        BY <1>0, <1>13, SlotInRange, BeforeIsBelow DEF LoadReadHead, TypeOK, Roles, Items, ItemOf
    <2>2. LocksTaken'
        BY <1>0, <1>13, SlotInRange DEF LoadReadHead, TypeOK, Roles, LocksTaken, Holds
    <2>3. TicketsTaken' /\ FilledUnderTicket'
        BY <1>0, <1>13, SlotInRange DEF LoadReadHead, TypeOK, Roles, TicketsTaken, FilledUnderTicket, Slot
    <2>4. ReaderPlace' /\ ReaderBehindTickets'
        <3> SUFFICES ASSUME ~overlap' PROVE (ReaderPlace /\ ReaderBehindTickets)'
            BY DEF ReaderPlace, ReaderBehindTickets
        <3>1. ~overlap /\ held = {} /\ held' = {}
            BY <1>13 DEF LoadReadHead
        <3>2. /\ pc'[Consumer] = "look" /\ index'[Consumer] = read_head
              /\ pc[Consumer] = "idle" /\ UNCHANGED heads
            BY <1>0, <1>13 DEF LoadReadHead, TypeOK
        <3> QED BY <1>0, <3>1, <3>2 DEF TypeOK, ReaderPlace, ReaderBehindTickets
    <2>5. Reached'
        <3> SUFFICES ASSUME NEW t \in Slots \ held', cell'[t] # Empty, under[t] > 0,
                            ~Unsettled(t)', ~overlap'
                     PROVE  StillToCome(t)' \/ OnItsWay(t)'
            BY <1>13 DEF LoadReadHead, Reached
        <3>1. cell[t] # Empty /\ ~Unsettled(t) /\ ~overlap
            BY <1>0, <1>13 DEF LoadReadHead, TypeOK, Unsettled
        <3>2. t \notin held
            BY <1>0, <1>13, <3>1 DEF LoadReadHead, ReaderPlace
        <3>3. StillToCome(t) \/ OnItsWay(t)
            BY <1>0, <3>1, <3>2, <1>13 DEF LoadReadHead, Reached
        <3>4. held = {}
            BY <1>0, <1>13, <3>1 DEF LoadReadHead, TypeOK, OnItsWay, FilledUnderTicket, ReaderPlace
        <3> QED BY <1>0, <1>13, <3>1, <3>3, <3>4
                DEF LoadReadHead, TypeOK, StillToCome, AdvancePending, OnItsWay
    <2>6. ItemsApart'
        BY <1>0, <1>13 DEF LoadReadHead, TypeOK, Roles, ItemsApart, Stored, Items
    <2> QED BY <2>1, <2>2, <2>3, <2>4, <2>5, <2>6 DEF IInv
<1>14. CASE ReportEmpty
    <2>1. TypeOK' /\ Roles'
        BY <1>0, <1>14, SlotInRange, BeforeIsBelow DEF ReportEmpty, TypeOK, Roles, Items, ItemOf
    <2>2. LocksTaken'
        BY <1>0, <1>14, SlotInRange DEF ReportEmpty, TypeOK, Roles, LocksTaken, Holds
    <2>3. TicketsTaken' /\ FilledUnderTicket'
        BY <1>0, <1>14, SlotInRange DEF ReportEmpty, TypeOK, Roles, TicketsTaken, FilledUnderTicket, Slot
    <2>4. ReaderPlace' /\ ReaderBehindTickets'
        BY <1>0, <1>14 DEF ReportEmpty, TypeOK, Roles, ReaderPlace, ReaderBehindTickets
    <2>5. Reached'
        <3> SUFFICES ASSUME NEW t \in Slots \ held', cell'[t] # Empty, under[t] > 0,
                            ~Unsettled(t)', ~overlap'
                     PROVE  StillToCome(t)' \/ OnItsWay(t)'
            BY <1>14 DEF ReportEmpty, Reached
        <3>1. cell[t] # Empty /\ ~Unsettled(t) /\ ~overlap
            BY <1>0, <1>14 DEF ReportEmpty, TypeOK, Unsettled
        <3>2. t \notin held
            BY <1>0, <1>14, <3>1 DEF ReportEmpty, ReaderPlace
        <3>3. StillToCome(t) \/ OnItsWay(t)
            BY <1>0, <3>1, <3>2, <1>14 DEF ReportEmpty, Reached
        <3>4. ~OnItsWay(t) /\ held = {}
            BY <1>0, <1>14, <3>1 DEF ReportEmpty, TypeOK, OnItsWay, FilledUnderTicket, ReaderPlace
        <3> QED BY <1>0, <1>14, <3>1, <3>3, <3>4
                DEF ReportEmpty, TypeOK, StillToCome, AdvancePending, OnItsWay
    <2>6. ItemsApart'
        BY <1>0, <1>14 DEF ReportEmpty, TypeOK, Roles, ItemsApart, Stored, Items
    <2> QED BY <2>1, <2>2, <2>3, <2>4, <2>5, <2>6 DEF IInv
<1>15. CASE SeeTicket
    <2>1. TypeOK' /\ Roles'
        BY <1>0, <1>15, SlotInRange, BeforeIsBelow DEF SeeTicket, TypeOK, Roles, Items, ItemOf
    <2>2. LocksTaken'
        BY <1>0, <1>15, SlotInRange DEF SeeTicket, TypeOK, Roles, LocksTaken, Holds
    <2>3. TicketsTaken' /\ FilledUnderTicket'
        BY <1>0, <1>15, SlotInRange DEF SeeTicket, TypeOK, Roles, TicketsTaken, FilledUnderTicket, Slot
    <2>4. ReaderPlace' /\ ReaderBehindTickets'
        BY <1>0, <1>15 DEF SeeTicket, TypeOK, Roles, ReaderPlace, ReaderBehindTickets
    <2>5. Reached'
        <3> SUFFICES ASSUME NEW t \in Slots \ held', cell'[t] # Empty, under[t] > 0,
                            ~Unsettled(t)', ~overlap'
                     PROVE  StillToCome(t)' \/ OnItsWay(t)'
            BY <1>15 DEF SeeTicket, Reached
        <3>1. cell[t] # Empty /\ ~Unsettled(t) /\ ~overlap
            BY <1>0, <1>15 DEF SeeTicket, TypeOK, Unsettled
        <3>2. t \notin held
            BY <1>15 DEF SeeTicket
        <3>3. StillToCome(t) \/ OnItsWay(t)
            BY <1>0, <3>1, <3>2, <1>15 DEF SeeTicket, Reached
        <3> QED BY <1>0, <1>15, <3>1, <3>3
                DEF SeeTicket, TypeOK, StillToCome, AdvancePending, OnItsWay
    <2>6. ItemsApart'
        BY <1>0, <1>15 DEF SeeTicket, TypeOK, Roles, ItemsApart, Stored, Items
    <2> QED BY <2>1, <2>2, <2>3, <2>4, <2>5, <2>6 DEF IInv
<1>16. CASE LockCell(Consumer)
    <2>1. TypeOK' /\ Roles'
        BY <1>0, <1>16, SlotInRange, BeforeIsBelow DEF LockCell, TypeOK, Roles, Items, ItemOf
    <2>2. LocksTaken'
        BY <1>0, <1>16, SlotInRange DEF LockCell, TypeOK, Roles, LocksTaken, Holds
    <2>3. TicketsTaken' /\ FilledUnderTicket'
        BY <1>0, <1>16, SlotInRange DEF LockCell, TypeOK, Roles, TicketsTaken, FilledUnderTicket, Slot
    <2>4. ReaderPlace' /\ ReaderBehindTickets'
        BY <1>0, <1>16 DEF LockCell, TypeOK, Roles, ReaderPlace, ReaderBehindTickets
    <2>5. Reached'
        <3> SUFFICES ASSUME NEW t \in Slots \ held', cell'[t] # Empty, under[t] > 0,
                            ~Unsettled(t)', ~overlap'
                     PROVE  StillToCome(t)' \/ OnItsWay(t)'
            BY <1>16 DEF LockCell, Reached
        <3>1. cell[t] # Empty /\ ~Unsettled(t) /\ ~overlap
            BY <1>0, <1>16 DEF LockCell, TypeOK, Unsettled
        <3>2. t \notin held
            BY <1>16 DEF LockCell
        <3>3. StillToCome(t) \/ OnItsWay(t)
            BY <1>0, <3>1, <3>2, <1>16 DEF LockCell, Reached
        <3> QED BY <1>0, <1>16, <3>1, <3>3
                DEF LockCell, TypeOK, StillToCome, AdvancePending, OnItsWay
    <2>6. ItemsApart'
        BY <1>0, <1>16 DEF LockCell, TypeOK, Roles, ItemsApart, Stored, Items
    <2> QED BY <2>1, <2>2, <2>3, <2>4, <2>5, <2>6 DEF IInv
<1>17. CASE TakeFromCell
    <2>1. TypeOK' /\ Roles'
        BY <1>0, <1>17, SlotInRange, BeforeIsBelow DEF TakeFromCell, TypeOK, Roles, Items, ItemOf
    <2>2. LocksTaken'
        BY <1>0, <1>17, SlotInRange DEF TakeFromCell, TypeOK, Roles, LocksTaken, Holds
    <2>3. TicketsTaken' /\ FilledUnderTicket'
        BY <1>0, <1>17, SlotInRange DEF TakeFromCell, TypeOK, Roles, TicketsTaken, FilledUnderTicket, Slot
    <2>4. ReaderPlace' /\ ReaderBehindTickets'
        BY <1>0, <1>17 DEF TakeFromCell, TypeOK, Roles, ReaderPlace, ReaderBehindTickets
    <2>5. Reached'
        <3> SUFFICES ASSUME NEW t \in Slots \ held', cell'[t] # Empty, under[t] > 0,
                            ~Unsettled(t)', ~overlap'
                     PROVE  StillToCome(t)' \/ OnItsWay(t)'
            BY <1>17 DEF TakeFromCell, Reached
        <3>1. cell[t] # Empty /\ ~Unsettled(t) /\ ~overlap
            BY <1>0, <1>17 DEF TakeFromCell, TypeOK, Unsettled
        <3>2. t \notin held
            BY <1>0, <1>17, <3>1 DEF TakeFromCell, ReaderPlace
        <3>3. StillToCome(t) \/ OnItsWay(t)
            BY <1>0, <3>1, <3>2, <1>17 DEF TakeFromCell, Reached
        <3>4. t # Slot(index[Consumer]) /\ ~OnItsWay(t)
            BY <1>0, <1>17, <3>1 DEF TakeFromCell, TypeOK, OnItsWay, FilledUnderTicket, ReaderPlace
        <3> QED BY <1>0, <1>17, <3>1, <3>3, <3>4
                DEF TakeFromCell, TypeOK, StillToCome, AdvancePending, OnItsWay
    <2>6. ItemsApart'
        BY <1>0, <1>17 DEF TakeFromCell, TypeOK, Roles, ItemsApart, Stored, Items
    <2> QED BY <2>1, <2>2, <2>3, <2>4, <2>5, <2>6 DEF IInv
<1>18. CASE KeepGuard
    <2>1. TypeOK' /\ Roles'
        BY <1>0, <1>18, SlotInRange, BeforeIsBelow DEF KeepGuard, TypeOK, Roles, Items, ItemOf
    <2>2. LocksTaken'
        BY <1>0, <1>18, SlotInRange DEF KeepGuard, TypeOK, Roles, LocksTaken, Holds
    <2>3. TicketsTaken' /\ FilledUnderTicket'
        BY <1>0, <1>18, SlotInRange DEF KeepGuard, TypeOK, Roles, TicketsTaken, FilledUnderTicket, Slot
    <2>4. ReaderPlace' /\ ReaderBehindTickets'
        BY <1>0, <1>18 DEF KeepGuard, TypeOK, Roles, ReaderPlace, ReaderBehindTickets
    <2>5. Reached'
        <3> SUFFICES ASSUME NEW t \in Slots \ held', cell'[t] # Empty, under[t] > 0,
                            ~Unsettled(t)', ~overlap'
                     PROVE  StillToCome(t)' \/ OnItsWay(t)'
            BY <1>18 DEF KeepGuard, Reached
        <3>1. cell[t] # Empty /\ ~Unsettled(t) /\ ~overlap
            BY <1>0, <1>18 DEF KeepGuard, TypeOK, Unsettled
        <3>2. t \notin held
            BY <1>0, <1>18, <3>1 DEF KeepGuard, ReaderPlace
        <3>3. StillToCome(t) \/ OnItsWay(t)
            BY <1>0, <3>1, <3>2, <1>18 DEF KeepGuard, Reached
        <3>4. t # Slot(index[Consumer]) /\ ~OnItsWay(t)
            BY <1>0, <1>18, <3>1 DEF KeepGuard, TypeOK, OnItsWay, FilledUnderTicket, ReaderPlace
        <3> QED BY <1>0, <1>18, <3>1, <3>3, <3>4
                DEF KeepGuard, TypeOK, StillToCome, AdvancePending, OnItsWay
    <2>6. ItemsApart'
        BY <1>0, <1>18 DEF KeepGuard, TypeOK, Roles, ItemsApart, Stored, Items
    <2> QED BY <2>1, <2>2, <2>3, <2>4, <2>5, <2>6 DEF IInv
<1>19. ASSUME NEW s \in Slots, DropGuard(s) PROVE IInv'
    <2>1. TypeOK' /\ Roles'
        BY <1>0, <1>19, SlotInRange, BeforeIsBelow DEF DropGuard, TypeOK, Roles, Items, ItemOf
    <2>2. LocksTaken'
        BY <1>0, <1>19, SlotInRange DEF DropGuard, TypeOK, Roles, LocksTaken, Holds
    <2>3. TicketsTaken' /\ FilledUnderTicket'
        BY <1>0, <1>19, SlotInRange DEF DropGuard, TypeOK, Roles, TicketsTaken, FilledUnderTicket, Slot
    <2>4. ReaderPlace' /\ ReaderBehindTickets'
        BY <1>0, <1>19 DEF DropGuard, TypeOK, Roles, ReaderPlace, ReaderBehindTickets
    <2>5. Reached'
        <3> SUFFICES ASSUME NEW t \in Slots \ held', cell'[t] # Empty, under[t] > 0,
                            ~Unsettled(t)', ~overlap'
                     PROVE  StillToCome(t)' \/ OnItsWay(t)'
            BY <1>19 DEF DropGuard, Reached
        <3>1. cell[t] # Empty /\ ~Unsettled(t) /\ ~overlap
            BY <1>0, <1>19 DEF DropGuard, TypeOK, Unsettled
        <3>2. t \notin held
            BY <1>0, <1>19, <3>1 DEF DropGuard, TypeOK
        <3>3. StillToCome(t) \/ OnItsWay(t)
            BY <1>0, <3>1, <3>2, <1>19 DEF DropGuard, Reached
        <3>4. ~OnItsWay(t)
            BY <1>0, <1>19, <3>1 DEF DropGuard, TypeOK, OnItsWay, FilledUnderTicket, ReaderPlace
        <3> QED BY <1>0, <1>19, <3>1, <3>3, <3>4
                DEF DropGuard, TypeOK, StillToCome, AdvancePending, OnItsWay
    <2>6. ItemsApart'
        BY <1>0, <1>19 DEF DropGuard, TypeOK, Roles, ItemsApart, Stored, Items
    <2> QED BY <2>1, <2>2, <2>3, <2>4, <2>5, <2>6 DEF IInv
<1>20. CASE AdvanceReadHead
    <2>1. TypeOK' /\ Roles'
        BY <1>0, <1>20, SlotInRange, BeforeIsBelow DEF AdvanceReadHead, TypeOK, Roles, Items, ItemOf
    <2>2. LocksTaken'
        BY <1>0, <1>20, SlotInRange DEF AdvanceReadHead, TypeOK, Roles, LocksTaken, Holds
    <2>3. TicketsTaken' /\ FilledUnderTicket'
        BY <1>0, <1>20, SlotInRange DEF AdvanceReadHead, TypeOK, Roles, TicketsTaken, FilledUnderTicket, Slot
    <2>4. ReaderPlace' /\ ReaderBehindTickets'
        BY <1>0, <1>20 DEF AdvanceReadHead, TypeOK, Roles, ReaderPlace, ReaderBehindTickets
    <2>5. Reached'
        <3> SUFFICES ASSUME NEW t \in Slots \ held', cell'[t] # Empty, under[t] > 0,
                            ~Unsettled(t)', ~overlap'
                     PROVE  StillToCome(t)' \/ OnItsWay(t)'
            BY <1>20 DEF AdvanceReadHead, Reached
        <3>1. cell[t] # Empty /\ ~Unsettled(t) /\ ~overlap
            BY <1>0, <1>20 DEF AdvanceReadHead, TypeOK, Unsettled
        <3>2. t \notin held
            BY <1>0, <1>20, <3>1 DEF AdvanceReadHead, ReaderPlace
        <3>3. StillToCome(t) \/ OnItsWay(t)
            BY <1>0, <3>1, <3>2, <1>20 DEF AdvanceReadHead, Reached
        <3>4. held = {} /\ ~OnItsWay(t)
            BY <1>0, <1>20, <3>1 DEF AdvanceReadHead, TypeOK, OnItsWay, FilledUnderTicket, ReaderPlace
        <3> QED BY <1>0, <1>20, <3>1, <3>3, <3>4
                DEF AdvanceReadHead, TypeOK, StillToCome, AdvancePending, OnItsWay
    <2>6. ItemsApart'
        BY <1>0, <1>20 DEF AdvanceReadHead, TypeOK, Roles, ItemsApart, Stored, Items
    <2> QED BY <2>1, <2>2, <2>3, <2>4, <2>5, <2>6 DEF IInv
<1>21. CASE UNCHANGED vars
    BY <1>0, <1>21
    DEF vars, IInv, TypeOK, Roles, LocksTaken, Holds, TicketsTaken, FilledUnderTicket, ReaderPlace,
        ReaderBehindTickets, Reached, Unsettled, StillToCome, AdvancePending, OnItsWay, ItemsApart, Stored
<1> QED BY <1>1, <1>2, <1>3, <1>4, <1>5, <1>6, <1>7, <1>8, <1>9, <1>10, <1>11, <1>12, <1>13, <1>14, <1>15, <1>16, <1>17, <1>18, <1>19, <1>20, <1>21 DEF Next, Write, Read

(* The inductive invariant holds in every reachable state, for every set   *)
(* of producers, every capacity, every width of index_type and any number  *)
(* of deaths.                                                              *)
THEOREM Invariance == Spec => []IInv
<1>1. Init => IInv
    BY InitIInv
<1>2. IInv /\ [Next]_vars => IInv'
    BY StepIInv
<1> QED BY <1>1, <1>2, PTL DEF Spec

(* Type correctness: in particular read() of the cell-lockable ring        *)
(* returns items, never the content of an empty cell.                      *)
THEOREM TypeCorrect == Spec => []TypeOK
<1>1. IInv => TypeOK
    BY DEF IInv
<1> QED BY <1>1, Invariance, PTL

(* The guards of try_read_lock and try_write_lock, and the guard read_lock *)
(* hands to its caller, exclude everybody else from their cell.            *)
THEOREM Exclusion == Spec => []CellExclusive
<1>1. IInv => CellExclusive
    <2> SUFFICES ASSUME IInv, NEW s \in Slots, NEW q1 \in Procs, NEW q2 \in Procs,
                        InCell(q1, s), InCell(q2, s)
                 PROVE  q1 = q2
        BY DEF CellExclusive
    <2> QED BY DEF IInv, LocksTaken, Holds, InCell
<1> QED BY <1>1, Invariance, PTL

(* The consumer never passes a ticket nobody has taken yet, unless it      *)
(* called while it held a guard.                                           *)
THEOREM NeverAheadOfTickets == Spec => []ReaderBehindTickets
<1>1. IInv => ReaderBehindTickets
    BY DEF IInv
<1> QED BY <1>1, Invariance, PTL

(* No item is left behind: the fetch-min of write() leaves every stored    *)
(* item within the consumer's reach, whatever the consumer was doing.      *)
THEOREM NothingIsLeftBehind == Spec => []NothingLeftBehind
<1>1. IInv => NothingLeftBehind
    <2> SUFFICES ASSUME IInv, NEW s \in Slots \ held,
                        cell[s] # Empty, under[s] > 0, ~Unsettled(s), ~overlap
                 PROVE  \/ StillToCome(s)
                        \/ pc[Consumer] \in {"look", "lock", "locked"} /\ Slot(index[Consumer]) = s
        BY DEF NothingLeftBehind, StillToCome
    <2>1. StillToCome(s) \/ OnItsWay(s)
        BY DEF IInv, Reached
    <2>2. OnItsWay(s) => Slot(index[Consumer]) = s
        BY DEF IInv, FilledUnderTicket, OnItsWay
    <2> QED BY <2>1, <2>2 DEF OnItsWay
<1> QED BY <1>1, Invariance, PTL

-----------------------------------------------------------------------------
(* The mapped pool *)

(* While a cell is empty the pool has room for another item.               *)
LEMMA PoolHasRoom ==
    ASSUME TypeOK, NEW e \in Slots, cell[e] = Empty
    PROVE  Cardinality(InPool) < Size
<1> DEFINE full == {s \in Slots : cell[s] # Empty}
           content == [s \in full |-> cell[s]]
<1>1. IsFiniteSet(Slots) /\ Cardinality(Slots) = Size
    BY FS_Interval, CellSizeAssumption DEF Slots
<1>2. IsFiniteSet(Slots \ {e}) /\ Cardinality(Slots \ {e}) = Size - 1
    BY <1>1, FS_RemoveElement
<1>3. full \in SUBSET (Slots \ {e})
    OBVIOUS
<1>4. IsFiniteSet(full) /\ Cardinality(full) <= Size - 1
    BY <1>2, <1>3, FS_Subset
<1>5. content \in Surjection(full, InPool)
    BY DEF Surjection, InPool
<1> HIDE DEF full, content
<1>6. IsFiniteSet(InPool) /\ Cardinality(InPool) <= Cardinality(full)
    BY <1>4, <1>5, FS_Surjection
<1>7. Cardinality(InPool) \in Nat /\ Cardinality(full) \in Nat
    BY <1>4, <1>6, FS_CardinalityType
<1> QED BY <1>4, <1>6, <1>7, CellSizeAssumption

(* Clearing a cell takes its item, and no other, out of the pool.          *)
LEMMA ClearCell ==
    ASSUME IInv, NEW s \in Slots, cell' = [cell EXCEPT ![s] = Empty]
    PROVE  InPool' = InPool \ {cell[s]}
<1>1. cell \in [Slots -> Items \cup {Empty}]
    BY DEF IInv, TypeOK
<1>2. \A t, u \in Slots : cell[t] = cell[u] /\ cell[t] # Empty => t = u
    BY DEF IInv, ItemsApart
<1>3. \A t \in Slots : cell'[t] = IF t = s THEN Empty ELSE cell[t]
    BY <1>1
<1> QED BY <1>1, <1>2, <1>3 DEF InPool

(* Refinement: every step of the ring is a step of the unordered pool or   *)
(* leaves it alone.  The store into the locked cell is the moment an item  *)
(* enters, and there is room because that cell is empty; the item leaves   *)
(* when the reader guard clears its cell, whether read() drops the guard   *)
(* at once or read_lock's caller drops it later.                           *)
THEOREM Refinement == Spec => RefinesPool
<1> USE CellSizeAssumption, CellBoundAssumption, CellConsumerAssumption, CellValueAssumption
<1>1. Init => Pool!Init
    <2> SUFFICES ASSUME Init PROVE Pool!Init
        OBVIOUS
    <2> QED BY DEF Init, Pool!Init, Procs, InPool, Stored
<1>2. IInv /\ [Next]_vars => [Pool!Next]_(Pool!vars)
    <2> SUFFICES ASSUME IInv, [Next]_vars PROVE [Pool!Next]_(Pool!vars)
        OBVIOUS
    <2> USE DEF Step, Procs, heads, cells, guards, locals, TryLock, Unlock, ContainsData, ClearData,
                Assign, ReturnTrue
    <2>0. TypeOK /\ Roles /\ ItemsApart
        BY DEF IInv
    <2> DEFINE accepted == [p \in Producers |-> Stored(p)]
               handed == received \cup ({output} \ {Empty})
    <2>1. ASSUME cell' = cell, accepted' = accepted, handed' = handed
          PROVE  UNCHANGED Pool!vars
        BY <2>1 DEF Pool!vars, InPool
    <2>2. ASSUME NEW p \in Producers, StoreItem(p) PROVE Pool!Put(p)
        <3>1. Slot(index[p]) \in Slots /\ cell[Slot(index[p])] = Empty
            BY <2>0, <2>2, SlotInRange DEF StoreItem, TypeOK
        <3>2. Cardinality(InPool) < Size
            BY <2>0, <3>1, PoolHasRoom
        <3>3. accepted' = [accepted EXCEPT ![p] = @ + 1] /\ accepted[p] = sent[p]
            <4>1. /\ Stored(p) = sent[p] /\ Stored(p)' = sent[p] + 1
                  /\ \A q \in Producers : q # p => Stored(q)' = Stored(q)
                BY <2>0, <2>2 DEF StoreItem, TypeOK, Stored
            <4> QED BY <4>1
        <3>4. ItemOf(p) # Empty
            BY <2>0 DEF TypeOK, ItemOf
        <3>5. \A t \in Slots : cell'[t] = IF t = Slot(index[p]) THEN ItemOf(p) ELSE cell[t]
            BY <2>0, <2>2, <3>1 DEF StoreItem, TypeOK
        <3>6. InPool' = InPool \cup {ItemOf(p)}
            BY <3>1, <3>4, <3>5 DEF InPool
        <3>7. handed' = handed
            BY <2>2 DEF StoreItem
        <3>8. ItemOf(p) = <<p, accepted[p] + 1>>
            BY <3>3 DEF ItemOf
        <3>9. InPool' = InPool \cup {<<p, accepted[p] + 1>>}
            BY <3>6, <3>8
        <3> QED BY <3>2, <3>3, <3>7, <3>9 DEF Pool!Put, Pool!Cardinality, Cardinality
    <2>3. ASSUME NEW s \in Slots, cell' = [cell EXCEPT ![s] = Empty], accepted' = accepted,
                 output = Empty, output' = cell[s], received' = received
          PROVE  [Pool!Next]_(Pool!vars)
        <3>1. InPool' = InPool \ {cell[s]}
            BY <2>3, ClearCell
        <3>2. CASE cell[s] = Empty
            <4>1. cell' = cell
                BY <2>0, <2>3, <3>2 DEF TypeOK
            <4> QED BY <2>1, <2>3, <3>2, <4>1
        <3>3. CASE cell[s] # Empty
            <4>1. cell[s] \in InPool
                BY <3>3 DEF InPool
            <4>2. handed' = handed \cup {cell[s]}
                BY <2>3, <3>3
            <4>3. \E item \in InPool : Pool!Get(item)
                BY <2>3, <3>1, <4>1, <4>2 DEF Pool!Get
            <4> QED BY <4>3 DEF Pool!Next
        <3> QED BY <3>2, <3>3
    <2> HIDE DEF handed
    <2>4. ASSUME NEW p \in Producers, Write(p) PROVE [Pool!Next]_(Pool!vars)
        <3>1. CASE StoreItem(p)
            BY <2>2, <3>1 DEF Pool!Next
        <3>2. CASE UseCachedTicket(p) \/ TakeTicket(p) \/ ReportFull(p) \/ SeeRoom(p)
                   \/ LockCell(p) \/ LeaveOccupiedCell(p)
            <4>1. cell' = cell /\ handed' = handed /\ accepted' = accepted
                BY <2>0, <3>2 DEF UseCachedTicket, TakeTicket, ReportFull, SeeRoom, LockCell,
                    LeaveOccupiedCell, TypeOK, Stored, handed
            <4> QED BY <2>1, <4>1
        <3>3. CASE UnlockCell(p) \/ FindReaderPast(p)
            <4>1. cell' = cell /\ handed' = handed /\ accepted' = accepted
                BY <2>0, <3>3 DEF UnlockCell, FindReaderPast, TypeOK, Stored, handed
            <4> QED BY <2>1, <4>1
        <3>4. CASE FindReaderBelow(p) \/ LowerReadHead(p)
            <4>1. /\ pc[p] \in {"min", "cas"} /\ pc' = [pc EXCEPT ![p] = "idle"]
                  /\ sent' = [sent EXCEPT ![p] = @ + 1]
                  /\ cell' = cell /\ received' = received /\ output' = output
                BY <3>4 DEF FindReaderBelow, LowerReadHead
            <4>2. accepted' = accepted
                BY <2>0, <4>1 DEF TypeOK, Stored
            <4> QED BY <2>1, <4>1, <4>2 DEF handed
        <3> QED BY <2>4, <3>1, <3>2, <3>3, <3>4 DEF Write
    <2>5. CASE Read
        <3>0. ASSUME sent' = sent, \A p \in Producers : pc'[p] = pc[p]
              PROVE  accepted' = accepted
            BY <3>0 DEF Stored
        <3>1. CASE LoadReadHead \/ ReportEmpty \/ SeeTicket \/ LockCell(Consumer) \/ KeepGuard
            <4>1. /\ cell' = cell /\ handed' = handed /\ sent' = sent
                  /\ \A p \in Producers : pc'[p] = pc[p]
                BY <2>0, <3>1 DEF LoadReadHead, ReportEmpty, SeeTicket, LockCell, KeepGuard, TypeOK,
                    handed
            <4> QED BY <2>1, <3>0, <4>1
        <3>2. CASE TakeFromCell
            <4>1. /\ Slot(index[Consumer]) \in Slots /\ output = Empty
                  /\ cell' = [cell EXCEPT ![Slot(index[Consumer])] = Empty]
                  /\ output' = cell[Slot(index[Consumer])] /\ received' = received
                BY <2>0, <3>2, SlotInRange DEF TakeFromCell, TypeOK, Roles
            <4>2. accepted' = accepted
                BY <2>0, <3>0, <3>2 DEF TakeFromCell, TypeOK
            <4> QED BY <2>3, <4>1, <4>2
        <3>3. ASSUME NEW s \in Slots, DropGuard(s) PROVE [Pool!Next]_(Pool!vars)
            <4>1. /\ output = Empty /\ cell' = [cell EXCEPT ![s] = Empty]
                  /\ output' = cell[s] /\ received' = received
                BY <2>0, <3>3 DEF DropGuard, TypeOK, Roles
            <4>2. accepted' = accepted
                BY <2>0, <3>0, <3>3 DEF DropGuard, TypeOK
            <4> QED BY <2>3, <4>1, <4>2
        <3>4. CASE AdvanceReadHead
            <4>1. cell' = cell /\ handed' = handed
                BY <2>0, <3>4 DEF AdvanceReadHead, TypeOK, handed
            <4>2. accepted' = accepted
                BY <2>0, <3>0, <3>4 DEF AdvanceReadHead, TypeOK
            <4> QED BY <2>1, <4>1, <4>2
        <3> QED BY <2>5, <3>1, <3>2, <3>3, <3>4 DEF Read
    <2>6. ASSUME NEW p \in Producers, Die(p) PROVE [Pool!Next]_(Pool!vars)
        <3>1. cell' = cell /\ handed' = handed /\ accepted' = accepted
            BY <2>6 DEF Die, Stored, handed
        <3> QED BY <2>1, <3>1
    <2>7. CASE UNCHANGED vars
        <3>1. cell' = cell /\ handed' = handed /\ accepted' = accepted
            BY <2>7 DEF vars, Stored, handed
        <3> QED BY <2>1, <3>1
    <2> QED BY <2>4, <2>5, <2>6, <2>7 DEF Next
<1> QED BY <1>1, <1>2, Invariance, PTL DEF Spec, RefinesPool, Pool!Spec
=============================================================================
