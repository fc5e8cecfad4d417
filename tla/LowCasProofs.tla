---------------------------- MODULE LowCasProofs ----------------------------
(***************************************************************************)
(* Proofs about LowCas for every finite set of producers, every capacity   *)
(* and any number of deaths.  IInv is inductive; the safety invariants     *)
(* follow from it.                                                         *)
(***************************************************************************)
EXTENDS LowCas, FiniteSetTheorems, TLAPS

-----------------------------------------------------------------------------
(* The inductive invariant *)

(* Producers are in write(), the consumer in read().                       *)
Roles ==
    /\ \A p \in Producers : pc[p] \in {"idle", "again", "ticket", "refuse", "lock", "release",
                                       "store", "publish", "min", "cas"}
    /\ pc[Consumer] \in {"idle", "look", "wait", "copy", "reset", "advance"}

(* The producers that will not give a ticket back *)
Staying == {p \in Producers : pc[p] # "refuse"}

(* write_head is above its first value by the tickets that are kept and    *)
(* those that are about to be given back.                                  *)
TicketsKept == 1 + Cardinality(Producers) <= write_head + Cardinality(Staying)

(* A ticket has a predecessor, and a reader to be lowered is past it.      *)
TicketsTaken ==
    /\ \A p \in Producers : pc[p] \in {"refuse", "lock", "release", "store", "publish", "min", "cas"}
                                => w_h[p] > 0
    /\ \A p \in Producers : pc[p] = "cas" => w_h[p] - 1 < expected[p]

(* Only the consumer raises read_head: it is not past the consumer's copy. *)
ReaderPlace ==
    pc[Consumer] \in {"look", "wait", "copy", "reset", "advance"} => read_head <= r_h[Consumer]

(* A filled cell was filled under a ticket of its own.                     *)
FilledUnderTicket == \A s \in filled : Slot(under[s]) = s

(* NothingPassedOver, with the consumer on its way to the item's very      *)
(* ticket: a reader on its way to another ticket of the same cell might    *)
(* still turn back at write_head.                                          *)
StillToCome(s) == read_head + (IF AdvancePending THEN 1 ELSE 0) <= under[s]

OnItsWay(s) == pc[Consumer] \in {"look", "wait", "copy", "reset"} /\ r_h[Consumer] = under[s]

Reached == \A s \in filled : ~Unsettled(s) => StillToCome(s) \/ OnItsWay(s)

IInv ==
    /\ TypeOK /\ Roles /\ TicketsKept /\ TicketsTaken /\ ReaderPlace
    /\ FilledUnderTicket /\ Reached /\ ReaderAheadBounded

-----------------------------------------------------------------------------
(* Facts about the operators *)

(* The cell of a ticket is a cell of the ring.                             *)
LEMMA SlotInRange ==
    ASSUME NEW i \in Nat
    PROVE  Slot(i) \in Slots
BY LowCasSizeAssumption DEF Slot, Slots

(* There are no more producers in a set of producers than producers.       *)
LEMMA SomeProducers ==
    ASSUME NEW S \in SUBSET Producers
    PROVE  /\ IsFiniteSet(S) /\ Cardinality(S) \in Nat /\ Cardinality(Producers) \in Nat
           /\ Cardinality(S) <= Cardinality(Producers)
BY LowCasFiniteAssumption, FS_Subset, FS_CardinalityType

(* So write_head is positive, and stays so when a ticket is given back.    *)
LEMMA WriteHeadAbove ==
    ASSUME TypeOK, TicketsKept
    PROVE  write_head > 0 /\ \A p \in Producers : pc[p] = "refuse" => write_head > 1
<1>1. Staying \in SUBSET Producers
    BY DEF Staying
<1>2. write_head > 0
    BY <1>1, SomeProducers DEF TypeOK, TicketsKept
<1>3. ASSUME NEW p \in Producers, pc[p] = "refuse" PROVE write_head > 1
    <2>1. Staying \cup {p} \in SUBSET Producers /\ p \notin Staying
        BY <1>1, <1>3 DEF Staying
    <2>2. IsFiniteSet(Staying) /\ Cardinality(Staying) \in Nat /\ Cardinality(Producers) \in Nat
        BY <1>1, SomeProducers
    <2>3. Cardinality(Staying \cup {p}) = Cardinality(Staying) + 1
        BY <2>1, <2>2, FS_AddElement
    <2>4. Cardinality(Staying \cup {p}) <= Cardinality(Producers)
        BY <2>1, SomeProducers
    <2> QED BY <2>2, <2>3, <2>4 DEF TypeOK, TicketsKept
<1> QED BY <1>2, <1>3

(* A step that neither takes nor gives back a ticket, raises no read_head  *)
(* and brings the consumer no nearer to raising it keeps the counts.       *)
LEMMA CountsStay ==
    ASSUME TypeOK, TicketsKept, ReaderAheadBounded,
           \A p \in Producers : pc'[p] = "refuse" <=> pc[p] = "refuse",
           pc'[Consumer] \in {"wait", "copy", "reset", "advance"}
               => pc[Consumer] \in {"wait", "copy", "reset", "advance"},
           write_head' = write_head, read_head' \in Nat, read_head' <= read_head
    PROVE  TicketsKept' /\ ReaderAheadBounded'
<1>1. Staying' = Staying /\ Staying \in SUBSET Producers
    BY DEF Staying
<1>2. Cardinality(Staying) \in Nat
    BY <1>1, SomeProducers
<1>3. TicketsKept'
    BY <1>1 DEF TicketsKept
<1>4. ReaderAheadBounded = (read_head + (IF pc[Consumer] \in {"wait", "copy", "reset", "advance"} THEN 1 ELSE 0)
                                <= write_head + Cardinality(Staying))
    BY DEF ReaderAheadBounded, Staying
<1>5. ReaderAheadBounded' = (read_head' + (IF pc'[Consumer] \in {"wait", "copy", "reset", "advance"} THEN 1 ELSE 0)
                                <= write_head + Cardinality(Staying))
    BY <1>1 DEF ReaderAheadBounded, Staying
<1>6. ReaderAheadBounded'
    BY <1>2, <1>4, <1>5 DEF TypeOK
<1> QED BY <1>3, <1>6

(* A step that leaves the cells and the consumer alone, raises no head and *)
(* settles no item passes no item over.                                    *)
LEMMA ReachedStays ==
    ASSUME TypeOK, Reached, UNCHANGED <<filled, under>>,
           read_head' \in Nat, read_head' <= read_head,
           pc'[Consumer] = pc[Consumer], r_h'[Consumer] = r_h[Consumer],
           \A p \in Producers : pc[p] \in {"publish", "min", "cas"} =>
               pc'[p] \in {"publish", "min", "cas"} /\ w_h'[p] = w_h[p]
    PROVE  Reached'
<1> SUFFICES ASSUME NEW s \in filled, ~Unsettled(s)'
             PROVE  StillToCome(s)' \/ OnItsWay(s)'
    BY DEF Reached
<1>1. ~Unsettled(s)
    BY DEF Unsettled
<1>2. StillToCome(s) \/ OnItsWay(s)
    BY <1>1 DEF Reached
<1>3. CASE StillToCome(s)
    BY <1>3 DEF StillToCome, AdvancePending, TypeOK
<1>4. CASE OnItsWay(s)
    BY <1>4 DEF OnItsWay
<1> QED BY <1>2, <1>3, <1>4

(* Both heads are 1, all cells empty and unlocked.                         *)
LEMMA InitIInv == Init => IInv
<1> SUFFICES ASSUME Init PROVE IInv
    OBVIOUS
<1> USE LowCasSizeAssumption, LowCasConsumerAssumption DEF Init, InitHeads, Procs
<1>1. TypeOK /\ Roles
    BY DEF TypeOK, Roles
<1>2. TicketsKept /\ ReaderAheadBounded
    <2>1. {p \in Producers : pc[p] # "refuse"} = Producers
        OBVIOUS
    <2>2. Cardinality(Producers) \in Nat
        BY SomeProducers
    <2> QED BY <2>1, <2>2 DEF TicketsKept, Staying, ReaderAheadBounded
<1>3. TicketsTaken /\ ReaderPlace /\ FilledUnderTicket /\ Reached
    BY DEF TicketsTaken, ReaderPlace, FilledUnderTicket, Reached
<1> QED BY <1>1, <1>2, <1>3 DEF IInv

(* No step leaves the inductive invariant.                                 *)
LEMMA StepIInv == IInv /\ [Next]_vars => IInv'
<1> SUFFICES ASSUME IInv, [Next]_vars PROVE IInv'
    OBVIOUS
<1> USE LowCasSizeAssumption, LowCasBoundAssumption, LowCasConsumerAssumption
<1> USE DEF Step, ReturnTrue, Forget, Procs, heads, cells, locals
<1>0. /\ TypeOK /\ Roles /\ TicketsKept /\ TicketsTaken /\ ReaderPlace
      /\ FilledUnderTicket /\ Reached /\ ReaderAheadBounded
    BY DEF IInv
<1>1. ASSUME NEW p \in Producers, LoadReadHead(p) PROVE IInv'
    <2>1. TypeOK' /\ Roles'
        BY <1>0, <1>1, SlotInRange DEF LoadReadHead, TypeOK, Roles
    <2>2. TicketsTaken' /\ ReaderPlace'
        BY <1>0, <1>1 DEF LoadReadHead, TypeOK, Roles, TicketsTaken, ReaderPlace
    <2>3. FilledUnderTicket'
        BY <1>0, <1>1, SlotInRange DEF LoadReadHead, TypeOK, FilledUnderTicket, Slot
    <2>4. TicketsKept' /\ ReaderAheadBounded'
        BY <1>0, <1>1, <2>1, CountsStay DEF LoadReadHead, TypeOK, Roles
    <2>5. Reached'
        BY <1>0, <1>1, <2>1, ReachedStays DEF LoadReadHead, TypeOK, Roles
    <2> QED BY <2>1, <2>2, <2>3, <2>4, <2>5 DEF IInv
<1>2. ASSUME NEW p \in Producers, TakeTicket(p) PROVE IInv'
    <2>1. TypeOK' /\ Roles'
        BY <1>0, <1>2, SlotInRange DEF TakeTicket, TypeOK, Roles
    <2>2. TicketsTaken' /\ ReaderPlace'
        <3>1. write_head > 0
            BY <1>0, WriteHeadAbove
        <3> QED BY <1>0, <1>2, <3>1 DEF TakeTicket, TypeOK, Roles, TicketsTaken, ReaderPlace
    <2>3. FilledUnderTicket'
        BY <1>0, <1>2, SlotInRange DEF TakeTicket, TypeOK, FilledUnderTicket, Slot
    <2>4. TicketsKept' /\ ReaderAheadBounded'
        <3>1. Staying' = Staying
            BY <1>0, <1>2 DEF TakeTicket, TypeOK, Staying
        <3>2. Staying \in SUBSET Producers
            BY DEF Staying
        <3>3. Cardinality(Staying) \in Nat /\ Cardinality(Producers) \in Nat
            BY <3>2, SomeProducers
        <3>4. pc'[Consumer] = pc[Consumer] /\ write_head' = write_head + 1 /\ read_head' = read_head
            BY <1>0, <1>2 DEF TakeTicket, TypeOK
        <3>5. TicketsKept'
            BY <1>0, <3>1, <3>3, <3>4 DEF TypeOK, TicketsKept
        <3>6. Cardinality(Staying') = Cardinality(Staying)
            BY <3>1
        <3>7. ReaderAheadBounded'
            BY <1>0, <3>3, <3>4, <3>6 DEF TypeOK, ReaderAheadBounded, Staying
        <3> QED BY <3>5, <3>7
    <2>5. Reached'
        BY <1>0, <1>2, <2>1, ReachedStays DEF TakeTicket, TypeOK, Roles
    <2> QED BY <2>1, <2>2, <2>3, <2>4, <2>5 DEF IInv
<1>3. ASSUME NEW p \in Producers, TakeTicketBeyond(p) PROVE IInv'
    <2>1. TypeOK' /\ Roles'
        BY <1>0, <1>3, SlotInRange DEF TakeTicketBeyond, TypeOK, Roles
    <2>2. TicketsTaken' /\ ReaderPlace'
        BY <1>0, <1>3 DEF TakeTicketBeyond, TypeOK, Roles, TicketsTaken, ReaderPlace
    <2>3. FilledUnderTicket'
        BY <1>0, <1>3, SlotInRange DEF TakeTicketBeyond, TypeOK, FilledUnderTicket, Slot
    <2>4. TicketsKept' /\ ReaderAheadBounded'
        <3>1. Staying' = Staying \ {p} /\ p \in Staying /\ Staying \in SUBSET Producers
            BY <1>0, <1>3 DEF TakeTicketBeyond, TypeOK, Staying
        <3>2. Cardinality(Staying) \in Nat /\ Cardinality(Producers) \in Nat /\ IsFiniteSet(Staying)
            BY <3>1, SomeProducers
        <3>3. Cardinality(Staying') = Cardinality(Staying) - 1
            BY <3>1, <3>2, FS_RemoveElement
        <3>4. pc'[Consumer] = pc[Consumer] /\ write_head' = write_head + 1 /\ read_head' = read_head
            BY <1>0, <1>3 DEF TakeTicketBeyond, TypeOK
        <3>5. TicketsKept'
            BY <1>0, <3>2, <3>3, <3>4 DEF TypeOK, TicketsKept
        <3>6. ReaderAheadBounded'
            BY <1>0, <3>2, <3>3, <3>4 DEF TypeOK, ReaderAheadBounded, Staying
        <3> QED BY <3>5, <3>6
    <2>5. Reached'
        BY <1>0, <1>3, <2>1, ReachedStays DEF TakeTicketBeyond, TypeOK, Roles
    <2> QED BY <2>1, <2>2, <2>3, <2>4, <2>5 DEF IInv
<1>4. ASSUME NEW p \in Producers, GiveTicketBack(p) PROVE IInv'
    <2>1. TypeOK' /\ Roles'
        <3>1. write_head > 1
            BY <1>0, <1>4, WriteHeadAbove DEF GiveTicketBack
        <3>2. write_head - 1 \in Nat
            BY <1>0, <3>1 DEF TypeOK
        <3> QED BY <1>0, <1>4, <3>2 DEF GiveTicketBack, TypeOK, Roles
    <2>2. TicketsTaken' /\ ReaderPlace'
        BY <1>0, <1>4 DEF GiveTicketBack, TypeOK, Roles, TicketsTaken, ReaderPlace
    <2>3. FilledUnderTicket'
        BY <1>0, <1>4, SlotInRange DEF GiveTicketBack, TypeOK, FilledUnderTicket, Slot
    <2>4. TicketsKept' /\ ReaderAheadBounded'
        <3>1. Staying' = Staying \cup {p} /\ p \notin Staying /\ Staying \in SUBSET Producers
            BY <1>0, <1>4 DEF GiveTicketBack, TypeOK, Staying
        <3>2. Cardinality(Staying) \in Nat /\ Cardinality(Producers) \in Nat /\ IsFiniteSet(Staying)
            BY <3>1, SomeProducers
        <3>3. Cardinality(Staying') = Cardinality(Staying) + 1
            BY <3>1, <3>2, FS_AddElement
        <3>4. pc'[Consumer] = pc[Consumer] /\ write_head' = write_head - 1 /\ read_head' = read_head
            BY <1>0, <1>4 DEF GiveTicketBack, TypeOK
        <3>5. TicketsKept'
            BY <1>0, <3>2, <3>3, <3>4 DEF TypeOK, TicketsKept
        <3>6. ReaderAheadBounded'
            BY <1>0, <3>2, <3>3, <3>4 DEF TypeOK, ReaderAheadBounded, Staying
        <3> QED BY <3>5, <3>6
    <2>5. Reached'
        BY <1>0, <1>4, <2>1, ReachedStays DEF GiveTicketBack, TypeOK, Roles
    <2> QED BY <2>1, <2>2, <2>3, <2>4, <2>5 DEF IInv
<1>5. ASSUME NEW p \in Producers, LockEmptyCell(p) PROVE IInv'
    <2>1. TypeOK' /\ Roles'
        BY <1>0, <1>5, SlotInRange DEF LockEmptyCell, TypeOK, Roles
    <2>2. TicketsTaken' /\ ReaderPlace'
        BY <1>0, <1>5 DEF LockEmptyCell, TypeOK, Roles, TicketsTaken, ReaderPlace
    <2>3. FilledUnderTicket'
        BY <1>0, <1>5, SlotInRange DEF LockEmptyCell, TypeOK, FilledUnderTicket, Slot
    <2>4. TicketsKept' /\ ReaderAheadBounded'
        BY <1>0, <1>5, <2>1, CountsStay DEF LockEmptyCell, TypeOK, Roles
    <2>5. Reached'
        BY <1>0, <1>5, <2>1, ReachedStays DEF LockEmptyCell, TypeOK, Roles
    <2> QED BY <2>1, <2>2, <2>3, <2>4, <2>5 DEF IInv
<1>6. ASSUME NEW p \in Producers, FindCellLocked(p) PROVE IInv'
    <2>1. TypeOK' /\ Roles'
        BY <1>0, <1>6, SlotInRange DEF FindCellLocked, TypeOK, Roles
    <2>2. TicketsTaken' /\ ReaderPlace'
        BY <1>0, <1>6 DEF FindCellLocked, TypeOK, Roles, TicketsTaken, ReaderPlace
    <2>3. FilledUnderTicket'
        BY <1>0, <1>6, SlotInRange DEF FindCellLocked, TypeOK, FilledUnderTicket, Slot
    <2>4. TicketsKept' /\ ReaderAheadBounded'
        BY <1>0, <1>6, <2>1, CountsStay DEF FindCellLocked, TypeOK, Roles
    <2>5. Reached'
        BY <1>0, <1>6, <2>1, ReachedStays DEF FindCellLocked, TypeOK, Roles
    <2> QED BY <2>1, <2>2, <2>3, <2>4, <2>5 DEF IInv
<1>7. ASSUME NEW p \in Producers, LockFilledCell(p) PROVE IInv'
    <2>1. TypeOK' /\ Roles'
        BY <1>0, <1>7, SlotInRange DEF LockFilledCell, TypeOK, Roles
    <2>2. TicketsTaken' /\ ReaderPlace'
        BY <1>0, <1>7 DEF LockFilledCell, TypeOK, Roles, TicketsTaken, ReaderPlace
    <2>3. FilledUnderTicket'
        BY <1>0, <1>7, SlotInRange DEF LockFilledCell, TypeOK, FilledUnderTicket, Slot
    <2>4. TicketsKept' /\ ReaderAheadBounded'
        BY <1>0, <1>7, <2>1, CountsStay DEF LockFilledCell, TypeOK, Roles
    <2>5. Reached'
        BY <1>0, <1>7, <2>1, ReachedStays DEF LockFilledCell, TypeOK, Roles
    <2> QED BY <2>1, <2>2, <2>3, <2>4, <2>5 DEF IInv
<1>8. ASSUME NEW p \in Producers, ReleaseFilledCell(p) PROVE IInv'
    <2>1. TypeOK' /\ Roles'
        BY <1>0, <1>8, SlotInRange DEF ReleaseFilledCell, TypeOK, Roles
    <2>2. TicketsTaken' /\ ReaderPlace'
        BY <1>0, <1>8 DEF ReleaseFilledCell, TypeOK, Roles, TicketsTaken, ReaderPlace
    <2>3. FilledUnderTicket'
        BY <1>0, <1>8, SlotInRange DEF ReleaseFilledCell, TypeOK, FilledUnderTicket, Slot
    <2>4. TicketsKept' /\ ReaderAheadBounded'
        BY <1>0, <1>8, <2>1, CountsStay DEF ReleaseFilledCell, TypeOK, Roles
    <2>5. Reached'
        BY <1>0, <1>8, <2>1, ReachedStays DEF ReleaseFilledCell, TypeOK, Roles
    <2> QED BY <2>1, <2>2, <2>3, <2>4, <2>5 DEF IInv
<1>9. ASSUME NEW p \in Producers, StoreItem(p) PROVE IInv'
    <2>1. TypeOK' /\ Roles'
        BY <1>0, <1>9, SlotInRange DEF StoreItem, TypeOK, Roles
    <2>2. TicketsTaken' /\ ReaderPlace'
        BY <1>0, <1>9 DEF StoreItem, TypeOK, Roles, TicketsTaken, ReaderPlace
    <2>3. FilledUnderTicket'
        BY <1>0, <1>9, SlotInRange DEF StoreItem, TypeOK, FilledUnderTicket, Slot
    <2>4. TicketsKept' /\ ReaderAheadBounded'
        BY <1>0, <1>9, <2>1, CountsStay DEF StoreItem, TypeOK, Roles
    <2>5. Reached'
        <3> SUFFICES ASSUME NEW s \in filled', ~Unsettled(s)'
                     PROVE  StillToCome(s)' \/ OnItsWay(s)'
            BY DEF Reached
        <3>1. /\ Slot(w_h[p]) \in Slots /\ w_h' = w_h /\ pc'[p] = "publish"
              /\ filled' = filled \cup {Slot(w_h[p])}
              /\ under' = [under EXCEPT ![Slot(w_h[p])] = w_h[p]]
              /\ read_head' = read_head /\ pc'[Consumer] = pc[Consumer] /\ r_h' = r_h
              /\ \A q \in Producers : q # p => pc'[q] = pc[q]
            BY <1>0, <1>9, SlotInRange DEF StoreItem, TypeOK
        <3>2. s # Slot(w_h[p])
            BY <1>0, <3>1 DEF TypeOK, Unsettled
        <3>3. s \in filled /\ under'[s] = under[s]
            BY <1>0, <3>1, <3>2 DEF TypeOK
        <3>4. ~Unsettled(s)
            BY <1>9, <3>1, <3>3 DEF StoreItem, Unsettled
        <3>5. StillToCome(s) \/ OnItsWay(s)
            BY <1>0, <3>3, <3>4 DEF Reached
        <3> QED BY <3>1, <3>3, <3>5 DEF StillToCome, AdvancePending, OnItsWay
    <2> QED BY <2>1, <2>2, <2>3, <2>4, <2>5 DEF IInv
<1>10. ASSUME NEW p \in Producers, PublishItem(p) PROVE IInv'
    <2>1. TypeOK' /\ Roles'
        BY <1>0, <1>10, SlotInRange DEF PublishItem, TypeOK, Roles
    <2>2. TicketsTaken' /\ ReaderPlace'
        BY <1>0, <1>10 DEF PublishItem, TypeOK, Roles, TicketsTaken, ReaderPlace
    <2>3. FilledUnderTicket'
        BY <1>0, <1>10, SlotInRange DEF PublishItem, TypeOK, FilledUnderTicket, Slot
    <2>4. TicketsKept' /\ ReaderAheadBounded'
        BY <1>0, <1>10, <2>1, CountsStay DEF PublishItem, TypeOK, Roles
    <2>5. Reached'
        <3> SUFFICES ASSUME NEW s \in filled', ~Unsettled(s)'
                     PROVE  StillToCome(s)' \/ OnItsWay(s)'
            BY DEF Reached
        <3>1. /\ Slot(w_h[p]) \in Slots /\ w_h' = w_h /\ pc'[p] = "min"
              /\ filled' = filled \cup {Slot(w_h[p])}
              /\ under' = [under EXCEPT ![Slot(w_h[p])] = w_h[p]]
              /\ read_head' = read_head /\ pc'[Consumer] = pc[Consumer] /\ r_h' = r_h
              /\ \A q \in Producers : q # p => pc'[q] = pc[q]
            BY <1>0, <1>10, SlotInRange DEF PublishItem, TypeOK
        <3>2. s # Slot(w_h[p])
            BY <1>0, <3>1 DEF TypeOK, Unsettled
        <3>3. s \in filled /\ under'[s] = under[s]
            BY <1>0, <3>1, <3>2 DEF TypeOK
        <3>4. ~Unsettled(s)
            BY <1>10, <3>1, <3>3 DEF PublishItem, Unsettled
        <3>5. StillToCome(s) \/ OnItsWay(s)
            BY <1>0, <3>3, <3>4 DEF Reached
        <3> QED BY <3>1, <3>3, <3>5 DEF StillToCome, AdvancePending, OnItsWay
    <2> QED BY <2>1, <2>2, <2>3, <2>4, <2>5 DEF IInv
<1>11. ASSUME NEW p \in Producers, FindReaderPast(p) PROVE IInv'
    <2>1. TypeOK' /\ Roles'
        BY <1>0, <1>11, SlotInRange DEF FindReaderPast, TypeOK, Roles
    <2>2. TicketsTaken' /\ ReaderPlace'
        BY <1>0, <1>11 DEF FindReaderPast, TypeOK, Roles, TicketsTaken, ReaderPlace
    <2>3. FilledUnderTicket'
        BY <1>0, <1>11, SlotInRange DEF FindReaderPast, TypeOK, FilledUnderTicket, Slot
    <2>4. TicketsKept' /\ ReaderAheadBounded'
        BY <1>0, <1>11, <2>1, CountsStay DEF FindReaderPast, TypeOK, Roles
    <2>5. Reached'
        BY <1>0, <1>11, <2>1, ReachedStays DEF FindReaderPast, TypeOK, Roles
    <2> QED BY <2>1, <2>2, <2>3, <2>4, <2>5 DEF IInv
<1>12. ASSUME NEW p \in Producers, FindReaderBelow(p) PROVE IInv'
    <2>1. TypeOK' /\ Roles'
        BY <1>0, <1>12, SlotInRange DEF FindReaderBelow, TypeOK, Roles
    <2>2. TicketsTaken' /\ ReaderPlace'
        BY <1>0, <1>12 DEF FindReaderBelow, TypeOK, Roles, TicketsTaken, ReaderPlace
    <2>3. FilledUnderTicket'
        BY <1>0, <1>12, SlotInRange DEF FindReaderBelow, TypeOK, FilledUnderTicket, Slot
    <2>4. TicketsKept' /\ ReaderAheadBounded'
        BY <1>0, <1>12, <2>1, CountsStay DEF FindReaderBelow, TypeOK, Roles
    <2>5. Reached'
        <3> SUFFICES ASSUME NEW s \in filled, ~Unsettled(s)'
                     PROVE  StillToCome(s)' \/ OnItsWay(s)'
            BY <1>12 DEF FindReaderBelow, Reached
        <3>1. /\ under' = under /\ read_head' = read_head
              /\ pc'[Consumer] = pc[Consumer] /\ r_h'[Consumer] = r_h[Consumer]
              /\ \A q \in Producers : q # p => pc'[q] = pc[q] /\ w_h'[q] = w_h[q]
            BY <1>0, <1>12 DEF FindReaderBelow, TypeOK
        <3>2. StillToCome(s) \/ OnItsWay(s)
            <4>1. CASE w_h[p] = under[s]
                <5>1. read_head + 1 <= under[s]
                    BY <1>0, <1>12, <4>1 DEF FindReaderBelow, TypeOK
                <5> QED BY <1>0, <5>1 DEF StillToCome, TypeOK
            <4>2. CASE w_h[p] # under[s]
                <5>1. ~Unsettled(s)
                    BY <3>1, <4>2 DEF Unsettled
                <5> QED BY <1>0, <5>1 DEF Reached
            <4> QED BY <4>1, <4>2
        <3> QED BY <3>1, <3>2 DEF StillToCome, AdvancePending, OnItsWay
    <2> QED BY <2>1, <2>2, <2>3, <2>4, <2>5 DEF IInv
<1>13. ASSUME NEW p \in Producers, LowerReadHead(p) PROVE IInv'
    <2>0. /\ w_h[p] - 1 \in Nat /\ w_h[p] - 1 < read_head
          /\ pc' = [pc EXCEPT ![p] = "idle"] /\ read_head' = w_h[p] - 1
          /\ pc'[Consumer] = pc[Consumer] /\ r_h'[Consumer] = r_h[Consumer]
        BY <1>0, <1>13 DEF LowerReadHead, TypeOK, TicketsTaken
    <2>1. TypeOK' /\ Roles'
        BY <1>0, <1>13, <2>0 DEF LowerReadHead, TypeOK, Roles
    <2>2. TicketsTaken' /\ ReaderPlace'
        BY <1>0, <1>13 DEF LowerReadHead, TypeOK, Roles, TicketsTaken, ReaderPlace
    <2>3. FilledUnderTicket'
        BY <1>0, <1>13, SlotInRange DEF LowerReadHead, TypeOK, FilledUnderTicket, Slot
    <2>4. TicketsKept' /\ ReaderAheadBounded'
        <3>1. \A q \in Producers : pc'[q] = "refuse" <=> pc[q] = "refuse"
            BY <1>0, <1>13, <2>0 DEF LowerReadHead, TypeOK
        <3>2. write_head' = write_head /\ read_head' \in Nat /\ read_head' <= read_head
            BY <1>0, <1>13, <2>0 DEF LowerReadHead, TypeOK
        <3> QED BY <1>0, <2>0, <3>1, <3>2, CountsStay
    <2>5. Reached'
        <3> SUFFICES ASSUME NEW s \in filled, ~Unsettled(s)'
                     PROVE  StillToCome(s)' \/ OnItsWay(s)'
            BY <1>13 DEF LowerReadHead, Reached
        <3>1. /\ under' = under
              /\ \A q \in Producers : q # p => pc'[q] = pc[q] /\ w_h'[q] = w_h[q]
            BY <1>0, <1>13 DEF LowerReadHead, TypeOK
        <3>2. CASE w_h[p] = under[s]
            <4>1. read_head' + 1 <= under'[s]
                BY <1>0, <2>0, <3>1, <3>2 DEF TypeOK
            <4> QED BY <1>0, <2>0, <3>1, <3>2, <4>1 DEF StillToCome, TypeOK
        <3>3. CASE w_h[p] # under[s]
            <4>1. ~Unsettled(s)
                BY <3>1, <3>3 DEF Unsettled
            <4>2. StillToCome(s) \/ OnItsWay(s)
                BY <1>0, <4>1 DEF Reached
            <4>3. StillToCome(s) => StillToCome(s)'
                BY <1>0, <2>0, <3>1 DEF StillToCome, AdvancePending, TypeOK
            <4> QED BY <2>0, <3>1, <4>2, <4>3 DEF OnItsWay
        <3> QED BY <3>2, <3>3
    <2> QED BY <2>1, <2>2, <2>3, <2>4, <2>5 DEF IInv
<1>14. CASE LoadOwnHead
    <2>1. TypeOK' /\ Roles'
        BY <1>0, <1>14, SlotInRange DEF LoadOwnHead, TypeOK, Roles
    <2>2. TicketsTaken' /\ ReaderPlace'
        BY <1>0, <1>14 DEF LoadOwnHead, TypeOK, Roles, TicketsTaken, ReaderPlace
    <2>3. FilledUnderTicket'
        BY <1>0, <1>14, SlotInRange DEF LoadOwnHead, TypeOK, FilledUnderTicket, Slot
    <2>4. TicketsKept' /\ ReaderAheadBounded'
        BY <1>0, <1>14, <2>1, CountsStay DEF LoadOwnHead, TypeOK, Roles
    <2>5. Reached'
        BY <1>0, <1>14 DEF LoadOwnHead, TypeOK, Roles, Reached, Unsettled, StillToCome, AdvancePending, OnItsWay
    <2> QED BY <2>1, <2>2, <2>3, <2>4, <2>5 DEF IInv
<1>15. CASE ReportEmpty
    <2>1. TypeOK' /\ Roles'
        BY <1>0, <1>15, SlotInRange DEF ReportEmpty, TypeOK, Roles
    <2>2. TicketsTaken' /\ ReaderPlace'
        BY <1>0, <1>15 DEF ReportEmpty, TypeOK, Roles, TicketsTaken, ReaderPlace
    <2>3. FilledUnderTicket'
        BY <1>0, <1>15, SlotInRange DEF ReportEmpty, TypeOK, FilledUnderTicket, Slot
    <2>4. TicketsKept' /\ ReaderAheadBounded'
        BY <1>0, <1>15, <2>1, CountsStay DEF ReportEmpty, TypeOK, Roles
    <2>5. Reached'
        BY <1>0, <1>15 DEF ReportEmpty, TypeOK, Roles, ReaderPlace, Reached, Unsettled, StillToCome,
                           AdvancePending, OnItsWay
    <2> QED BY <2>1, <2>2, <2>3, <2>4, <2>5 DEF IInv
<1>16. CASE SeeTicket
    <2>1. TypeOK' /\ Roles'
        BY <1>0, <1>16, SlotInRange DEF SeeTicket, TypeOK, Roles
    <2>2. TicketsTaken' /\ ReaderPlace'
        BY <1>0, <1>16 DEF SeeTicket, TypeOK, Roles, TicketsTaken, ReaderPlace
    <2>3. FilledUnderTicket'
        BY <1>0, <1>16, SlotInRange DEF SeeTicket, TypeOK, FilledUnderTicket, Slot
    <2>4. TicketsKept' /\ ReaderAheadBounded'
        <3>1. Staying' = Staying /\ Staying \in SUBSET Producers
            BY <1>0, <1>16 DEF SeeTicket, TypeOK, Staying
        <3>2. Cardinality(Staying) \in Nat
            BY <3>1, SomeProducers
        <3>3. /\ write_head' = write_head /\ read_head' = read_head /\ read_head < write_head
              /\ write_head \in Nat /\ read_head \in Nat
            BY <1>0, <1>16 DEF SeeTicket, TypeOK, ReaderPlace
        <3>4. TicketsKept'
            BY <1>0, <3>1, <3>3 DEF TicketsKept
        <3>5. read_head + 1 <= write_head + Cardinality(Staying)
            BY <3>2, <3>3
        <3>6. ReaderAheadBounded'
            BY <3>1, <3>2, <3>3, <3>5 DEF ReaderAheadBounded, Staying
        <3> QED BY <3>4, <3>6
    <2>5. Reached'
        BY <1>0, <1>16 DEF SeeTicket, TypeOK, Roles, Reached, Unsettled, StillToCome, AdvancePending, OnItsWay
    <2> QED BY <2>1, <2>2, <2>3, <2>4, <2>5 DEF IInv
<1>17. CASE LockFreeCell
    <2>1. TypeOK' /\ Roles'
        BY <1>0, <1>17, SlotInRange DEF LockFreeCell, TypeOK, Roles
    <2>2. TicketsTaken' /\ ReaderPlace'
        BY <1>0, <1>17 DEF LockFreeCell, TypeOK, Roles, TicketsTaken, ReaderPlace
    <2>3. FilledUnderTicket'
        BY <1>0, <1>17, SlotInRange DEF LockFreeCell, TypeOK, FilledUnderTicket, Slot
    <2>4. TicketsKept' /\ ReaderAheadBounded'
        BY <1>0, <1>17, <2>1, CountsStay DEF LockFreeCell, TypeOK, Roles
    <2>5. Reached'
        BY <1>0, <1>17 DEF LockFreeCell, TypeOK, Roles, Reached, Unsettled, StillToCome, AdvancePending, OnItsWay
    <2> QED BY <2>1, <2>2, <2>3, <2>4, <2>5 DEF IInv
<1>18. CASE FindLocked
    <2>1. TypeOK' /\ Roles'
        BY <1>0, <1>18, SlotInRange DEF FindLocked, TypeOK, Roles
    <2>2. TicketsTaken' /\ ReaderPlace'
        BY <1>0, <1>18 DEF FindLocked, TypeOK, Roles, TicketsTaken, ReaderPlace
    <2>3. FilledUnderTicket'
        BY <1>0, <1>18, SlotInRange DEF FindLocked, TypeOK, FilledUnderTicket, Slot
    <2>4. TicketsKept' /\ ReaderAheadBounded'
        BY <1>0, <1>18, <2>1, CountsStay DEF FindLocked, TypeOK, Roles
    <2>5. Reached'
        BY <1>0, <1>18 DEF FindLocked, TypeOK, Roles, Reached, Unsettled, StillToCome, AdvancePending, OnItsWay
    <2> QED BY <2>1, <2>2, <2>3, <2>4, <2>5 DEF IInv
<1>19. CASE CopyItem
    <2>1. TypeOK' /\ Roles'
        BY <1>0, <1>19, SlotInRange DEF CopyItem, TypeOK, Roles
    <2>2. TicketsTaken' /\ ReaderPlace'
        BY <1>0, <1>19 DEF CopyItem, TypeOK, Roles, TicketsTaken, ReaderPlace
    <2>3. FilledUnderTicket'
        BY <1>0, <1>19, SlotInRange DEF CopyItem, TypeOK, FilledUnderTicket, Slot
    <2>4. TicketsKept' /\ ReaderAheadBounded'
        BY <1>0, <1>19, <2>1, CountsStay DEF CopyItem, TypeOK, Roles
    <2>5. Reached'
        BY <1>0, <1>19 DEF CopyItem, TypeOK, Roles, Reached, Unsettled, StillToCome, AdvancePending, OnItsWay
    <2> QED BY <2>1, <2>2, <2>3, <2>4, <2>5 DEF IInv
<1>20. CASE ResetCell
    <2>1. TypeOK' /\ Roles'
        BY <1>0, <1>20, SlotInRange DEF ResetCell, TypeOK, Roles
    <2>2. TicketsTaken' /\ ReaderPlace'
        BY <1>0, <1>20 DEF ResetCell, TypeOK, Roles, TicketsTaken, ReaderPlace
    <2>3. FilledUnderTicket'
        BY <1>0, <1>20, SlotInRange DEF ResetCell, TypeOK, FilledUnderTicket, Slot
    <2>4. TicketsKept' /\ ReaderAheadBounded'
        BY <1>0, <1>20, <2>1, CountsStay DEF ResetCell, TypeOK, Roles
    <2>5. Reached'
        <3> SUFFICES ASSUME NEW s \in filled', ~Unsettled(s)'
                     PROVE  StillToCome(s)' \/ OnItsWay(s)'
            BY DEF Reached
        <3>1. /\ s \in filled /\ s # Slot(r_h[Consumer]) /\ under'[s] = under[s]
              /\ read_head' = read_head /\ w_h' = w_h /\ pc[Consumer] = "reset"
              /\ pc'[Consumer] = "advance" /\ \A p \in Producers : pc'[p] = pc[p]
            BY <1>0, <1>20 DEF ResetCell, TypeOK
        <3>2. ~Unsettled(s)
            BY <3>1 DEF Unsettled
        <3>3. ~OnItsWay(s)
            BY <1>0, <3>1 DEF OnItsWay, FilledUnderTicket
        <3>4. StillToCome(s)
            BY <1>0, <3>1, <3>2, <3>3 DEF Reached
        <3> QED BY <3>1, <3>4 DEF StillToCome, AdvancePending
    <2> QED BY <2>1, <2>2, <2>3, <2>4, <2>5 DEF IInv
<1>21. CASE AdvanceReadHead
    <2>0. /\ pc[Consumer] = "advance" /\ pc' = [pc EXCEPT ![Consumer] = "idle"]
          /\ read_head' = read_head + 1 /\ write_head' = write_head
        BY <1>21 DEF AdvanceReadHead
    <2>1. TypeOK' /\ Roles'
        <3>1. read_head + 1 \in Nat
            BY <1>0 DEF TypeOK
        <3>2. pc'[Consumer] = "idle" /\ \A p \in Producers : pc'[p] = pc[p]
            BY <1>0, <2>0 DEF TypeOK
        <3>3. TypeOK'
            BY <1>0, <1>21, <2>0, <3>1 DEF AdvanceReadHead, TypeOK
        <3> QED BY <1>0, <3>2, <3>3 DEF Roles
    <2>2. TicketsTaken' /\ ReaderPlace'
        BY <1>0, <1>21 DEF AdvanceReadHead, TypeOK, Roles, TicketsTaken, ReaderPlace
    <2>3. FilledUnderTicket'
        BY <1>0, <1>21, SlotInRange DEF AdvanceReadHead, TypeOK, FilledUnderTicket, Slot
    <2>4. TicketsKept' /\ ReaderAheadBounded'
        <3>1. Staying' = Staying /\ Staying \in SUBSET Producers
            BY <1>0, <2>0 DEF TypeOK, Staying
        <3>2. Cardinality(Staying) \in Nat
            BY <3>1, SomeProducers
        <3>3. pc'[Consumer] = "idle" /\ write_head \in Nat /\ read_head \in Nat
            BY <1>0, <2>0 DEF TypeOK
        <3> QED BY <1>0, <2>0, <3>1, <3>2, <3>3 DEF TicketsKept, ReaderAheadBounded, Staying
    <2>5. Reached'
        BY <1>0, <1>21 DEF AdvanceReadHead, TypeOK, Roles, Reached, Unsettled, StillToCome, AdvancePending, OnItsWay
    <2> QED BY <2>1, <2>2, <2>3, <2>4, <2>5 DEF IInv
<1>22. ASSUME NEW q \in Procs, Die(q) PROVE IInv'
    BY <1>0, <1>22
    DEF Die, IInv, TypeOK, Roles, TicketsKept, Staying, TicketsTaken, ReaderPlace, FilledUnderTicket,
        Reached, Unsettled, StillToCome, AdvancePending, OnItsWay, ReaderAheadBounded
<1>23. CASE UNCHANGED vars
    <2>1. /\ write_head' = write_head /\ read_head' = read_head /\ filled' = filled /\ locked' = locked
          /\ under' = under /\ pc' = pc /\ r_h' = r_h /\ w_h' = w_h /\ expected' = expected
          /\ output' = output /\ mine' = mine /\ sent' = sent /\ dead' = dead
        BY <1>23 DEF vars
    <2> QED BY <1>0, <2>1
        DEF IInv, TypeOK, Roles, TicketsKept, Staying, TicketsTaken, ReaderPlace, FilledUnderTicket,
            Reached, Unsettled, StillToCome, AdvancePending, OnItsWay, ReaderAheadBounded
<1> QED BY <1>1, <1>2, <1>3, <1>4, <1>5, <1>6, <1>7, <1>8, <1>9, <1>10, <1>11, <1>12, <1>13, <1>14, <1>15, <1>16, <1>17, <1>18, <1>19, <1>20, <1>21, <1>22, <1>23 DEF Next, Write, Read

(* The inductive invariant holds in every reachable state, for every       *)
(* finite set of producers, every capacity and any number of deaths.       *)
THEOREM Invariance == Spec => []IInv
<1>1. Init => IInv
    BY InitIInv
<1>2. IInv /\ [Next]_vars => IInv'
    BY StepIInv
<1> QED BY <1>1, <1>2, PTL DEF Spec

(* Type correctness: in particular neither the fetch_sub of a refused      *)
(* write nor the fetch-min takes a head below zero.                        *)
THEOREM TypeCorrect == Spec => []TypeOK
<1>1. IInv => TypeOK
    BY DEF IInv
<1> QED BY <1>1, Invariance, PTL

(* No item is passed over: whatever tickets were given back meanwhile, the *)
(* fetch-min of write() leaves the consumer below the item it stored.      *)
THEOREM NothingIsPassedOver == Spec => []NothingPassedOver
<1>1. IInv => NothingPassedOver
    <2> SUFFICES ASSUME IInv, NEW s \in filled, ~Unsettled(s)
                 PROVE  \/ StillToCome(s)
                        \/ pc[Consumer] \in {"look", "wait", "copy", "reset"} /\ Slot(r_h[Consumer]) = s
        BY DEF NothingPassedOver, StillToCome
    <2>1. StillToCome(s) \/ OnItsWay(s)
        BY DEF IInv, Reached
    <2>2. OnItsWay(s) => Slot(r_h[Consumer]) = s
        BY DEF IInv, FilledUnderTicket, OnItsWay
    <2> QED BY <2>1, <2>2 DEF OnItsWay
<1> QED BY <1>1, Invariance, PTL

(* The consumer runs past the tickets taken by no more than the number of  *)
(* producers that are not about to give one back.                          *)
THEOREM ReaderIsNotFarAhead == Spec => []ReaderAheadBounded
<1>1. IInv => ReaderAheadBounded
    BY DEF IInv
<1> QED BY <1>1, Invariance, PTL
=============================================================================
