--------------------------- MODULE CellOpt1Proofs ---------------------------
(***************************************************************************)
(* Proofs about CellOpt1 for every set of producers, every capacity and    *)
(* any number of deaths.  IInv is inductive; the order of the heads, the   *)
(* order of delivery and the refinement of the unordered pool follow.      *)
(***************************************************************************)
EXTENDS CellOpt1, FiniteSetTheorems, TLAPS

-----------------------------------------------------------------------------
(* The inductive invariant *)

(* Producers are in write(), the consumer in read(), and the consumer      *)
(* visits the index read_head points to.                                   *)
Roles ==
    /\ \A p \in Producers : pc[p] \in {"idle", "check", "lock", "locked", "again", "store", "unlock"}
    /\ pc[Consumer] \in {"idle", "look", "lock", "locked", "advance"}
    /\ pc[Consumer] # "idle" => index[Consumer] = read_head
    /\ pc[Consumer] # "advance" => output = Empty

Holds(q) == pc[q] \in {"locked", "store", "unlock"}

(* Whoever is in a cell has set its lock word, and nobody else has; the    *)
(* cell a producer is about to fill is still the empty one it found.       *)
LocksTaken ==
    /\ \A q \in Procs : Holds(q) => Slot(index[q]) \in locked
    /\ \A q1, q2 \in Procs :
          Holds(q1) /\ Holds(q2) /\ Slot(index[q1]) = Slot(index[q2]) => q1 = q2
    /\ \A p \in Producers : pc[p] = "store" => cell[Slot(index[p])] = Empty

(* The room a producer saw is still there: read_head only grows.           *)
RoomSeen == \A p \in Producers : pc[p] \in {"lock", "locked"} => index[p] < Size + read_head

(* Each item is in one place and was stored by its producer.               *)
ItemsApart ==
    /\ \A s, t \in Slots : cell[s] = cell[t] /\ cell[s] # Empty => s = t
    /\ \A s \in Slots : cell[s] # Empty => cell[s][2] <= Stored(cell[s][1])
    /\ output # Empty => output[2] <= Stored(output[1])

(* Whatever was stored is in a cell, in the consumer's hand or returned.   *)
Somewhere(item) == item \in received \/ item = output \/ \E s \in Slots : cell[s] = item

NothingLost == \A p \in Producers : \A n \in 1 .. Stored(p) : Somewhere(<<p, n>>)

(* The indices between the heads *)
Window == read_head .. write_head - 1

(* Until an index is used twice: every full cell belongs to an index       *)
(* between the heads, ...                                                  *)
FullInWindow ==
    /\ \A s \in Slots : cell[s] # Empty => \E i \in Window : Slot(i) = s
    /\ pc[Consumer] = "advance" => cell[Slot(read_head)] = Empty

(* ... so does every store that was promised, ... *)
PromisedInWindow ==
    \A p \in Producers : pc[p] \in {"store", "unlock"} =>
        index[p] \in Window /\ (pc[Consumer] = "advance" => index[p] # read_head)

(* ... and the items of a producer lie in the order it wrote them, the one *)
(* it is about to store behind the others and the one in the consumer's    *)
(* hand before them.                                                       *)
InOrder ==
    /\ \A i, j \in Window :
          i < j /\ cell[Slot(i)] # Empty /\ cell[Slot(j)] # Empty /\ cell[Slot(i)][1] = cell[Slot(j)][1]
              => cell[Slot(i)][2] < cell[Slot(j)][2]
    /\ \A p \in Producers : pc[p] = "store" =>
          \A i \in Window : cell[Slot(i)] # Empty /\ cell[Slot(i)][1] = p => i < index[p]
    /\ output # Empty =>
          \A s \in Slots : cell[s] # Empty /\ cell[s][1] = output[1] => output[2] < cell[s][2]

FifoUnlessStale == ~stale => FullInWindow /\ PromisedInWindow /\ InOrder

IInv ==
    /\ HeadsOrdered /\ Roles /\ LocksTaken /\ RoomSeen /\ ItemsApart /\ NothingLost
    /\ FifoUnlessStale

-----------------------------------------------------------------------------
(* Facts about the operators *)

(* The cell of an index is a cell of the ring.                             *)
LEMMA SlotInRange ==
    ASSUME NEW i \in Nat
    PROVE  Slot(i) \in Slots
BY OptSizeAssumption DEF Slot, Slots

(* Two indices less than a round apart have different cells.               *)
LEMMA SlotsDiffer ==
    ASSUME NEW i \in Nat, NEW j \in Nat, i < j, j < i + Size
    PROVE  Slot(i) # Slot(j)
<1> SUFFICES ASSUME i % Size = j % Size PROVE FALSE
    BY DEF Slot
<1> DEFINE a == i \div Size
           b == j \div Size
           r == i % Size
<1>1. /\ a \in Int /\ b \in Int /\ r \in Nat
      /\ i = Size * a + r /\ j = Size * b + r
    BY OptSizeAssumption
<1> HIDE DEF a, b, r
<1>2. Size * b - Size * a = Size * (b - a)
    BY <1>1, OptSizeAssumption
<1>3. CASE b - a >= 1
    <2>1. Size * (b - a) >= Size * 1
        BY <1>1, <1>3, OptSizeAssumption
    <2> QED BY <1>1, <1>2, <2>1, OptSizeAssumption
<1>4. CASE b - a <= 0
    <2>1. Size * (b - a) <= Size * 0
        BY <1>1, <1>4, OptSizeAssumption
    <2> QED BY <1>1, <1>2, <2>1, OptSizeAssumption
<1> QED BY <1>1, <1>3, <1>4

(* A step that moves no item keeps them apart and loses none.              *)
LEMMA ItemsStay ==
    ASSUME TypeOK, ItemsApart, NothingLost, UNCHANGED <<cell, output, received>>,
           \A q \in Producers : Stored(q)' = Stored(q)
    PROVE  ItemsApart' /\ NothingLost'
<1>1. /\ \A s \in Slots : cell[s] # Empty => cell[s][1] \in Producers
      /\ output # Empty => output[1] \in Producers
    BY DEF TypeOK, Items
<1>2. ItemsApart'
    BY <1>1 DEF ItemsApart
<1>3. NothingLost'
    BY DEF NothingLost, Somewhere
<1> QED BY <1>2, <1>3

(* Both heads are zero, all cells empty and unlocked. *)
LEMMA InitIInv == Init => IInv
<1> SUFFICES ASSUME Init PROVE IInv
    OBVIOUS
<1> USE OptSizeAssumption, OptConsumerAssumption, OptValueAssumption DEF Init, Procs
<1>0. TypeOK
    BY DEF TypeOK
<1>1. HeadsOrdered /\ Roles
    BY <1>0 DEF HeadsOrdered, Roles
<1>2. LocksTaken /\ RoomSeen /\ ItemsApart /\ NothingLost
    BY DEF LocksTaken, Holds, RoomSeen, ItemsApart, NothingLost, Stored
<1>3. FifoUnlessStale
    BY SlotInRange DEF FifoUnlessStale, FullInWindow, PromisedInWindow, InOrder, Window
<1> QED BY <1>1, <1>2, <1>3 DEF IInv

(* No step leaves the inductive invariant.                                 *)
LEMMA StepIInv == IInv /\ [Next]_vars => IInv'
<1> SUFFICES ASSUME IInv, [Next]_vars PROVE IInv'
    OBVIOUS
<1> USE OptSizeAssumption, OptBoundAssumption, OptConsumerAssumption, OptValueAssumption
<1> USE DEF Step, Load, Procs, heads, cells, calls
<1>0. /\ TypeOK /\ HeadsOrdered /\ Roles /\ LocksTaken /\ RoomSeen /\ ItemsApart /\ NothingLost
      /\ FifoUnlessStale
    BY DEF IInv, HeadsOrdered
<1>1. ASSUME NEW p \in Producers, LoadWriteHead(p) PROVE IInv'
    <2>1. TypeOK'
        BY <1>0, <1>1, SlotInRange DEF LoadWriteHead, TypeOK, Roles, Items, ItemOf
    <2>2. HeadsOrdered' /\ Roles' /\ RoomSeen'
        BY <1>0, <1>1, <2>1 DEF LoadWriteHead, TypeOK, HeadsOrdered, Roles, RoomSeen
    <2>3. LocksTaken'
        BY <1>0, <1>1, SlotInRange DEF LoadWriteHead, TypeOK, Roles, LocksTaken, Holds
    <2>4. ItemsApart' /\ NothingLost'
        <3>1. \A q \in Producers : Stored(q)' = Stored(q)
            BY <1>0, <1>1 DEF LoadWriteHead, TypeOK, Roles, Stored
        <3> QED BY <1>0, <1>1, <3>1, ItemsStay DEF LoadWriteHead
    <2>5. FifoUnlessStale'
        BY <1>0, <1>1 DEF LoadWriteHead, TypeOK, Roles, FifoUnlessStale, FullInWindow, PromisedInWindow, InOrder, Window
    <2> QED BY <2>2, <2>3, <2>4, <2>5 DEF IInv
<1>2. ASSUME NEW p \in Producers, ReportFull(p) PROVE IInv'
    <2>1. TypeOK'
        BY <1>0, <1>2, SlotInRange DEF ReportFull, TypeOK, Roles, Items, ItemOf
    <2>2. HeadsOrdered' /\ Roles' /\ RoomSeen'
        BY <1>0, <1>2, <2>1 DEF ReportFull, TypeOK, HeadsOrdered, Roles, RoomSeen
    <2>3. LocksTaken'
        BY <1>0, <1>2, SlotInRange DEF ReportFull, TypeOK, Roles, LocksTaken, Holds
    <2>4. ItemsApart' /\ NothingLost'
        <3>1. \A q \in Producers : Stored(q)' = Stored(q)
            BY <1>0, <1>2 DEF ReportFull, TypeOK, Roles, Stored
        <3> QED BY <1>0, <1>2, <3>1, ItemsStay DEF ReportFull
    <2>5. FifoUnlessStale'
        BY <1>0, <1>2 DEF ReportFull, TypeOK, Roles, FifoUnlessStale, FullInWindow, PromisedInWindow, InOrder, Window
    <2> QED BY <2>2, <2>3, <2>4, <2>5 DEF IInv
<1>3. ASSUME NEW p \in Producers, SeeRoom(p) PROVE IInv'
    <2>1. TypeOK'
        BY <1>0, <1>3, SlotInRange DEF SeeRoom, TypeOK, Roles, Items, ItemOf
    <2>2. HeadsOrdered' /\ Roles' /\ RoomSeen'
        BY <1>0, <1>3, <2>1 DEF SeeRoom, TypeOK, HeadsOrdered, Roles, RoomSeen
    <2>3. LocksTaken'
        BY <1>0, <1>3, SlotInRange DEF SeeRoom, TypeOK, Roles, LocksTaken, Holds
    <2>4. ItemsApart' /\ NothingLost'
        <3>1. \A q \in Producers : Stored(q)' = Stored(q)
            BY <1>0, <1>3 DEF SeeRoom, TypeOK, Roles, Stored
        <3> QED BY <1>0, <1>3, <3>1, ItemsStay DEF SeeRoom
    <2>5. FifoUnlessStale'
        BY <1>0, <1>3 DEF SeeRoom, TypeOK, Roles, FifoUnlessStale, FullInWindow, PromisedInWindow, InOrder, Window
    <2> QED BY <2>2, <2>3, <2>4, <2>5 DEF IInv
<1>4. ASSUME NEW p \in Producers, LockCell(p) PROVE IInv'
    <2>1. TypeOK'
        BY <1>0, <1>4, SlotInRange DEF LockCell, TypeOK, Roles, Items, ItemOf
    <2>2. HeadsOrdered' /\ Roles' /\ RoomSeen'
        BY <1>0, <1>4, <2>1 DEF LockCell, TypeOK, HeadsOrdered, Roles, RoomSeen
    <2>3. LocksTaken'
        BY <1>0, <1>4, SlotInRange DEF LockCell, TypeOK, Roles, LocksTaken, Holds
    <2>4. ItemsApart' /\ NothingLost'
        <3>1. \A q \in Producers : Stored(q)' = Stored(q)
            BY <1>0, <1>4 DEF LockCell, TypeOK, Roles, Stored
        <3> QED BY <1>0, <1>4, <3>1, ItemsStay DEF LockCell
    <2>5. FifoUnlessStale'
        BY <1>0, <1>4 DEF LockCell, TypeOK, Roles, FifoUnlessStale, FullInWindow, PromisedInWindow, InOrder, Window
    <2> QED BY <2>2, <2>3, <2>4, <2>5 DEF IInv
<1>5. ASSUME NEW p \in Producers, LeaveOccupiedCell(p) PROVE IInv'
    <2>1. TypeOK'
        BY <1>0, <1>5, SlotInRange DEF LeaveOccupiedCell, TypeOK, Roles, Items, ItemOf
    <2>2. HeadsOrdered' /\ Roles' /\ RoomSeen'
        BY <1>0, <1>5, <2>1 DEF LeaveOccupiedCell, TypeOK, HeadsOrdered, Roles, RoomSeen
    <2>3. LocksTaken'
        BY <1>0, <1>5, SlotInRange DEF LeaveOccupiedCell, TypeOK, Roles, LocksTaken, Holds
    <2>4. ItemsApart' /\ NothingLost'
        <3>1. \A q \in Producers : Stored(q)' = Stored(q)
            BY <1>0, <1>5 DEF LeaveOccupiedCell, TypeOK, Roles, Stored
        <3> QED BY <1>0, <1>5, <3>1, ItemsStay DEF LeaveOccupiedCell
    <2>5. FifoUnlessStale'
        BY <1>0, <1>5 DEF LeaveOccupiedCell, TypeOK, Roles, FifoUnlessStale, FullInWindow, PromisedInWindow, InOrder, Window
    <2> QED BY <2>2, <2>3, <2>4, <2>5 DEF IInv
<1>6. ASSUME NEW p \in Producers, AdvanceWriteHead(p) PROVE IInv'
    <2>1. TypeOK'
        BY <1>0, <1>6, SlotInRange DEF AdvanceWriteHead, TypeOK, Roles, Items, ItemOf
    <2>2. HeadsOrdered' /\ Roles' /\ RoomSeen'
        <3>1. pc' = [pc EXCEPT ![p] = "store"] /\ pc[p] = "locked" /\ write_head' = write_head + 1
            BY <1>6 DEF AdvanceWriteHead
        <3>2. ~stale' => ~stale /\ index[p] = write_head
            BY <1>6 DEF AdvanceWriteHead
        <3>3. ~stale' => write_head' <= read_head' + Size
            BY <1>0, <1>6, <3>1, <3>2 DEF AdvanceWriteHead, TypeOK, RoomSeen
        <3>4. pc'[Consumer] = pc[Consumer]
            BY <1>0, <3>1 DEF TypeOK
        <3>5. HeadsOrdered'
            BY <1>0, <1>6, <2>1, <3>3, <3>4 DEF AdvanceWriteHead, TypeOK, HeadsOrdered
        <3> QED BY <1>0, <1>6, <3>1, <3>5 DEF AdvanceWriteHead, TypeOK, Roles, RoomSeen
    <2>3. LocksTaken'
        BY <1>0, <1>6, SlotInRange DEF AdvanceWriteHead, TypeOK, Roles, LocksTaken, Holds
    <2>4. ItemsApart' /\ NothingLost'
        <3>1. \A q \in Producers : Stored(q)' = Stored(q)
            BY <1>0, <1>6 DEF AdvanceWriteHead, TypeOK, Roles, Stored
        <3> QED BY <1>0, <1>6, <3>1, ItemsStay DEF AdvanceWriteHead
    <2>5. FifoUnlessStale'
        <3> SUFFICES ASSUME ~stale' PROVE FullInWindow' /\ PromisedInWindow' /\ InOrder'
            BY DEF FifoUnlessStale
        <3>1. /\ ~stale /\ index[p] = write_head /\ index' = index /\ write_head' = write_head + 1
              /\ read_head' = read_head /\ cell' = cell /\ output' = output
              /\ pc' = [pc EXCEPT ![p] = "store"] /\ cell[Slot(write_head)] = Empty
            BY <1>6 DEF AdvanceWriteHead
        <3>2. FullInWindow /\ PromisedInWindow /\ InOrder
            BY <1>0, <3>1 DEF FifoUnlessStale
        <3>3. Window' = Window \cup {write_head} /\ write_head \in Nat /\ read_head \in Nat
            BY <1>0, <3>1 DEF TypeOK, HeadsOrdered, Window
        <3>4. /\ pc'[p] = "store" /\ \A q \in Procs \ {p} : pc'[q] = pc[q]
              /\ pc'[Consumer] = pc[Consumer]
            BY <1>0, <3>1 DEF TypeOK
        <3>5. FullInWindow'
            BY <3>1, <3>2, <3>3, <3>4 DEF FullInWindow, Slot
        <3>6. PromisedInWindow'
            <4>1. pc[Consumer] = "advance" => write_head # read_head
                BY <1>0 DEF HeadsOrdered, TypeOK
            <4> QED BY <3>1, <3>2, <3>3, <3>4, <4>1 DEF PromisedInWindow
        <3>7. \A i \in Window' : cell[Slot(i)] # Empty => i \in Window
            BY <3>1, <3>3
        <3>8. \A i \in Window : i < write_head
            BY <3>3 DEF Window
        <3>9. InOrder'
            BY <3>1, <3>2, <3>4, <3>7, <3>8 DEF InOrder, Slot
        <3> QED BY <3>5, <3>6, <3>9
    <2> QED BY <2>2, <2>3, <2>4, <2>5 DEF IInv
<1>7. ASSUME NEW p \in Producers, StoreItem(p) PROVE IInv'
    <2>1. TypeOK'
        BY <1>0, <1>7, SlotInRange DEF StoreItem, TypeOK, Roles, Items, ItemOf
    <2>2. HeadsOrdered' /\ Roles' /\ RoomSeen'
        BY <1>0, <1>7, <2>1 DEF StoreItem, TypeOK, HeadsOrdered, Roles, RoomSeen
    <2>3. LocksTaken'
        BY <1>0, <1>7, SlotInRange DEF StoreItem, TypeOK, Roles, LocksTaken, Holds
    <2>4. ItemsApart' /\ NothingLost'
        <3>1. /\ Slot(index[p]) \in Slots /\ cell[Slot(index[p])] = Empty
              /\ cell' = [cell EXCEPT ![Slot(index[p])] = ItemOf(p)]
              /\ output' = output /\ received' = received /\ sent' = sent
            BY <1>0, <1>7, SlotInRange DEF StoreItem, TypeOK, LocksTaken
        <3>2. /\ Stored(p) = sent[p] /\ Stored(p)' = sent[p] + 1
              /\ \A q \in Producers : q # p => Stored(q)' = Stored(q)
            BY <1>0, <1>7 DEF StoreItem, TypeOK, Stored
        <3>3. /\ ItemOf(p) \in Items /\ ItemOf(p) = <<p, sent[p] + 1>>
              /\ sent[p] \in Nat
            BY <1>0 DEF TypeOK, ItemOf, Items
        <3>4. ASSUME NEW item \in Items, item[2] <= Stored(item[1])
              PROVE  item # ItemOf(p) /\ item[2] <= Stored(item[1])'
            <4>1. item[1] \in Producers /\ item[2] \in Nat
                BY DEF Items
            <4>2. CASE item[1] = p
                BY <3>2, <3>3, <3>4, <4>1, <4>2
            <4>3. CASE item[1] # p
                BY <3>2, <3>3, <3>4, <4>1, <4>3
            <4> QED BY <4>2, <4>3
        <3>5. \A s \in Slots : /\ s # Slot(index[p]) => cell'[s] = cell[s]
                               /\ s = Slot(index[p]) => cell'[s] = ItemOf(p)
            BY <1>0, <3>1 DEF TypeOK
        <3>6. \A s \in Slots : cell[s] # Empty => cell[s] \in Items /\ cell[s][2] <= Stored(cell[s][1])
            BY <1>0 DEF TypeOK, ItemsApart
        <3>7. \A s \in Slots : cell[s] # Empty =>
                  /\ cell[s] # ItemOf(p) /\ cell[s][1] \in Producers
                  /\ \A q \in Producers : cell[s][1] = q => cell[s][2] <= Stored(q)'
            <4> SUFFICES ASSUME NEW s \in Slots, cell[s] # Empty
                         PROVE  /\ cell[s] # ItemOf(p) /\ cell[s][1] \in Producers
                                /\ \A q \in Producers : cell[s][1] = q => cell[s][2] <= Stored(q)'
                OBVIOUS
            <4>1. PICK item \in Items : item = cell[s]
                BY <3>6
            <4>2. item[2] <= Stored(item[1]) /\ item[1] \in Producers
                BY <3>6, <4>1 DEF Items
            <4>3. item # ItemOf(p) /\ item[2] <= Stored(item[1])'
                BY <3>4, <4>2
            <4> QED BY <4>1, <4>2, <4>3
        <3>8. ItemsApart'
            <4>1. \A s, t \in Slots : cell'[s] = cell'[t] /\ cell'[s] # Empty => s = t
                BY <1>0, <3>5, <3>7 DEF ItemsApart
            <4>2. ItemOf(p)[1] = p /\ ItemOf(p)[2] <= Stored(p)'
                BY <3>2, <3>3
            <4>3. \A s \in Slots : cell'[s] # Empty => (cell[s][2] <= Stored(cell[s][1]))'
                <5> SUFFICES ASSUME NEW s \in Slots, cell'[s] # Empty
                             PROVE  (cell[s][2] <= Stored(cell[s][1]))'
                    OBVIOUS
                <5>1. CASE s = Slot(index[p])
                    <6>1. cell'[s] = ItemOf(p)
                        BY <3>5, <5>1
                    <6> QED BY <4>2, <6>1
                <5>2. CASE s # Slot(index[p])
                    <6>1. cell'[s] = cell[s] /\ cell[s] # Empty
                        BY <3>5, <5>2
                    <6>2. PICK q \in Producers : q = cell[s][1]
                        BY <3>7, <6>1
                    <6> QED BY <3>7, <6>1, <6>2
                <5> QED BY <5>1, <5>2
            <4>4. (output # Empty => output[2] <= Stored(output[1]))'
                <5> SUFFICES ASSUME output # Empty PROVE (output[2] <= Stored(output[1]))'
                    BY <3>1
                <5>1. PICK item \in Items : item = output
                    BY <1>0 DEF TypeOK
                <5>2. item[2] <= Stored(item[1])
                    BY <1>0, <5>1 DEF ItemsApart
                <5>3. item[2] <= Stored(item[1])'
                    BY <3>4, <5>2
                <5> QED BY <3>1, <5>1, <5>3
            <4> QED BY <4>1, <4>3, <4>4 DEF ItemsApart
        <3>9. NothingLost'
            <4> SUFFICES ASSUME NEW q \in Producers, NEW n \in 1 .. Stored(q)'
                         PROVE  Somewhere(<<q, n>>)'
                BY DEF NothingLost
            <4>1. CASE <<q, n>> = ItemOf(p)
                <5>1. cell'[Slot(index[p])] = <<q, n>>
                    BY <3>1, <3>5, <4>1
                <5> QED BY <3>1, <5>1 DEF Somewhere
            <4>2. CASE <<q, n>> # ItemOf(p)
                <5>1. n \in 1 .. Stored(q)
                    BY <3>2, <3>3, <4>2
                <5>2. Somewhere(<<q, n>>)
                    BY <1>0, <5>1 DEF NothingLost
                <5>3. <<q, n>> # Empty
                    BY <5>1 DEF Items
                <5> QED BY <3>1, <3>5, <5>2, <5>3 DEF Somewhere
            <4> QED BY <4>1, <4>2
        <3> QED BY <3>8, <3>9
    <2>5. FifoUnlessStale'
        <3> SUFFICES ASSUME ~stale PROVE FullInWindow' /\ PromisedInWindow' /\ InOrder'
            BY <1>7 DEF StoreItem, FifoUnlessStale
        <3>1. /\ pc[p] = "store" /\ pc' = [pc EXCEPT ![p] = "unlock"]
              /\ cell' = [cell EXCEPT ![Slot(index[p])] = ItemOf(p)]
              /\ UNCHANGED <<write_head, read_head, index, output>>
            BY <1>7 DEF StoreItem
        <3>2. FullInWindow /\ PromisedInWindow /\ InOrder
            BY <1>0 DEF FifoUnlessStale
        <3>3. /\ index[p] \in Window /\ Window' = Window /\ index[p] \in Nat
              /\ Slot(index[p]) \in Slots
            BY <1>0, <3>1, <3>2, SlotInRange DEF PromisedInWindow, Window, TypeOK
        <3>4. \A i \in Window : i \in Nat /\ Slot(i) \in Slots
            BY <1>0, SlotInRange DEF Window, TypeOK
        <3>5. \A i, j \in Window : i # j => Slot(i) # Slot(j)
            <4>1. \A i, j \in Window : i < j => j < i + Size
                BY <1>0 DEF Window, TypeOK, HeadsOrdered
            <4>2. \A i, j \in Window : i < j => Slot(i) # Slot(j)
                BY <3>4, <4>1, SlotsDiffer
            <4> QED BY <3>4, <4>2
        <3>6. \A s \in Slots : /\ s # Slot(index[p]) => cell'[s] = cell[s]
                               /\ s = Slot(index[p]) => cell'[s] = ItemOf(p)
            BY <1>0, <3>1 DEF TypeOK
        <3>7. /\ pc'[p] = "unlock" /\ pc'[Consumer] = pc[Consumer]
              /\ \A q \in Producers : q # p => pc'[q] = pc[q]
            BY <1>0, <3>1 DEF TypeOK
        <3>8. FullInWindow'
            <4>1. pc'[Consumer] = "advance" => cell'[Slot(read_head)] = Empty
                <5> SUFFICES ASSUME pc[Consumer] = "advance" PROVE cell'[Slot(read_head)] = Empty
                    BY <3>7
                <5>1. read_head \in Window /\ index[p] # read_head /\ cell[Slot(read_head)] = Empty
                    BY <1>0, <3>1, <3>2 DEF Window, TypeOK, HeadsOrdered, PromisedInWindow, FullInWindow
                <5>2. Slot(read_head) # Slot(index[p])
                    BY <3>3, <3>5, <5>1
                <5> QED BY <3>4, <3>6, <5>1, <5>2
            <4>2. \A s \in Slots : cell'[s] # Empty => \E i \in Window : Slot(i) = s
                BY <3>2, <3>3, <3>6 DEF FullInWindow
            <4> QED BY <3>1, <3>3, <4>1, <4>2 DEF FullInWindow, Slot
        <3>9. PromisedInWindow'
            BY <3>1, <3>2, <3>3, <3>7 DEF PromisedInWindow
        <3>10. ItemOf(p) = <<p, sent[p] + 1>> /\ sent[p] \in Nat /\ Stored(p) = sent[p]
            BY <1>0, <3>1 DEF TypeOK, ItemOf, Stored
        <3>11. \A s \in Slots : cell[s] # Empty =>
                   cell[s][2] \in Nat /\ (cell[s][1] = p => cell[s][2] < sent[p] + 1)
            BY <1>0, <3>10 DEF TypeOK, ItemsApart, Items
        <3>12. \A i \in Window : /\ i # index[p] => cell'[Slot(i)] = cell[Slot(i)]
                                 /\ i = index[p] => cell'[Slot(i)] = ItemOf(p)
            BY <3>3, <3>4, <3>5, <3>6
        <3>13. ASSUME NEW i \in Window, NEW j \in Window, i < j,
                      cell'[Slot(i)] # Empty, cell'[Slot(j)] # Empty, cell'[Slot(i)][1] = cell'[Slot(j)][1]
               PROVE  cell'[Slot(i)][2] < cell'[Slot(j)][2]
            <4>1. CASE i # index[p] /\ j # index[p]
                BY <3>2, <3>12, <3>13, <4>1 DEF InOrder
            <4>2. CASE j = index[p]
                <5>1. i # index[p] /\ cell'[Slot(i)] = cell[Slot(i)] /\ cell'[Slot(j)] = ItemOf(p)
                    BY <3>4, <3>12, <3>13, <4>2
                <5> QED BY <3>4, <3>10, <3>11, <3>13, <5>1
            <4>3. CASE i = index[p]
                <5>1. j # index[p] /\ cell'[Slot(j)] = cell[Slot(j)] /\ cell'[Slot(i)] = ItemOf(p)
                    BY <3>4, <3>12, <3>13, <4>3
                <5>2. j < index[p]
                    BY <3>1, <3>2, <3>10, <3>13, <5>1 DEF InOrder
                <5> QED BY <3>3, <3>4, <3>13, <4>3, <5>2
            <4> QED BY <4>1, <4>2, <4>3
        <3>14. ASSUME NEW q \in Producers, pc'[q] = "store", NEW i \in Window,
                      cell'[Slot(i)] # Empty, cell'[Slot(i)][1] = q
               PROVE  i < index[q]
            <4>1. q # p /\ pc[q] = "store"
                BY <3>7, <3>14
            <4>2. i # index[p]
                BY <3>10, <3>12, <3>14, <4>1
            <4> QED BY <3>2, <3>12, <3>14, <4>1, <4>2 DEF InOrder
        <3>15. ASSUME output # Empty, NEW s \in Slots, cell'[s] # Empty, cell'[s][1] = output[1]
               PROVE  output[2] < cell'[s][2]
            <4>1. CASE s # Slot(index[p])
                BY <3>2, <3>6, <3>15, <4>1 DEF InOrder
            <4>2. CASE s = Slot(index[p])
                <5>1. output[1] = p /\ cell'[s][2] = sent[p] + 1
                    BY <3>6, <3>10, <3>15, <4>2
                <5>2. output \in Items /\ output[2] <= Stored(output[1])
                    BY <1>0, <3>15 DEF TypeOK, ItemsApart
                <5> QED BY <3>10, <5>1, <5>2 DEF Items
            <4> QED BY <4>1, <4>2
        <3>16. InOrder'
            BY <3>1, <3>3, <3>13, <3>14, <3>15 DEF InOrder, Slot
        <3> QED BY <3>8, <3>9, <3>16
    <2> QED BY <2>2, <2>3, <2>4, <2>5 DEF IInv
<1>8. ASSUME NEW p \in Producers, UnlockCell(p) PROVE IInv'
    <2>1. TypeOK'
        BY <1>0, <1>8, SlotInRange DEF UnlockCell, TypeOK, Roles, Items, ItemOf
    <2>2. HeadsOrdered' /\ Roles' /\ RoomSeen'
        BY <1>0, <1>8, <2>1 DEF UnlockCell, TypeOK, HeadsOrdered, Roles, RoomSeen
    <2>3. LocksTaken'
        BY <1>0, <1>8, SlotInRange DEF UnlockCell, TypeOK, Roles, LocksTaken, Holds
    <2>4. ItemsApart' /\ NothingLost'
        <3>1. \A q \in Producers : Stored(q)' = Stored(q)
            BY <1>0, <1>8 DEF UnlockCell, TypeOK, Roles, Stored
        <3> QED BY <1>0, <1>8, <3>1, ItemsStay DEF UnlockCell
    <2>5. FifoUnlessStale'
        BY <1>0, <1>8 DEF UnlockCell, TypeOK, Roles, FifoUnlessStale, FullInWindow, PromisedInWindow, InOrder, Window
    <2> QED BY <2>2, <2>3, <2>4, <2>5 DEF IInv
<1>9. ASSUME NEW p \in Producers, Die(p) PROVE IInv'
    <2>1. TypeOK'
        BY <1>0, <1>9, SlotInRange DEF Die, TypeOK, Roles, Items, ItemOf
    <2>2. HeadsOrdered' /\ Roles' /\ RoomSeen'
        BY <1>0, <1>9, <2>1 DEF Die, TypeOK, HeadsOrdered, Roles, RoomSeen
    <2>3. LocksTaken'
        BY <1>0, <1>9, SlotInRange DEF Die, TypeOK, Roles, LocksTaken, Holds
    <2>4. ItemsApart' /\ NothingLost'
        <3>1. \A q \in Producers : Stored(q)' = Stored(q)
            BY <1>0, <1>9 DEF Die, TypeOK, Roles, Stored
        <3> QED BY <1>0, <1>9, <3>1, ItemsStay DEF Die
    <2>5. FifoUnlessStale'
        BY <1>0, <1>9 DEF Die, TypeOK, Roles, FifoUnlessStale, FullInWindow, PromisedInWindow, InOrder, Window
    <2> QED BY <2>2, <2>3, <2>4, <2>5 DEF IInv
<1>10. CASE LoadReadHead
    <2>1. TypeOK'
        BY <1>0, <1>10, SlotInRange DEF LoadReadHead, TypeOK, Roles, Items, ItemOf
    <2>2. HeadsOrdered' /\ Roles' /\ RoomSeen'
        BY <1>0, <1>10, <2>1 DEF LoadReadHead, TypeOK, HeadsOrdered, Roles, RoomSeen
    <2>3. LocksTaken'
        BY <1>0, <1>10, SlotInRange DEF LoadReadHead, TypeOK, Roles, LocksTaken, Holds
    <2>4. ItemsApart' /\ NothingLost'
        <3>1. \A q \in Producers : Stored(q)' = Stored(q)
            BY <1>0, <1>10 DEF LoadReadHead, TypeOK, Roles, Stored
        <3> QED BY <1>0, <1>10, <3>1, ItemsStay DEF LoadReadHead
    <2>5. FifoUnlessStale'
        BY <1>0, <1>10 DEF LoadReadHead, TypeOK, Roles, FifoUnlessStale, FullInWindow, PromisedInWindow, InOrder, Window
    <2> QED BY <2>2, <2>3, <2>4, <2>5 DEF IInv
<1>11. CASE ReportEmpty
    <2>1. TypeOK'
        BY <1>0, <1>11, SlotInRange DEF ReportEmpty, TypeOK, Roles, Items, ItemOf
    <2>2. HeadsOrdered' /\ Roles' /\ RoomSeen'
        BY <1>0, <1>11, <2>1 DEF ReportEmpty, TypeOK, HeadsOrdered, Roles, RoomSeen
    <2>3. LocksTaken'
        BY <1>0, <1>11, SlotInRange DEF ReportEmpty, TypeOK, Roles, LocksTaken, Holds
    <2>4. ItemsApart' /\ NothingLost'
        <3>1. \A q \in Producers : Stored(q)' = Stored(q)
            BY <1>0, <1>11 DEF ReportEmpty, TypeOK, Roles, Stored
        <3> QED BY <1>0, <1>11, <3>1, ItemsStay DEF ReportEmpty
    <2>5. FifoUnlessStale'
        BY <1>0, <1>11 DEF ReportEmpty, TypeOK, Roles, FifoUnlessStale, FullInWindow, PromisedInWindow, InOrder, Window
    <2> QED BY <2>2, <2>3, <2>4, <2>5 DEF IInv
<1>12. CASE SeeItem
    <2>1. TypeOK'
        BY <1>0, <1>12, SlotInRange DEF SeeItem, TypeOK, Roles, Items, ItemOf
    <2>2. HeadsOrdered' /\ Roles' /\ RoomSeen'
        BY <1>0, <1>12, <2>1 DEF SeeItem, TypeOK, HeadsOrdered, Roles, RoomSeen
    <2>3. LocksTaken'
        BY <1>0, <1>12, SlotInRange DEF SeeItem, TypeOK, Roles, LocksTaken, Holds
    <2>4. ItemsApart' /\ NothingLost'
        <3>1. \A q \in Producers : Stored(q)' = Stored(q)
            BY <1>0, <1>12 DEF SeeItem, TypeOK, Roles, Stored
        <3> QED BY <1>0, <1>12, <3>1, ItemsStay DEF SeeItem
    <2>5. FifoUnlessStale'
        BY <1>0, <1>12 DEF SeeItem, TypeOK, Roles, FifoUnlessStale, FullInWindow, PromisedInWindow, InOrder, Window
    <2> QED BY <2>2, <2>3, <2>4, <2>5 DEF IInv
<1>13. CASE LockCell(Consumer)
    <2>1. TypeOK'
        BY <1>0, <1>13, SlotInRange DEF LockCell, TypeOK, Roles, Items, ItemOf
    <2>2. HeadsOrdered' /\ Roles' /\ RoomSeen'
        BY <1>0, <1>13, <2>1 DEF LockCell, TypeOK, HeadsOrdered, Roles, RoomSeen
    <2>3. LocksTaken'
        BY <1>0, <1>13, SlotInRange DEF LockCell, TypeOK, Roles, LocksTaken, Holds
    <2>4. ItemsApart' /\ NothingLost'
        <3>1. \A q \in Producers : Stored(q)' = Stored(q)
            BY <1>0, <1>13 DEF LockCell, TypeOK, Roles, Stored
        <3> QED BY <1>0, <1>13, <3>1, ItemsStay DEF LockCell
    <2>5. FifoUnlessStale'
        BY <1>0, <1>13 DEF LockCell, TypeOK, Roles, FifoUnlessStale, FullInWindow, PromisedInWindow, InOrder, Window
    <2> QED BY <2>2, <2>3, <2>4, <2>5 DEF IInv
<1>14. CASE TakeFromCell
    <2>1. TypeOK'
        BY <1>0, <1>14, SlotInRange DEF TakeFromCell, TypeOK, Roles, Items, ItemOf
    <2>2. HeadsOrdered' /\ Roles' /\ RoomSeen'
        BY <1>0, <1>14, <2>1 DEF TakeFromCell, TypeOK, HeadsOrdered, Roles, RoomSeen
    <2>3. LocksTaken'
        BY <1>0, <1>14, SlotInRange DEF TakeFromCell, TypeOK, Roles, LocksTaken, Holds
    <2>4. ItemsApart' /\ NothingLost'
        <3> DEFINE s == Slot(index[Consumer])
        <3>1. /\ s \in Slots /\ cell' = [cell EXCEPT ![s] = Empty] /\ output' = cell[s]
              /\ output = Empty /\ received' = received
              /\ \A p \in Producers : Stored(p)' = Stored(p)
            BY <1>0, <1>14, SlotInRange DEF TakeFromCell, TypeOK, Roles, Stored
        <3> HIDE DEF s
        <3>2. \A t \in Slots : /\ t # s => cell'[t] = cell[t]
                               /\ t = s => cell'[t] = Empty
            BY <1>0, <3>1 DEF TypeOK
        <3>3. \A t \in Slots : cell[t] # Empty => cell[t][1] \in Producers
            BY <1>0 DEF TypeOK, Items
        <3>4. ItemsApart'
            <4>1. \A t, u \in Slots : cell'[t] = cell'[u] /\ cell'[t] # Empty => t = u
                BY <1>0, <3>2 DEF ItemsApart
            <4>2. ASSUME NEW t \in Slots, cell[t] # Empty
                  PROVE  \E q \in Producers : cell[t][1] = q /\ cell[t][2] <= Stored(q)'
                BY <1>0, <3>1, <3>3, <4>2 DEF ItemsApart
            <4>3. ASSUME NEW t \in Slots, cell'[t] # Empty
                  PROVE  (cell[t][2] <= Stored(cell[t][1]))'
                <5>1. cell'[t] = cell[t]
                    BY <3>2, <4>3
                <5> QED BY <4>2, <4>3, <5>1
            <4>4. (output # Empty => output[2] <= Stored(output[1]))'
                <5> SUFFICES ASSUME output' # Empty PROVE (output[2] <= Stored(output[1]))'
                    OBVIOUS
                <5>1. PICK q \in Producers : cell[s][1] = q /\ cell[s][2] <= Stored(q)'
                    BY <3>1, <4>2
                <5> QED BY <3>1, <5>1
            <4> QED BY <4>1, <4>3, <4>4 DEF ItemsApart
        <3>5. NothingLost'
            <4> SUFFICES ASSUME NEW q \in Producers, NEW n \in 1 .. Stored(q)
                         PROVE  Somewhere(<<q, n>>)'
                BY <3>1 DEF NothingLost
            <4>1. Somewhere(<<q, n>>) /\ <<q, n>> # Empty
                <5>1. n \in Nat \ {0}
                    BY <1>0 DEF TypeOK, Stored
                <5> QED BY <1>0, <5>1 DEF NothingLost
            <4> QED BY <3>1, <3>2, <4>1 DEF Somewhere
        <3> QED BY <3>4, <3>5
    <2>5. FifoUnlessStale'
        <3> SUFFICES ASSUME ~stale PROVE FullInWindow' /\ PromisedInWindow' /\ InOrder'
            BY <1>14 DEF TakeFromCell, FifoUnlessStale
        <3>1. /\ pc[Consumer] = "locked" /\ pc' = [pc EXCEPT ![Consumer] = "advance"]
              /\ index[Consumer] = read_head /\ UNCHANGED <<write_head, read_head, index>>
              /\ output' = cell[Slot(read_head)]
              /\ cell' = [cell EXCEPT ![Slot(read_head)] = Empty]
            BY <1>0, <1>14 DEF TakeFromCell, Roles
        <3>2. FullInWindow /\ PromisedInWindow /\ InOrder
            BY <1>0 DEF FifoUnlessStale
        <3>3. read_head \in Window /\ Window' = Window /\ Slot(read_head) \in Slots
            BY <1>0, <3>1, SlotInRange DEF Window, TypeOK, HeadsOrdered
        <3>4. \A i \in Window : i \in Nat /\ Slot(i) \in Slots /\ (i # read_head => read_head < i)
            BY <1>0, SlotInRange DEF Window, TypeOK
        <3>5. \A s \in Slots : /\ s # Slot(read_head) => cell'[s] = cell[s]
                               /\ s = Slot(read_head) => cell'[s] = Empty
            BY <1>0, <3>1 DEF TypeOK
        <3>6. pc'[Consumer] = "advance" /\ \A q \in Producers : pc'[q] = pc[q]
            BY <1>0, <3>1 DEF TypeOK
        <3>7. FullInWindow'
            BY <3>1, <3>2, <3>3, <3>5, <3>6 DEF FullInWindow, Slot
        <3>8. PromisedInWindow'
            <4>1. ASSUME NEW p \in Producers, pc[p] \in {"store", "unlock"} PROVE index[p] # read_head
                <5>1. Holds(p) /\ Holds(Consumer) /\ p # Consumer
                    BY <3>1, <4>1 DEF Holds
                <5> QED BY <1>0, <3>1, <5>1 DEF LocksTaken
            <4> QED BY <3>1, <3>2, <3>3, <3>6, <4>1 DEF PromisedInWindow
        <3>9. ASSUME cell[Slot(read_head)] # Empty, NEW s \in Slots, cell'[s] # Empty,
                     cell'[s][1] = cell[Slot(read_head)][1]
              PROVE  cell[Slot(read_head)][2] < cell'[s][2]
            <4>1. s # Slot(read_head) /\ cell'[s] = cell[s]
                BY <3>5, <3>9
            <4>2. PICK i \in Window : Slot(i) = s
                BY <3>2, <3>9, <4>1 DEF FullInWindow
            <4>3. read_head < i
                BY <3>4, <4>1, <4>2
            <4> QED BY <3>2, <3>3, <3>9, <4>1, <4>2, <4>3 DEF InOrder
        <3>10. InOrder'
            BY <3>1, <3>2, <3>3, <3>4, <3>5, <3>6, <3>9 DEF InOrder, Slot
        <3> QED BY <3>7, <3>8, <3>10
    <2> QED BY <2>2, <2>3, <2>4, <2>5 DEF IInv
<1>15. CASE AdvanceReadHead
    <2>1. TypeOK'
        BY <1>0, <1>15, SlotInRange DEF AdvanceReadHead, TypeOK, Roles, Items, ItemOf
    <2>2. HeadsOrdered' /\ Roles' /\ RoomSeen'
        BY <1>0, <1>15, <2>1 DEF AdvanceReadHead, TypeOK, HeadsOrdered, Roles, RoomSeen
    <2>3. LocksTaken'
        BY <1>0, <1>15, SlotInRange DEF AdvanceReadHead, TypeOK, Roles, LocksTaken, Holds
    <2>4. ItemsApart' /\ NothingLost'
        <3>1. /\ cell' = cell /\ output' = Empty /\ received' = received \cup ({output} \ {Empty})
              /\ \A p \in Producers : Stored(p)' = Stored(p)
            BY <1>0, <1>15 DEF AdvanceReadHead, TypeOK, Stored
        <3>2. \A t \in Slots : cell[t] # Empty => cell[t][1] \in Producers
            BY <1>0 DEF TypeOK, Items
        <3>3. ItemsApart'
            BY <1>0, <3>1, <3>2 DEF ItemsApart
        <3>4. NothingLost'
            <4> SUFFICES ASSUME NEW q \in Producers, NEW n \in 1 .. Stored(q)
                         PROVE  Somewhere(<<q, n>>)'
                BY <3>1 DEF NothingLost
            <4>1. Somewhere(<<q, n>>) /\ <<q, n>> # Empty
                <5>1. n \in Nat \ {0}
                    BY <1>0 DEF TypeOK, Stored
                <5> QED BY <1>0, <5>1 DEF NothingLost
            <4> QED BY <3>1, <4>1 DEF Somewhere
        <3> QED BY <3>3, <3>4
    <2>5. FifoUnlessStale'
        BY <1>0, <1>15 DEF AdvanceReadHead, TypeOK, Roles, FifoUnlessStale, FullInWindow, PromisedInWindow, InOrder, Window
    <2> QED BY <2>2, <2>3, <2>4, <2>5 DEF IInv
<1>16. CASE UNCHANGED vars
    <2>1. /\ write_head' = write_head /\ read_head' = read_head /\ cell' = cell /\ locked' = locked
          /\ pc' = pc /\ index' = index /\ output' = output /\ sent' = sent /\ received' = received
          /\ stale' = stale /\ dead' = dead
        BY <1>16 DEF vars
    <2>2. HeadsOrdered' /\ Roles' /\ LocksTaken' /\ RoomSeen'
        <3>1. TypeOK'
            BY <1>0, <2>1 DEF TypeOK
        <3> QED BY <1>0, <2>1, <3>1 DEF HeadsOrdered, Roles, LocksTaken, Holds, RoomSeen, Slot
    <2>3. ItemsApart' /\ NothingLost'
        BY <1>0, <2>1 DEF ItemsApart, NothingLost, Somewhere, Stored
    <2>4. FifoUnlessStale'
        BY <1>0, <2>1 DEF FifoUnlessStale, FullInWindow, PromisedInWindow, InOrder, Window, Slot
    <2> QED BY <2>2, <2>3, <2>4 DEF IInv
<1> QED BY <1>1, <1>2, <1>3, <1>4, <1>5, <1>6, <1>7, <1>8, <1>9, <1>10, <1>11, <1>12, <1>13, <1>14, <1>15, <1>16 DEF Next, Write, Read

(* The inductive invariant holds in every reachable state, for every set   *)
(* of producers, every capacity and any number of deaths.                  *)
THEOREM Invariance == Spec => []IInv
<1>1. Init => IInv
    BY InitIInv
<1>2. IInv /\ [Next]_vars => IInv'
    BY StepIInv
<1> QED BY <1>1, <1>2, PTL DEF Spec

(* The consumer never passes an index before an item was promised there,   *)
(* and until an index is used twice the producers stay within Size of it,  *)
(* although they decide on a read_head that may be out of date.            *)
THEOREM HeadsStayOrdered == Spec => []HeadsOrdered
<1>1. IInv => HeadsOrdered
    BY DEF IInv
<1> QED BY <1>1, Invariance, PTL

(* Until an index is used twice, read() returns the items of each producer *)
(* in the order they were written.                                         *)
THEOREM InOrderDelivery == Spec => InOrderUnlessStale
<1> USE OptBoundAssumption, OptConsumerAssumption, OptValueAssumption
<1> DEFINE Ordered == \A p \in Producers, n \in 1 .. MaxWrites :
                          <<p, n>> \in received' \ received /\ ~stale
                              => \A m \in 1 .. n - 1 : <<p, m>> \in received
<1>1. IInv /\ [Next]_vars => [Ordered]_vars
    <2> SUFFICES ASSUME IInv, Next,
                        NEW p \in Producers, NEW n \in 1 .. MaxWrites, NEW m \in 1 .. n - 1,
                        <<p, n>> \in received' \ received, ~stale
                 PROVE  <<p, m>> \in received
        OBVIOUS
    <2>1. CASE AdvanceReadHead
        <3>1. output = <<p, n>> /\ output # Empty
            BY <2>1 DEF AdvanceReadHead
        <3>2. n <= Stored(p) /\ m <= Stored(p) /\ <<p, m>> # output
            <4>1. output[1] = p /\ output[2] = n /\ output[2] <= Stored(output[1])
                BY <3>1 DEF IInv, ItemsApart
            <4>2. Stored(p) \in Nat
                BY DEF IInv, HeadsOrdered, TypeOK, Stored
            <4> QED BY <3>1, <4>1, <4>2
        <3>3. Somewhere(<<p, m>>)
            <4>1. Stored(p) \in Nat
                BY DEF IInv, HeadsOrdered, TypeOK, Stored
            <4> QED BY <3>2, <4>1 DEF IInv, NothingLost
        <3>4. \A s \in Slots : cell[s] # <<p, m>>
            <4> SUFFICES ASSUME NEW s \in Slots, cell[s] = <<p, m>> PROVE FALSE
                OBVIOUS
            <4>1. cell[s] # Empty /\ cell[s][1] = output[1]
                BY <3>1
            <4>2. InOrder
                BY DEF IInv, FifoUnlessStale
            <4>3. output[2] < cell[s][2]
                BY <3>1, <4>1, <4>2 DEF InOrder
            <4> QED BY <3>1, <4>3
        <3> QED BY <3>2, <3>3, <3>4 DEF Somewhere
    <2>2. CASE received' = received
        BY <2>2
    <2>3. ASSUME NEW q \in Producers, Write(q) \/ Die(q) PROVE received' = received
        BY <2>3 DEF Write, Die, LoadWriteHead, ReportFull, SeeRoom, LockCell, LeaveOccupiedCell,
                    AdvanceWriteHead, StoreItem, UnlockCell, calls
    <2>4. Read => AdvanceReadHead \/ received' = received
        BY DEF Read, LoadReadHead, ReportEmpty, SeeItem, LockCell, TakeFromCell, calls
    <2> QED BY <2>1, <2>2, <2>3, <2>4 DEF Next
<1> QED BY <1>1, Invariance, PTL DEF Spec, InOrderUnlessStale

-----------------------------------------------------------------------------
(* The mapped pool *)

(* While a cell is empty the pool has room for another item.               *)
LEMMA PoolHasRoom ==
    ASSUME TypeOK, NEW e \in Slots, cell[e] = Empty
    PROVE  Cardinality(InPool) < Size
<1> DEFINE full == {s \in Slots : cell[s] # Empty}
           content == [s \in full |-> cell[s]]
<1>1. IsFiniteSet(Slots) /\ Cardinality(Slots) = Size
    BY FS_Interval, OptSizeAssumption DEF Slots
<1>2. IsFiniteSet(Slots \ {e}) /\ Cardinality(Slots \ {e}) = Size - 1
    BY <1>1, FS_RemoveElement
<1>3. full \in SUBSET (Slots \ {e})
    OBVIOUS
<1>4. IsFiniteSet(full) /\ Cardinality(full) <= Size - 1
    BY <1>2, <1>3, FS_Subset
<1>5. content \in Surjection(full, InPool)
    BY DEF Surjection, InPool
<1> HIDE DEF full, content
<1>6. IsFiniteSet(InPool) /\ Cardinality(InPool) <= Cardinality(full)
    BY <1>4, <1>5, FS_Surjection
<1>7. Cardinality(InPool) \in Nat /\ Cardinality(full) \in Nat
    BY <1>4, <1>6, FS_CardinalityType
<1> QED BY <1>4, <1>6, <1>7, OptSizeAssumption

(* Clearing a cell takes its item, and no other, out of the pool.          *)
LEMMA ClearCell ==
    ASSUME TypeOK, ItemsApart, NEW s \in Slots, cell' = [cell EXCEPT ![s] = Empty]
    PROVE  InPool' = InPool \ {cell[s]}
<1>1. \A t \in Slots : cell'[t] = IF t = s THEN Empty ELSE cell[t]
    BY DEF TypeOK
<1> QED BY <1>1 DEF InPool, TypeOK, ItemsApart

(* Refinement: every step of the ring is a step of the unordered pool or   *)
(* leaves it alone, even after an index was used twice.  The store into    *)
(* the locked cell is the moment an item enters, and there is room because *)
(* that cell is still empty; the item leaves when the reader guard clears  *)
(* its cell.                                                               *)
THEOREM Refinement == Spec => RefinesPool
<1> USE OptSizeAssumption, OptBoundAssumption, OptConsumerAssumption, OptValueAssumption
<1>1. Init => Pool!Init
    BY DEF Init, Pool!Init, Procs, InPool, Stored
<1>2. IInv /\ [Next]_vars => [Pool!Next]_(Pool!vars)
    <2> SUFFICES ASSUME IInv, [Next]_vars PROVE [Pool!Next]_(Pool!vars)
        OBVIOUS
    <2> USE DEF Step, Load, Procs, heads, cells, calls
    <2>0. TypeOK /\ Roles /\ LocksTaken /\ ItemsApart
        BY DEF IInv, HeadsOrdered
    <2> DEFINE accepted == [p \in Producers |-> Stored(p)]
               handed == received \cup ({output} \ {Empty})
    <2>1. ASSUME cell' = cell, accepted' = accepted, handed' = handed
          PROVE  UNCHANGED Pool!vars
        BY <2>1 DEF Pool!vars, InPool
    <2>2. ASSUME NEW p \in Producers, StoreItem(p) PROVE Pool!Put(p)
        <3>1. Slot(index[p]) \in Slots /\ cell[Slot(index[p])] = Empty
            BY <2>0, <2>2, SlotInRange DEF StoreItem, TypeOK, LocksTaken
        <3>2. Cardinality(InPool) < Size
            BY <2>0, <3>1, PoolHasRoom
        <3>3. accepted' = [accepted EXCEPT ![p] = @ + 1] /\ accepted[p] = sent[p]
            <4>1. /\ Stored(p) = sent[p] /\ Stored(p)' = sent[p] + 1
                  /\ \A q \in Producers : q # p => Stored(q)' = Stored(q)
                BY <2>0, <2>2 DEF StoreItem, TypeOK, Stored
            <4> QED BY <4>1
        <3>4. ItemOf(p) # Empty
            BY <2>0 DEF TypeOK, ItemOf
        <3>5. \A t \in Slots : cell'[t] = IF t = Slot(index[p]) THEN ItemOf(p) ELSE cell[t]
            BY <2>0, <2>2, <3>1 DEF StoreItem, TypeOK
        <3>6. InPool' = InPool \cup {ItemOf(p)}
            BY <3>1, <3>4, <3>5 DEF InPool
        <3>7. handed' = handed
            BY <2>2 DEF StoreItem
        <3>8. ItemOf(p) = <<p, accepted[p] + 1>>
            BY <3>3 DEF ItemOf
        <3>9. InPool' = InPool \cup {<<p, accepted[p] + 1>>}
            BY <3>6, <3>8
        <3> QED BY <3>2, <3>3, <3>7, <3>9 DEF Pool!Put, Pool!Cardinality, Cardinality
    <2>3. CASE TakeFromCell
        <3> DEFINE s == Slot(index[Consumer])
        <3>1. /\ s \in Slots /\ cell' = [cell EXCEPT ![s] = Empty] /\ output = Empty
              /\ output' = cell[s] /\ received' = received /\ accepted' = accepted
            BY <2>0, <2>3, SlotInRange DEF TakeFromCell, TypeOK, Roles, Stored
        <3> HIDE DEF s, accepted
        <3>2. InPool' = InPool \ {cell[s]}
            BY <2>0, <3>1, ClearCell
        <3>3. CASE cell[s] = Empty
            <4>1. cell' = cell
                BY <2>0, <3>1, <3>3 DEF TypeOK
            <4>2. handed' = handed
                BY <3>1, <3>3
            <4> QED BY <2>1, <3>1, <4>1, <4>2
        <3>4. CASE cell[s] # Empty
            <4>1. cell[s] \in InPool
                BY <3>1, <3>4 DEF InPool
            <4>2. handed' = handed \cup {cell[s]}
                BY <3>1, <3>4
            <4>3. \E item \in InPool : Pool!Get(item)
                BY <3>1, <3>2, <4>1, <4>2 DEF Pool!Get, accepted
            <4> QED BY <4>3 DEF Pool!Next
        <3> QED BY <3>3, <3>4
    <2>4. ASSUME NEW p \in Producers, Write(p) \/ Die(p) PROVE [Pool!Next]_(Pool!vars)
        <3>1. CASE StoreItem(p)
            BY <2>2, <3>1 DEF Pool!Next
        <3>2. CASE \/ LoadWriteHead(p) \/ ReportFull(p) \/ SeeRoom(p) \/ LockCell(p)
                   \/ LeaveOccupiedCell(p) \/ AdvanceWriteHead(p) \/ UnlockCell(p)
            <4>1. cell' = cell /\ handed' = handed /\ accepted' = accepted
                BY <2>0, <3>2 DEF LoadWriteHead, ReportFull, SeeRoom, LockCell, LeaveOccupiedCell,
                    AdvanceWriteHead, UnlockCell, TypeOK, Stored
            <4> QED BY <2>1, <4>1
        <3>3. CASE Die(p)
            <4>1. cell' = cell /\ handed' = handed /\ accepted' = accepted
                BY <3>3 DEF Die, Stored
            <4> QED BY <2>1, <4>1
        <3> QED BY <2>4, <3>1, <3>2, <3>3 DEF Write
    <2>5. CASE LoadReadHead \/ ReportEmpty \/ SeeItem \/ LockCell(Consumer) \/ AdvanceReadHead
        <3>1. /\ cell' = cell /\ handed' = handed /\ sent' = sent
              /\ \A p \in Producers : pc'[p] = pc[p]
            BY <2>0, <2>5 DEF LoadReadHead, ReportEmpty, SeeItem, LockCell, AdvanceReadHead, TypeOK
        <3>2. accepted' = accepted
            BY <3>1 DEF Stored
        <3> QED BY <2>1, <3>1, <3>2
    <2>6. CASE UNCHANGED vars
        <3>1. cell' = cell /\ handed' = handed /\ accepted' = accepted
            BY <2>6 DEF vars, Stored
        <3> QED BY <2>1, <3>1
    <2> QED BY <2>3, <2>4, <2>5, <2>6 DEF Next, Read
<1> QED BY <1>1, <1>2, Invariance, PTL DEF Spec, RefinesPool, Pool!Spec
=============================================================================
