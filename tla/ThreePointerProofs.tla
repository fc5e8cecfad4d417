------------------------- MODULE ThreePointerProofs -------------------------
(***************************************************************************)
(* Proofs about ThreePointer for every number of producers, every capacity *)
(* and any number of crashes and restarts: IndInv is inductive, and the    *)
(* safety invariants follow from it.                                       *)
(***************************************************************************)
EXTENDS ThreePointer, Integers, SequenceTheorems, TLAPS

(* Two indices less than Size apart live in different cells: what makes    *)
(* mem_layout[i] (i & (size - 1)) a private cell for every open index.     *)
LEMMA SlotsDiffer ==
    ASSUME NEW i \in Nat, NEW j \in Nat, i < j, j < i + Size
    PROVE  Slot(i) # Slot(j)
<1> SUFFICES ASSUME i % Size = j % Size PROVE FALSE
    BY DEF Slot
<1> DEFINE r == i % Size
           a == i \div Size
           b == j \div Size
<1>1. a \in Int /\ b \in Int /\ r \in Int
    BY SizeAssumption
<1>2. i = Size * a + r /\ j = Size * b + r
    BY SizeAssumption
<1>3. j - i = Size * (b - a)
    BY <1>1, <1>2, SizeAssumption
<1>4. CASE b - a <= 0
    BY <1>1, <1>3, <1>4, SizeAssumption
<1>5. CASE b - a >= 1
    BY <1>1, <1>3, <1>5, SizeAssumption
<1> QED BY <1>1, <1>4, <1>5

(* The cell of an index is a cell of the array.                            *)
LEMMA SlotInRange ==
    ASSUME NEW i \in Nat
    PROVE  Slot(i) \in 0 .. Size - 1
BY SizeAssumption DEF Slot

(* An item a producer offers is an item.                                   *)
LEMMA ItemOfType ==
    ASSUME TypeOK, NEW p \in Producers
    PROVE  ItemOf(p) \in Items
BY DEF TypeOK, ItemOf, Items

(* The cells are empty, the heads are zero and nobody is in a call.        *)
LEMMA InitIndInv == Init => IndInv
<1> SUFFICES ASSUME Init PROVE IndInv
    OBVIOUS
<1>1. TypeOK
    BY SizeAssumption DEF Init, TypeOK, Procs, Labels
<1>2. Roles /\ ClaimBounded /\ TicketsOpen /\ TicketsDistinct /\ StoredIntact /\ ConsumerPlace
    BY DEF Init, Procs, Roles, ClaimBounded, Ticket, TicketsOpen, TicketsDistinct,
           StoredIntact, ConsumerPlace
<1>3. HeadsOrdered /\ CommittedIntact /\ FifoDelivery
    BY SizeAssumption DEF Init, HeadsOrdered, CommittedIntact, FifoDelivery
<1> QED BY <1>1, <1>2, <1>3 DEF IndInv

(* No step leaves the inductive invariant.                                 *)
LEMMA StepIndInv == IndInv /\ [Next]_vars => IndInv'
<1> SUFFICES ASSUME IndInv, [Next]_vars PROVE IndInv'
    OBVIOUS
<1> USE SizeAssumption, ConsumerAssumption DEF Procs, Goto, heads, locals, history, failures
<1>0. TypeOK /\ Roles /\ HeadsOrdered /\ ClaimBounded /\ TicketsOpen /\ TicketsDistinct
      /\ StoredIntact /\ ConsumerPlace /\ CommittedIntact /\ FifoDelivery
    BY DEF IndInv
<1>1. ASSUME NEW p \in Producers, LoadReadHead(p) PROVE IndInv'
    <2>1. TypeOK' /\ Roles' /\ ClaimBounded'
        BY <1>0, <1>1 DEF LoadReadHead, TypeOK, Labels, Roles, ClaimBounded, HeadsOrdered
    <2>2. TicketsOpen' /\ TicketsDistinct' /\ StoredIntact' /\ ConsumerPlace'
        BY <1>0, <1>1 DEF LoadReadHead, TicketsOpen, TypeOK, Ticket, ItemOf, HeadsOrdered,
            Roles, TicketsDistinct, StoredIntact, ConsumerPlace
    <2>3. HeadsOrdered' /\ CommittedIntact' /\ FifoDelivery'
        BY <1>0, <1>1 DEF LoadReadHead, HeadsOrdered, TypeOK, CommittedIntact, FifoDelivery
    <2> QED BY <2>1, <2>2, <2>3 DEF IndInv
<1>2. ASSUME NEW p \in Producers, ReportFull(p) PROVE IndInv'
    <2>1. TypeOK' /\ Roles' /\ ClaimBounded'
        BY <1>0, <1>2 DEF ReportFull, TypeOK, Labels, Roles, ClaimBounded, HeadsOrdered
    <2>2. TicketsOpen' /\ TicketsDistinct' /\ StoredIntact' /\ ConsumerPlace'
        BY <1>0, <1>2 DEF ReportFull, TicketsOpen, TypeOK, Ticket, ItemOf, HeadsOrdered, Roles,
            TicketsDistinct, StoredIntact, ConsumerPlace
    <2>3. HeadsOrdered' /\ CommittedIntact' /\ FifoDelivery'
        BY <1>0, <1>2 DEF ReportFull, HeadsOrdered, TypeOK, CommittedIntact, FifoDelivery
    <2> QED BY <2>1, <2>2, <2>3 DEF IndInv
<1>3. ASSUME NEW p \in Producers, LoadWriteHead(p) PROVE IndInv'
    <2>1. TypeOK' /\ Roles' /\ ClaimBounded'
        BY <1>0, <1>3 DEF LoadWriteHead, TypeOK, Labels, Roles, ClaimBounded, HeadsOrdered
    <2>2. TicketsOpen' /\ TicketsDistinct' /\ StoredIntact' /\ ConsumerPlace'
        BY <1>0, <1>3 DEF LoadWriteHead, TicketsOpen, TypeOK, Ticket, ItemOf, HeadsOrdered,
            Roles, TicketsDistinct, StoredIntact, ConsumerPlace
    <2>3. HeadsOrdered' /\ CommittedIntact' /\ FifoDelivery'
        BY <1>0, <1>3 DEF LoadWriteHead, HeadsOrdered, TypeOK, CommittedIntact, FifoDelivery
    <2> QED BY <2>1, <2>2, <2>3 DEF IndInv
<1>4. ASSUME NEW p \in Producers, ClaimSlot(p) PROVE IndInv'
    <2>1. /\ claimed' \in Seq(Items) /\ Len(claimed') = write_head + 1
          /\ claimed'[write_head + 1] = ItemOf(p)
          /\ \A i \in 1 .. write_head : claimed'[i] = claimed[i]
        BY <1>0, <1>4, ItemOfType, AppendProperties DEF ClaimSlot, TypeOK, HeadsOrdered
    <2>2. TypeOK' /\ Roles' /\ ClaimBounded'
        BY <1>0, <1>4, <2>1 DEF ClaimSlot, TypeOK, Labels, Roles, ClaimBounded, HeadsOrdered
    <2>3. HeadsOrdered'
        BY <1>0, <1>4, <2>1 DEF ClaimSlot, TypeOK, HeadsOrdered, ClaimBounded
    <2>4. TicketsOpen'
        <3> SUFFICES ASSUME NEW x \in Producers, Ticket(x)'
                     PROVE  /\ commit_head' <= w_h'[x] /\ w_h'[x] < write_head'
                            /\ claimed'[w_h'[x] + 1] = ItemOf(x)'
            BY DEF TicketsOpen
        <3>1. CASE x = p
            BY <1>0, <1>4, <2>1, <3>1 DEF ClaimSlot, TypeOK, HeadsOrdered, ItemOf
        <3>2. CASE x # p
            <4>1. Ticket(x)
                BY <1>0, <1>4, <3>2 DEF ClaimSlot, TypeOK, Ticket
            <4>2. /\ commit_head <= w_h[x] /\ w_h[x] < write_head /\ w_h[x] + 1 \in 1 .. write_head
                  /\ claimed[w_h[x] + 1] = ItemOf(x)
                BY <1>0, <4>1 DEF TypeOK, HeadsOrdered, TicketsOpen
            <4>3. claimed'[w_h[x] + 1] = claimed[w_h[x] + 1]
                BY <2>1, <4>2
            <4>4. w_h' = w_h /\ commit_head' = commit_head /\ write_head' = write_head + 1
                  /\ ItemOf(x)' = ItemOf(x)
                BY <1>4 DEF ClaimSlot, ItemOf
            <4> QED BY <1>0, <4>2, <4>3, <4>4 DEF TypeOK
        <3> QED BY <3>1, <3>2
    <2>5. TicketsDistinct'
        BY <1>0, <1>4, SMTT(30) DEF ClaimSlot, TypeOK, Ticket, HeadsOrdered, TicketsOpen, TicketsDistinct
    <2>6. StoredIntact'
        BY <1>0, <1>4 DEF ClaimSlot, TypeOK, ItemOf, StoredIntact
    <2>7. ConsumerPlace'
        BY <1>0, <1>4, <2>1 DEF ClaimSlot, TypeOK, HeadsOrdered, ConsumerPlace
    <2>8. CommittedIntact'
        <3> SUFFICES ASSUME NEW i \in read_head .. commit_head - 1
                     PROVE  array[Slot(i)] = claimed'[i + 1]
            BY <1>4 DEF ClaimSlot, CommittedIntact, Slot
        <3>1. i + 1 \in 1 .. write_head /\ array[Slot(i)] = claimed[i + 1]
            BY <1>0 DEF TypeOK, HeadsOrdered, CommittedIntact
        <3> QED BY <2>1, <3>1
    <2>9. FifoDelivery'
        <3>1. \A i \in 1 .. Len(received) : i \in 1 .. write_head /\ received[i] = claimed[i]
            BY <1>0 DEF TypeOK, HeadsOrdered, FifoDelivery
        <3>2. received' = received /\ read_head' = read_head
            BY <1>4 DEF ClaimSlot
        <3>3. \A i \in 1 .. Len(received') : received'[i] = claimed'[i]
            BY <2>1, <3>1, <3>2
        <3>4. Len(received') = read_head' /\ read_head' <= Len(claimed')
            BY <1>0, <2>1, <3>2 DEF TypeOK, HeadsOrdered, FifoDelivery
        <3> QED BY <3>3, <3>4 DEF FifoDelivery
    <2> QED BY <2>2, <2>3, <2>4, <2>5, <2>6, <2>7, <2>8, <2>9 DEF IndInv
<1>5. ASSUME NEW p \in Producers, ClaimFails(p) PROVE IndInv'
    <2>1. TypeOK' /\ Roles' /\ ClaimBounded'
        BY <1>0, <1>5 DEF ClaimFails, TypeOK, Labels, Roles, ClaimBounded, HeadsOrdered
    <2>2. TicketsOpen' /\ TicketsDistinct' /\ StoredIntact' /\ ConsumerPlace'
        BY <1>0, <1>5 DEF ClaimFails, TicketsOpen, TypeOK, Ticket, ItemOf, HeadsOrdered, Roles,
            TicketsDistinct, StoredIntact, ConsumerPlace
    <2>3. HeadsOrdered' /\ CommittedIntact' /\ FifoDelivery'
        BY <1>0, <1>5 DEF ClaimFails, HeadsOrdered, TypeOK, CommittedIntact, FifoDelivery
    <2> QED BY <2>1, <2>2, <2>3 DEF IndInv
<1>6. ASSUME NEW p \in Producers, StoreItem(p) PROVE IndInv'
    <2> DEFINE s == Slot(w_h[p])
    <2>1. s \in 0 .. Size - 1 /\ ItemOf(p) \in Items
        BY <1>0, SlotInRange, ItemOfType DEF TypeOK
    <2>2. commit_head <= w_h[p] /\ w_h[p] < write_head /\ write_head <= read_head + Size
        BY <1>0, <1>6 DEF StoreItem, Ticket, TicketsOpen, HeadsOrdered
    <2>3. TypeOK' /\ Roles' /\ ClaimBounded'
        BY <1>0, <1>6, <2>1 DEF StoreItem, TypeOK, Labels, Roles, ClaimBounded
    <2>4. HeadsOrdered' /\ TicketsOpen' /\ TicketsDistinct' /\ ConsumerPlace' /\ FifoDelivery'
        BY <1>0, <1>6 DEF StoreItem, TypeOK, Ticket, ItemOf, Roles, HeadsOrdered, TicketsOpen,
            TicketsDistinct, ConsumerPlace, FifoDelivery
    <2>5. StoredIntact'
        <3> SUFFICES ASSUME NEW x \in Producers, pc'[x] = "commit"
                     PROVE  array'[Slot(w_h[x])] = ItemOf(x)
            BY <1>6 DEF StoreItem, StoredIntact, ItemOf, Slot
        <3>1. CASE x = p
            BY <1>0, <1>6, <2>1, <3>1 DEF StoreItem, TypeOK
        <3>2. CASE x # p
            <4>1. pc[x] = "commit" /\ array[Slot(w_h[x])] = ItemOf(x)
                BY <1>0, <1>6, <3>2 DEF StoreItem, TypeOK, StoredIntact
            <4>2. w_h[x] # w_h[p] /\ commit_head <= w_h[x] /\ w_h[x] < write_head
                BY <1>0, <1>6, <3>2, <4>1 DEF StoreItem, Ticket, TicketsOpen, TicketsDistinct
            <4>3. Slot(w_h[x]) # Slot(w_h[p])
                <5>1. CASE w_h[x] < w_h[p]
                    BY <1>0, <2>2, <4>2, <5>1, SlotsDiffer DEF TypeOK, HeadsOrdered
                <5>2. CASE w_h[p] < w_h[x]
                    BY <1>0, <2>2, <4>2, <5>2, SlotsDiffer DEF TypeOK, HeadsOrdered
                <5> QED BY <1>0, <4>2, <5>1, <5>2 DEF TypeOK
            <4> QED BY <1>0, <1>6, <4>1, <4>3, SlotInRange DEF StoreItem, TypeOK
        <3> QED BY <3>1, <3>2
    <2>6. CommittedIntact'
        <3> SUFFICES ASSUME NEW i \in read_head .. commit_head - 1
                     PROVE  array'[Slot(i)] = claimed[i + 1]
            BY <1>6 DEF StoreItem, CommittedIntact, Slot
        <3>1. i \in Nat /\ w_h[p] \in Nat /\ i < w_h[p] /\ w_h[p] < i + Size
            BY <1>0, <2>2 DEF TypeOK
        <3>2. Slot(i) # Slot(w_h[p]) /\ Slot(i) \in 0 .. Size - 1
            BY <3>1, SlotsDiffer, SlotInRange
        <3> QED BY <1>0, <1>6, <3>2 DEF StoreItem, TypeOK, CommittedIntact
    <2> QED BY <2>3, <2>4, <2>5, <2>6 DEF IndInv
<1>7. ASSUME NEW p \in Producers, CommitSlot(p) PROVE IndInv'
    <2>1. /\ commit_head = w_h[p] /\ w_h[p] < write_head
          /\ claimed[commit_head + 1] = ItemOf(p) /\ array[Slot(commit_head)] = ItemOf(p)
        BY <1>0, <1>7 DEF CommitSlot, Ticket, TicketsOpen, StoredIntact
    <2>2. TypeOK' /\ Roles' /\ ClaimBounded'
        BY <1>0, <1>7 DEF CommitSlot, TypeOK, Labels, Roles, ClaimBounded
    <2>3. HeadsOrdered' /\ ConsumerPlace' /\ FifoDelivery'
        BY <1>0, <1>7, <2>1 DEF CommitSlot, TypeOK, HeadsOrdered, ConsumerPlace, FifoDelivery
    <2>4. ASSUME NEW x \in Producers, pc'[x] \in {"store", "commit"}
          PROVE  /\ x # p /\ pc'[x] = pc[x] /\ w_h'[x] = w_h[x] /\ ItemOf(x)' = ItemOf(x)
                 /\ w_h[x] # commit_head
        BY <1>0, <1>7, <2>1, <2>4 DEF CommitSlot, TypeOK, Ticket, ItemOf, TicketsDistinct
    <2>5. TicketsOpen'
        BY <1>0, <1>7, <2>4, SMTT(30) DEF CommitSlot, TypeOK, Ticket, TicketsOpen
    <2>6. TicketsDistinct'
        BY <1>0, <2>4 DEF Ticket, TicketsDistinct
    <2>7. StoredIntact'
        BY <1>0, <1>7, <2>4 DEF CommitSlot, StoredIntact
    <2>8. CommittedIntact'
        <3> SUFFICES ASSUME NEW i \in read_head .. commit_head
                     PROVE  array[Slot(i)] = claimed[i + 1]
            BY <1>0, <1>7, <2>1, SMTT(30) DEF CommitSlot, TypeOK, CommittedIntact
        <3>1. CASE i = commit_head
            BY <2>1, <3>1
        <3>2. CASE i # commit_head
            BY <1>0, <3>2 DEF TypeOK, CommittedIntact
        <3> QED BY <3>1, <3>2
    <2> QED BY <2>2, <2>3, <2>5, <2>6, <2>7, <2>8 DEF IndInv
<1>8. ASSUME LoadOwnHead PROVE IndInv'
    <2>1. TypeOK' /\ Roles' /\ ClaimBounded'
        BY <1>0, <1>8 DEF LoadOwnHead, TypeOK, Labels, Roles, ClaimBounded, HeadsOrdered
    <2>2. TicketsOpen' /\ TicketsDistinct' /\ StoredIntact' /\ ConsumerPlace'
        BY <1>0, <1>8 DEF LoadOwnHead, TicketsOpen, TypeOK, Ticket, ItemOf, HeadsOrdered, Roles,
            TicketsDistinct, StoredIntact, ConsumerPlace
    <2>3. HeadsOrdered' /\ CommittedIntact' /\ FifoDelivery'
        BY <1>0, <1>8 DEF LoadOwnHead, HeadsOrdered, TypeOK, CommittedIntact, FifoDelivery
    <2> QED BY <2>1, <2>2, <2>3 DEF IndInv
<1>9. ASSUME ReportEmpty PROVE IndInv'
    <2>1. TypeOK' /\ Roles' /\ ClaimBounded'
        BY <1>0, <1>9 DEF ReportEmpty, TypeOK, Labels, Roles, ClaimBounded, HeadsOrdered
    <2>2. TicketsOpen' /\ TicketsDistinct' /\ StoredIntact' /\ ConsumerPlace'
        BY <1>0, <1>9 DEF ReportEmpty, TicketsOpen, TypeOK, Ticket, ItemOf, HeadsOrdered, Roles,
            TicketsDistinct, StoredIntact, ConsumerPlace
    <2>3. HeadsOrdered' /\ CommittedIntact' /\ FifoDelivery'
        BY <1>0, <1>9 DEF ReportEmpty, HeadsOrdered, TypeOK, CommittedIntact, FifoDelivery
    <2> QED BY <2>1, <2>2, <2>3 DEF IndInv
<1>10. ASSUME LoadCommitHead PROVE IndInv'
    <2>1. TypeOK' /\ Roles' /\ ClaimBounded'
        BY <1>0, <1>10 DEF LoadCommitHead, TypeOK, Labels, Roles, ClaimBounded, HeadsOrdered
    <2>2. TicketsOpen' /\ TicketsDistinct' /\ StoredIntact' /\ ConsumerPlace'
        BY <1>0, <1>10 DEF LoadCommitHead, TicketsOpen, TypeOK, Ticket, ItemOf, HeadsOrdered,
            Roles, TicketsDistinct, StoredIntact, ConsumerPlace
    <2>3. HeadsOrdered' /\ CommittedIntact' /\ FifoDelivery'
        BY <1>0, <1>10 DEF LoadCommitHead, HeadsOrdered, TypeOK, CommittedIntact, FifoDelivery
    <2> QED BY <2>1, <2>2, <2>3 DEF IndInv
<1>11. ASSUME FetchItem PROVE IndInv'
    <2>1. TypeOK' /\ Roles' /\ ClaimBounded'
        BY <1>0, <1>11, SlotInRange DEF FetchItem, TypeOK, Labels, Roles, ClaimBounded,
            HeadsOrdered
    <2>2. TicketsOpen' /\ TicketsDistinct' /\ StoredIntact'
        BY <1>0, <1>11 DEF FetchItem, TicketsOpen, TypeOK, Ticket, ItemOf, HeadsOrdered, Roles,
            TicketsDistinct, StoredIntact
    <2>3. ConsumerPlace'
        BY <1>0, <1>11 DEF FetchItem, ConsumerPlace, TypeOK, HeadsOrdered, Roles,
            CommittedIntact
    <2>4. HeadsOrdered' /\ CommittedIntact' /\ FifoDelivery'
        BY <1>0, <1>11 DEF FetchItem, HeadsOrdered, TypeOK, CommittedIntact, FifoDelivery
    <2> QED BY <2>1, <2>2, <2>3, <2>4 DEF IndInv
<1>12. ASSUME AdvanceReadHead PROVE IndInv'
    <2>1. /\ read_head < commit_head /\ commit_head <= write_head /\ Len(claimed) = write_head
          /\ output = claimed[read_head + 1] /\ output \in Items
        BY <1>0, <1>12 DEF AdvanceReadHead, TypeOK, ConsumerPlace, HeadsOrdered
    <2>2. /\ received' \in Seq(Items) /\ Len(received') = read_head + 1
          /\ received'[read_head + 1] = output
          /\ \A i \in 1 .. read_head : received'[i] = received[i]
        BY <1>0, <1>12, <2>1, AppendProperties DEF AdvanceReadHead, TypeOK, FifoDelivery
    <2>3. TypeOK' /\ Roles' /\ HeadsOrdered'
        BY <1>0, <1>12, <2>1, <2>2 DEF AdvanceReadHead, TypeOK, Labels, Roles, HeadsOrdered
    <2>4. ClaimBounded' /\ ConsumerPlace'
        BY <1>0, <1>12 DEF AdvanceReadHead, TypeOK, Roles, ClaimBounded, ConsumerPlace
    <2>5. TicketsOpen' /\ TicketsDistinct' /\ StoredIntact'
        BY <1>0, <1>12 DEF AdvanceReadHead, TypeOK, Ticket, ItemOf, TicketsOpen, TicketsDistinct,
            StoredIntact
    <2>6. CommittedIntact'
        BY <1>0, <1>12, <2>1 DEF AdvanceReadHead, TypeOK, CommittedIntact
    <2>7. FifoDelivery'
        BY <1>0, <1>12, <2>1, <2>2 DEF AdvanceReadHead, TypeOK, FifoDelivery
    <2> QED BY <2>3, <2>4, <2>5, <2>6, <2>7 DEF IndInv
<1>13. ASSUME NEW q \in Procs, Crash(q) PROVE IndInv'
    <2>1. TypeOK' /\ Roles' /\ ClaimBounded'
        BY <1>0, <1>13 DEF Crash, TypeOK, Labels, Roles, ClaimBounded, HeadsOrdered
    <2>2. TicketsOpen' /\ TicketsDistinct' /\ StoredIntact' /\ ConsumerPlace'
        BY <1>0, <1>13 DEF Crash, TicketsOpen, TypeOK, Ticket, ItemOf, HeadsOrdered, Roles,
            TicketsDistinct, StoredIntact, ConsumerPlace
    <2>3. HeadsOrdered' /\ CommittedIntact' /\ FifoDelivery'
        BY <1>0, <1>13 DEF Crash, HeadsOrdered, TypeOK, CommittedIntact, FifoDelivery
    <2> QED BY <2>1, <2>2, <2>3 DEF IndInv
<1>14. ASSUME NEW q \in Procs, Restart(q) PROVE IndInv'
    <2>1. TypeOK' /\ Roles' /\ ClaimBounded'
        BY <1>0, <1>14 DEF Restart, TypeOK, Labels, Roles, ClaimBounded, HeadsOrdered
    <2>2. TicketsOpen' /\ TicketsDistinct' /\ StoredIntact' /\ ConsumerPlace'
        BY <1>0, <1>14 DEF Restart, TicketsOpen, TypeOK, Ticket, ItemOf, HeadsOrdered, Roles,
            TicketsDistinct, StoredIntact, ConsumerPlace
    <2>3. HeadsOrdered' /\ CommittedIntact' /\ FifoDelivery'
        BY <1>0, <1>14 DEF Restart, HeadsOrdered, TypeOK, CommittedIntact, FifoDelivery
    <2> QED BY <2>1, <2>2, <2>3 DEF IndInv
<1>15. CASE UNCHANGED vars
    BY <1>0, <1>15 DEF vars, IndInv, TypeOK, Roles, HeadsOrdered, ClaimBounded, TicketsOpen,
        TicketsDistinct, StoredIntact, ConsumerPlace, CommittedIntact, FifoDelivery, Ticket, ItemOf
<1> QED BY <1>1, <1>2, <1>3, <1>4, <1>5, <1>6, <1>7, <1>8, <1>9, <1>10, <1>11, <1>12, <1>13, <1>14, <1>15 DEF Next, Write, Read

(* The inductive invariant holds in every reachable state, for every set   *)
(* of producers, every capacity, every workload and every pattern of       *)
(* crashes and restarts.                                                   *)
THEOREM Invariance == Spec => []IndInv
<1>1. Init => IndInv
    BY InitIndInv
<1>2. IndInv /\ [Next]_vars => IndInv'
    BY StepIndInv
<1> QED BY <1>1, <1>2, PTL DEF Spec

(* Type correctness: write() and read() of the three-pointer ring never    *)
(* leave the types of their variables, and read() never returns the        *)
(* content of a cell nobody wrote.                                         *)
THEOREM TypeCorrect == Spec => []TypeOK
<1>1. IndInv => TypeOK
    BY DEF IndInv
<1> QED BY <1>1, Invariance, PTL

(* FIFO delivery: read() returns the items in the order their indices were *)
(* claimed by write(), each exactly once.                                  *)
THEOREM Fifo == Spec => []FifoDelivery
<1>1. IndInv => FifoDelivery
    BY DEF IndInv
<1> QED BY <1>1, Invariance, PTL

(* Every published and unread cell holds the item claimed for its index:   *)
(* write() never publishes before it stores and never overwrites early.    *)
THEOREM PublishedIsIntact == Spec => []CommittedIntact
<1>1. IndInv => CommittedIntact
    BY DEF IndInv
<1> QED BY <1>1, Invariance, PTL

(* Data-race freedom of the plain copies in write() (line 138) and read()  *)
(* (line 89): two processes are never in the same cell.                    *)
THEOREM NoRace == Spec => []NoCellRace
<1>1. IndInv => NoCellRace
    <2> SUFFICES ASSUME IndInv, NEW x \in Procs, NEW y \in Procs, NEW s \in 0 .. Size - 1,
                        Touches(x, s), Touches(y, s), x # y
                 PROVE  FALSE
        BY DEF NoCellRace
    <2> USE SizeAssumption, ConsumerAssumption
    <2>0. TypeOK /\ Roles /\ HeadsOrdered /\ TicketsOpen /\ TicketsDistinct /\ ConsumerPlace
        BY DEF IndInv
    <2> DEFINE index(q) == IF q = Consumer THEN r_h[q] ELSE w_h[q]
    <2>1. ASSUME NEW q \in Procs, Touches(q, s)
          PROVE  /\ index(q) \in Nat /\ s = Slot(index(q))
                 /\ read_head <= index(q) /\ index(q) < read_head + Size
                 /\ q = Consumer => index(q) < commit_head
                 /\ q # Consumer => q \in Producers /\ Ticket(q) /\ commit_head <= index(q)
        <3>1. CASE q = Consumer
            BY <2>0, <2>1, <3>1, SMTT(30) DEF Touches, TypeOK, Procs, Roles, HeadsOrdered, ConsumerPlace
        <3>2. CASE q # Consumer
            <4>1. q \in Producers /\ pc[q] = "store" /\ s = Slot(w_h[q])
                BY <2>0, <2>1, <3>2 DEF Touches, Procs, Roles
            <4>2. w_h[q] \in Nat /\ commit_head <= w_h[q] /\ w_h[q] < write_head
                BY <2>0, <4>1 DEF TypeOK, Procs, Ticket, TicketsOpen
            <4> QED BY <2>0, <3>2, <4>1, <4>2 DEF TypeOK, HeadsOrdered, Ticket
        <3> QED BY <3>1, <3>2
    <2>2. index(x) # index(y)
        BY <2>0, <2>1 DEF TicketsDistinct, TypeOK
    <2>3. CASE index(x) < index(y)
        BY <2>0, <2>1, <2>3, SlotsDiffer DEF TypeOK
    <2>4. CASE index(y) < index(x)
        BY <2>0, <2>1, <2>4, SlotsDiffer DEF TypeOK
    <2> QED BY <2>1, <2>2, <2>3, <2>4
<1> QED BY <1>1, Invariance, PTL

-----------------------------------------------------------------------------
(* The mapped queue, told by the claim history instead of by the cells *)
QueueIsClaimed ==
    /\ Published = [i \in 1 .. commit_head - read_head |-> claimed[read_head + i]]
    /\ Published \in Seq(Items) /\ Len(Published) = commit_head - read_head

(* The published cells hold the claimed items between the two heads, so    *)
(* that claiming and storing leave the mapped queue alone.                 *)
LEMMA PublishedIsClaimed == IndInv => QueueIsClaimed
<1> SUFFICES ASSUME IndInv PROVE QueueIsClaimed
    OBVIOUS
<1> USE SizeAssumption
<1>0. TypeOK /\ HeadsOrdered /\ CommittedIntact
    BY DEF IndInv
<1>1. ASSUME NEW i \in 1 .. commit_head - read_head
      PROVE  array[Slot(read_head + i - 1)] = claimed[read_head + i] /\ claimed[read_head + i] \in Items
    <2>1. read_head + i - 1 \in read_head .. commit_head - 1 /\ read_head + i \in 1 .. Len(claimed)
        BY <1>0 DEF TypeOK, HeadsOrdered
    <2>2. array[Slot(read_head + i - 1)] = claimed[read_head + i - 1 + 1]
        BY <1>0, <2>1 DEF CommittedIntact
    <2> QED BY <1>0, <2>1, <2>2 DEF TypeOK
<1>2. Published = [i \in 1 .. commit_head - read_head |-> claimed[read_head + i]]
    BY <1>1 DEF Published
<1>3. commit_head - read_head \in Nat
    BY <1>0 DEF TypeOK, HeadsOrdered
<1> QED BY <1>1, <1>2, <1>3 DEF QueueIsClaimed

(* Refinement: every step of the ring is a step of the bounded queue or    *)
(* leaves it alone.  The commit CAS is the moment an item enters (there is *)
(* room by HeadsOrdered) and the fetch_add of read_head the moment the     *)
(* oldest one leaves; all other accesses of write() and read(), crashes    *)
(* and restarts are invisible.                                             *)
THEOREM Refinement == Spec => RefinesQueue
<1> USE SizeAssumption, ConsumerAssumption
<1>1. Init => Queue!Init
    BY DEF Init, Queue!Init, Published
<1>2. IndInv' => QueueIsClaimed'
    BY PublishedIsClaimed, PTL
<1>3. IndInv /\ IndInv' /\ [Next]_vars => [Queue!Next]_(Queue!vars)
    <2> SUFFICES ASSUME IndInv, IndInv', [Next]_vars
                 PROVE  [Queue!Next]_(Queue!vars)
        OBVIOUS
    <2> USE DEF heads, locals, history, failures
    <2>0. TypeOK /\ HeadsOrdered /\ TicketsOpen /\ ConsumerPlace /\ FifoDelivery
        BY DEF IndInv
    <2>1. /\ Published = [i \in 1 .. commit_head - read_head |-> claimed[read_head + i]]
          /\ Published \in Seq(Items) /\ Len(Published) = commit_head - read_head
        BY PublishedIsClaimed DEF QueueIsClaimed
    <2>2. /\ Published' = [i \in 1 .. commit_head' - read_head' |-> claimed'[read_head' + i]]
          /\ Published' \in Seq(Items) /\ Len(Published') = commit_head' - read_head'
        BY <1>2 DEF QueueIsClaimed
    <2>3. ASSUME UNCHANGED <<read_head, commit_head, claimed, sent, received>>
          PROVE  UNCHANGED Queue!vars
        BY <2>1, <2>2, <2>3 DEF Queue!vars
    <2>4. ASSUME NEW p \in Producers, ClaimSlot(p)
          PROVE  UNCHANGED Queue!vars
        <3>1. \A i \in 1 .. write_head : claimed'[i] = claimed[i]
            BY <2>0, <2>4, ItemOfType, AppendProperties DEF ClaimSlot, TypeOK, HeadsOrdered
        <3>2. commit_head' = commit_head /\ read_head' = read_head
            BY <2>4 DEF ClaimSlot
        <3>3. ASSUME NEW i \in 1 .. commit_head - read_head
              PROVE  claimed'[read_head + i] = claimed[read_head + i]
            BY <2>0, <3>1 DEF TypeOK, HeadsOrdered
        <3>4. Published' = Published
            BY <2>1, <2>2, <3>2, <3>3
        <3> QED BY <2>4, <3>4 DEF ClaimSlot, Queue!vars
    <2>5. ASSUME NEW p \in Producers, CommitSlot(p)
          PROVE  Queue!Put(p)
        <3>1. /\ w_h[p] = commit_head /\ commit_head < write_head
              /\ claimed[commit_head + 1] = <<p, sent[p] + 1>>
            BY <2>0, <2>5 DEF CommitSlot, Ticket, TicketsOpen, ItemOf
        <3>2. commit_head' = commit_head + 1 /\ read_head' = read_head /\ claimed' = claimed
            BY <2>5, <3>1 DEF CommitSlot
        <3>3. Len(Published) < Size
            BY <2>0, <2>1, <3>1 DEF TypeOK, HeadsOrdered
        <3>4. Published' = Append(Published, <<p, sent[p] + 1>>)
            <4> DEFINE next == Append(Published, <<p, sent[p] + 1>>)
            <4>1. <<p, sent[p] + 1>> \in Items
                BY <2>0, ItemOfType DEF ItemOf
            <4>2. /\ next \in Seq(Items) /\ Len(next) = Len(Published) + 1
                  /\ next[Len(Published) + 1] = <<p, sent[p] + 1>>
                  /\ \A i \in 1 .. Len(Published) : next[i] = Published[i]
                <5>1. Published \in Seq(Items)
                    BY <2>1
                <5> QED BY <4>1, <5>1, AppendProperties
            <4>3. Len(Published') = Len(next)
                BY <2>0, <2>1, <2>2, <3>2, <4>2 DEF TypeOK, HeadsOrdered
            <4>4. ASSUME NEW i \in 1 .. Len(Published')
                  PROVE  Published'[i] = next[i]
                <5>1. Published'[i] = claimed[read_head + i]
                    BY <2>0, <2>2, <3>2 DEF TypeOK
                <5>2. CASE i = commit_head - read_head + 1
                    <6>1. i = Len(Published) + 1 /\ read_head + i = commit_head + 1
                        BY <2>0, <2>1, <5>2 DEF TypeOK
                    <6> QED BY <3>1, <4>2, <5>1, <6>1
                <5>3. CASE i # commit_head - read_head + 1
                    BY <2>0, <2>1, <2>2, <3>2, <4>2, <5>1, <5>3 DEF TypeOK, HeadsOrdered
                <5> QED BY <5>2, <5>3
            <4> HIDE DEF next
            <4>5. Published' = next
                BY <2>2, <4>2, <4>3, <4>4, SeqEqual
            <4> QED BY <4>5 DEF next
        <3> QED BY <2>5, <3>3, <3>4 DEF CommitSlot, Queue!Put
    <2>6. ASSUME AdvanceReadHead
          PROVE  Queue!Get
        <3>1. read_head < commit_head /\ output = claimed[read_head + 1]
            BY <2>0, <2>6 DEF AdvanceReadHead, ConsumerPlace
        <3>2. commit_head' = commit_head /\ read_head' = read_head + 1 /\ claimed' = claimed
            BY <2>6 DEF AdvanceReadHead
        <3>3. Published # << >> /\ Head(Published) = output
            <4>1. commit_head - read_head \in Nat /\ 1 \in 1 .. commit_head - read_head
                BY <2>0, <3>1 DEF TypeOK
            <4>2. Len(Published) # 0 /\ Published[1] = output
                BY <2>1, <3>1, <4>1
            <4>3. Published \in Seq(Items)
                BY <2>1
            <4>4. Published # << >>
                BY <4>2, EmptySeq
            <4> QED BY <4>2, <4>3, <4>4
        <3>4. Published' = Tail(Published)
            <4>1. /\ Tail(Published) \in Seq(Items)
                  /\ Len(Tail(Published)) = Len(Published) - 1
                  /\ \A i \in 1 .. Len(Tail(Published)) : Tail(Published)[i] = Published[i + 1]
                BY <2>1, <3>3, HeadTailProperties
            <4>2. Len(Published') = Len(Tail(Published))
                <5>1. Len(Published') = commit_head - (read_head + 1)
                    BY <2>2, <3>2
                <5>2. Len(Tail(Published)) = commit_head - read_head - 1
                    BY <2>1, <4>1
                <5> QED BY <2>0, <5>1, <5>2 DEF TypeOK
            <4>3. ASSUME NEW i \in 1 .. Len(Published')
                  PROVE  Published'[i] = Tail(Published)[i]
                BY <2>0, <2>1, <2>2, <3>1, <3>2, <4>1, <4>2, <4>3 DEF TypeOK, HeadsOrdered
            <4> QED BY <2>2, <4>1, <4>2, <4>3, SeqEqual
        <3> QED BY <2>6, <3>3, <3>4 DEF AdvanceReadHead, Queue!Get
    <2>7. CASE UNCHANGED vars
        BY <2>3, <2>7 DEF vars
    <2>8. ASSUME NEW p \in Producers, Write(p)
          PROVE  [Queue!Next]_(Queue!vars)
        BY <2>3, <2>4, <2>5, <2>8 DEF Write, LoadReadHead, ReportFull, LoadWriteHead, ClaimFails,
            StoreItem, Queue!Next
    <2>9. CASE Read
        BY <2>3, <2>6, <2>9 DEF Read, LoadOwnHead, ReportEmpty, LoadCommitHead, FetchItem, Queue!Next
    <2>10. ASSUME NEW q \in Procs, Crash(q) \/ Restart(q)
          PROVE  [Queue!Next]_(Queue!vars)
        BY <2>3, <2>10 DEF Crash, Restart
    <2> QED BY <2>7, <2>8, <2>9, <2>10 DEF Next
<1> QED BY <1>1, <1>3, Invariance, PTL DEF Spec, RefinesQueue, Queue!Spec
=============================================================================
