-------------------------- MODULE SimpleRingProofs --------------------------
(***************************************************************************)
(* Proofs about SimpleRing for every capacity, every workload and any      *)
(* number of deaths of either side.  IInv is inductive; type correctness,  *)
(* the absence of a race on a cell, exactly-once delivery up to deaths and *)
(* the safety half of the refinement of a bounded channel follow from it.  *)
(***************************************************************************)
EXTENDS SimpleRing, Integers, SequenceTheorems, FiniteSetTheorems, TLAPS

-----------------------------------------------------------------------------
(* The inductive invariant *)

(* Each side is in its own call. *)
Roles ==
    /\ pc["producer"] \in {"idle", "look", "store", "stored", "done", "dead"}
    /\ pc["consumer"] \in {"idle", "look", "fetch", "fetched", "done", "dead"}

(* The ring never holds more than Size items. *)
HeadsOrdered == read_head <= write_head /\ write_head <= read_head + Size

(* A head a side has loaded is never ahead of the head itself, ... *)
SeenIsPast == seen["producer"] <= read_head /\ seen["consumer"] <= write_head

(* ... the producer's cache is its published head, one more between the    *)
(* store of the item and the store of the head, ...                        *)
ProducerPlace ==
    /\ pc["producer"] \in {"idle", "look", "store", "done"} => w_h_cache = write_head
    /\ pc["producer"] = "stored" =>
          w_h_cache = write_head + 1 /\ array[Slot(write_head)] = accepted + 1
    /\ pc["producer"] \in {"store", "stored"} => write_head < read_head + Size
    /\ pc["producer"] \in {"look", "store", "stored", "done"} => accepted < MaxWrites

(* ... and so is the consumer's. *)
ConsumerPlace ==
    /\ pc["consumer"] \in {"idle", "look", "fetch", "done"} => r_h_cache = read_head
    /\ pc["consumer"] = "fetched" =>
          r_h_cache = read_head + 1 /\ output = array[Slot(read_head)]
    /\ pc["consumer"] \in {"fetch", "fetched"} => read_head < write_head

(* The items that are published and not lost. *)
Known == InRing \cup InHand \cup Delivered

(* They are items, and none is ahead of the one write() is busy with.      *)
KnownAreOffered == \A item \in Known : item \in 1 .. MaxWrites /\ item <= accepted + 1

(* What was returned is no later than what is in hand, and that no later   *)
(* than what is in the ring, from its front to its back.                   *)
InOrder ==
    /\ \A i, j \in 1 .. Len(received) : i < j => received[i] <= received[j]
    /\ \A i \in 1 .. Len(received) : \A item \in InHand \cup InRing : received[i] <= item
    /\ \A item \in InHand, other \in InRing : item <= other
    /\ \A i, j \in read_head .. write_head - 1 : i < j => array[Slot(i)] <= array[Slot(j)]

(* Only a death of the consumer loses an item it had taken out.            *)
Completed == accepted + IF pc["producer"] = "done" THEN 1 ELSE 0

LostOnlyByDeaths == Cardinality((1 .. Completed) \ Known) <= deaths["consumer"]

(* An item is known twice, or is known and will be written again, only by  *)
(* a death of the producer between the store of the head and the return.   *)
Places == Len(received) + Cardinality(InHand) + (write_head - read_head)

ToRepeat == IF pc["producer"] # "done" /\ accepted + 1 \in Known THEN 1 ELSE 0

RepeatedOnlyByDeaths == Places - Cardinality(Known) + ToRepeat <= deaths["producer"]

IInv ==
    /\ TypeOK /\ Roles /\ HeadsOrdered /\ SeenIsPast /\ ProducerPlace /\ ConsumerPlace
    /\ KnownAreOffered /\ InOrder /\ LostOnlyByDeaths /\ RepeatedOnlyByDeaths

-----------------------------------------------------------------------------
(* Facts about the cells and about the known items *)

(* Two indices less than Size apart live in different cells.               *)
LEMMA SlotsDiffer ==
    ASSUME NEW i \in Nat, NEW j \in Nat, i < j, j < i + Size
    PROVE  Slot(i) # Slot(j)
<1> SUFFICES ASSUME i % Size = j % Size PROVE FALSE
    BY DEF Slot
<1> DEFINE r == i % Size
           a == i \div Size
           b == j \div Size
<1>1. a \in Int /\ b \in Int /\ r \in Int
    BY SimpleSizeAssumption
<1>2. i = Size * a + r /\ j = Size * b + r
    BY SimpleSizeAssumption
<1>3. j - i = Size * (b - a)
    BY <1>1, <1>2, SimpleSizeAssumption
<1>4. CASE b - a <= 0
    BY <1>1, <1>3, <1>4, SimpleSizeAssumption
<1>5. CASE b - a >= 1
    BY <1>1, <1>3, <1>5, SimpleSizeAssumption
<1> QED BY <1>1, <1>4, <1>5

(* The cell of an index is a cell of the array.                            *)
LEMMA SlotInRange ==
    ASSUME NEW i \in Nat
    PROVE  Slot(i) \in 0 .. Size - 1
BY SimpleSizeAssumption DEF Slot

(* The known items are finitely many, and so are those still to be known.  *)
LEMMA KnownIsFinite ==
    ASSUME TypeOK, KnownAreOffered
    PROVE  /\ IsFiniteSet(Known) /\ Cardinality(Known) \in Nat
           /\ IsFiniteSet((1 .. Completed) \ Known)
           /\ Cardinality((1 .. Completed) \ Known) \in Nat
<1>1. IsFiniteSet(1 .. MaxWrites) /\ Known \in SUBSET (1 .. MaxWrites)
    BY FS_Interval, SimpleBoundAssumption DEF KnownAreOffered
<1>2. IsFiniteSet(Known)
    BY <1>1, FS_Subset
<1>3. Completed \in Int
    BY DEF Completed, TypeOK
<1>4. IsFiniteSet(1 .. Completed)
    BY <1>3, FS_Interval
<1>5. IsFiniteSet((1 .. Completed) \ Known)
    BY <1>4, FS_Difference
<1> QED BY <1>2, <1>5, FS_CardinalityType

(* What the consumer holds is nothing or one item.                         *)
LEMMA HandSize ==
    /\ IsFiniteSet(InHand)
    /\ Cardinality(InHand) = IF pc["consumer"] = "done" THEN 1 ELSE 0
BY FS_EmptySet, FS_Singleton DEF InHand

(* A step that leaves the ring, the hand and the returned items alone      *)
(* keeps everything said about the known items.                            *)
LEMMA KnownStays ==
    ASSUME IInv, TypeOK',
           write_head' = write_head, read_head' = read_head,
           \A i \in read_head .. write_head - 1 : array'[Slot(i)] = array[Slot(i)],
           InHand' = InHand, received' = received, accepted' = accepted,
           deaths'["producer"] >= deaths["producer"], deaths'["consumer"] >= deaths["consumer"],
           \/ (pc'["producer"] = "done") <=> (pc["producer"] = "done")
           \/ pc'["producer"] # "done" /\ deaths'["producer"] = deaths["producer"] + 1
    PROVE  KnownAreOffered' /\ InOrder' /\ LostOnlyByDeaths' /\ RepeatedOnlyByDeaths'
<1>0. /\ TypeOK /\ KnownAreOffered /\ InOrder /\ LostOnlyByDeaths /\ RepeatedOnlyByDeaths
    BY DEF IInv
<1>1. InRing' = InRing
    BY DEF InRing, Slot
<1>2. Delivered' = Delivered /\ Known' = Known
    BY <1>1 DEF Delivered, Known
<1>3. KnownAreOffered'
    BY <1>0, <1>2 DEF KnownAreOffered
<1>4. InOrder'
    BY <1>0, <1>1 DEF InOrder, Slot
<1>5. LostOnlyByDeaths'
    <2>1. CASE Completed' = Completed
        BY <1>0, <1>2, <2>1, KnownIsFinite DEF LostOnlyByDeaths, TypeOK, Sides
    <2>2. CASE Completed' # Completed
        <3>1. Completed = accepted + 1 /\ Completed' = accepted
            BY <2>2, <1>0 DEF Completed, TypeOK
        <3>2. (1 .. Completed') \ Known \in SUBSET ((1 .. Completed) \ Known)
            BY <1>0, <3>1 DEF TypeOK
        <3>3. IsFiniteSet((1 .. Completed) \ Known)
            BY <1>0, KnownIsFinite
        <3>4. /\ Cardinality((1 .. Completed') \ Known) <= Cardinality((1 .. Completed) \ Known)
              /\ IsFiniteSet((1 .. Completed') \ Known)
            BY <3>2, <3>3, FS_Subset
        <3>5. Cardinality((1 .. Completed') \ Known) \in Nat
            BY <3>4, FS_CardinalityType
        <3> QED BY <1>0, <1>2, <3>4, <3>5, KnownIsFinite DEF LostOnlyByDeaths, TypeOK, Sides
    <2> QED BY <2>1, <2>2
<1>6. RepeatedOnlyByDeaths'
    <2>1. Places' = Places
        BY DEF Places
    <2>2. Cardinality(InHand) \in Nat /\ Len(received) \in Nat /\ Places \in Int
        BY <1>0, HandSize, LenProperties DEF TypeOK, Places
    <2>3. ToRepeat \in {0, 1} /\ ToRepeat' \in {0, 1} /\ Cardinality(Known) \in Nat
        BY <1>0, KnownIsFinite DEF ToRepeat
    <2>4. CASE (pc'["producer"] = "done") <=> (pc["producer"] = "done")
        <3>1. ToRepeat' = ToRepeat
            BY <1>2, <2>4 DEF ToRepeat
        <3> QED BY <1>0, <1>2, <2>1, <2>2, <2>3, <3>1
                DEF RepeatedOnlyByDeaths, TypeOK, Sides
    <2>5. CASE deaths'["producer"] = deaths["producer"] + 1
        <3>1. deaths["producer"] \in Nat /\ Places - Cardinality(Known) + ToRepeat <= deaths["producer"]
            BY <1>0 DEF RepeatedOnlyByDeaths, TypeOK, Sides
        <3>2. Places - Cardinality(Known) + ToRepeat' <= deaths["producer"] + 1
            BY <2>2, <2>3, <3>1
        <3> QED BY <1>2, <2>1, <2>5, <3>2 DEF RepeatedOnlyByDeaths
    <2> QED BY <2>4, <2>5
<1> QED BY <1>3, <1>4, <1>5, <1>6

(* Nothing is written, read or lost yet. *)
LEMMA InitIInv == Init => IInv
<1> SUFFICES ASSUME Init PROVE IInv
    OBVIOUS
<1> USE SimpleSizeAssumption, SimpleBoundAssumption DEF Init
<1>1. TypeOK /\ Roles /\ HeadsOrdered /\ SeenIsPast /\ ProducerPlace /\ ConsumerPlace
    BY DEF TypeOK, Sides, Roles, HeadsOrdered, SeenIsPast, ProducerPlace, ConsumerPlace
<1>2. InRing = {} /\ InHand = {} /\ Delivered = {} /\ Known = {}
    BY DEF Sides, InRing, InHand, Delivered, Known
<1>3. KnownAreOffered /\ InOrder
    BY <1>2 DEF KnownAreOffered, InOrder
<1>4. Completed = 0 /\ ToRepeat = 0 /\ Places = 0
    BY <1>2, FS_EmptySet DEF Completed, ToRepeat, Places, Sides
<1>5. (1 .. Completed) \ Known = {}
    BY <1>4
<1>6. LostOnlyByDeaths /\ RepeatedOnlyByDeaths
    BY <1>2, <1>4, <1>5, FS_EmptySet DEF LostOnlyByDeaths, RepeatedOnlyByDeaths, Sides
<1> QED BY <1>1, <1>3, <1>6 DEF IInv

(* No step leaves the inductive invariant.                                 *)
LEMMA StepIInv == IInv /\ [Next]_vars => IInv'
<1> SUFFICES ASSUME IInv, [Next]_vars PROVE IInv'
    OBVIOUS
<1> USE SimpleSizeAssumption, SimpleBoundAssumption, SimpleNoItemAssumption
<1> USE DEF Step, Sides, shared, private, history
<1>0. /\ TypeOK /\ Roles /\ HeadsOrdered /\ SeenIsPast /\ ProducerPlace /\ ConsumerPlace
      /\ KnownAreOffered /\ InOrder /\ LostOnlyByDeaths /\ RepeatedOnlyByDeaths
    BY DEF IInv
<1>1. CASE LoadReadHead
    <2>1. TypeOK' /\ Roles' /\ HeadsOrdered' /\ SeenIsPast' /\ ProducerPlace' /\ ConsumerPlace'
        BY <1>0, <1>1 DEF LoadReadHead, TypeOK, Roles, HeadsOrdered, SeenIsPast, ProducerPlace, ConsumerPlace
    <2>2. KnownAreOffered' /\ InOrder' /\ LostOnlyByDeaths' /\ RepeatedOnlyByDeaths'
        BY <1>0, <1>1, <2>1, KnownStays DEF LoadReadHead, TypeOK, InHand
    <2> QED BY <2>1, <2>2 DEF IInv
<1>2. CASE ReportFull
    <2>1. TypeOK' /\ Roles' /\ HeadsOrdered' /\ SeenIsPast' /\ ProducerPlace' /\ ConsumerPlace'
        BY <1>0, <1>2 DEF ReportFull, TypeOK, Roles, HeadsOrdered, SeenIsPast, ProducerPlace, ConsumerPlace
    <2>2. KnownAreOffered' /\ InOrder' /\ LostOnlyByDeaths' /\ RepeatedOnlyByDeaths'
        BY <1>0, <1>2, <2>1, KnownStays DEF ReportFull, TypeOK, InHand
    <2> QED BY <2>1, <2>2 DEF IInv
<1>3. CASE SeeRoom
    <2>1. TypeOK' /\ Roles' /\ HeadsOrdered' /\ SeenIsPast' /\ ProducerPlace' /\ ConsumerPlace'
        BY <1>0, <1>3 DEF SeeRoom, TypeOK, Roles, HeadsOrdered, SeenIsPast, ProducerPlace, ConsumerPlace
    <2>2. KnownAreOffered' /\ InOrder' /\ LostOnlyByDeaths' /\ RepeatedOnlyByDeaths'
        BY <1>0, <1>3, <2>1, KnownStays DEF SeeRoom, TypeOK, InHand
    <2> QED BY <2>1, <2>2 DEF IInv
<1>4. CASE StoreItem
    <2>1. w_h_cache = write_head /\ write_head < read_head + Size
          /\ Slot(write_head) \in 0 .. Size - 1
        BY <1>0, <1>4, SlotInRange DEF StoreItem, TypeOK, ProducerPlace
    <2>2. \A i \in read_head .. write_head - 1 :
             array'[Slot(i)] = array[Slot(i)] /\ Slot(i) # Slot(write_head)
        <3> TAKE i \in read_head .. write_head - 1
        <3>1. i \in Nat /\ write_head \in Nat /\ i < write_head /\ write_head < i + Size
            BY <1>0, <2>1 DEF TypeOK
        <3>2. Slot(i) # Slot(write_head) /\ Slot(i) \in 0 .. Size - 1
            BY <3>1, SlotsDiffer, SlotInRange
        <3> QED BY <1>0, <1>4, <2>1, <3>2 DEF StoreItem, TypeOK
    <2>3. TypeOK'
        BY <1>0, <1>4, <2>1 DEF StoreItem, TypeOK
    <2>4. ConsumerPlace'
        <3>1. CASE pc["consumer"] = "fetched"
            <4>1. read_head \in read_head .. write_head - 1
                BY <1>0, <3>1 DEF ConsumerPlace, TypeOK
            <4> QED BY <1>0, <1>4, <2>2, <3>1, <4>1 DEF StoreItem, ConsumerPlace, TypeOK, Slot
        <3>2. CASE pc["consumer"] # "fetched"
            BY <1>0, <1>4, <3>2 DEF StoreItem, ConsumerPlace, TypeOK
        <3> QED BY <3>1, <3>2
    <2>5. Roles' /\ HeadsOrdered' /\ SeenIsPast' /\ ProducerPlace'
        BY <1>0, <1>4, <2>1 DEF StoreItem, TypeOK, Roles, HeadsOrdered, SeenIsPast, ProducerPlace, Slot
    <2>6. KnownAreOffered' /\ InOrder' /\ LostOnlyByDeaths' /\ RepeatedOnlyByDeaths'
        BY <1>0, <1>4, <2>2, <2>3, KnownStays DEF StoreItem, TypeOK, InHand
    <2> QED BY <2>3, <2>4, <2>5, <2>6 DEF IInv
<1>5. CASE PublishWriteHead
    <2>1. /\ write_head' = write_head + 1 /\ write_head < read_head + Size
          /\ array[Slot(write_head)] = accepted + 1 /\ accepted < MaxWrites
          /\ pc["producer"] = "stored" /\ pc'["producer"] = "done"
        BY <1>0, <1>5 DEF PublishWriteHead, TypeOK, ProducerPlace
    <2>2. TypeOK' /\ Roles' /\ HeadsOrdered' /\ SeenIsPast' /\ ProducerPlace' /\ ConsumerPlace'
        BY <1>0, <1>5, <2>1
        DEF PublishWriteHead, TypeOK, Roles, HeadsOrdered, SeenIsPast, ProducerPlace, ConsumerPlace
    <2>3. read_head .. write_head' - 1 = (read_head .. write_head - 1) \cup {write_head}
        BY <1>0, <2>1 DEF TypeOK, HeadsOrdered
    <2>4. InRing' = InRing \cup {accepted + 1}
        BY <1>5, <2>1, <2>3 DEF PublishWriteHead, InRing, Slot
    <2>5. /\ InHand' = InHand /\ Delivered' = Delivered
          /\ Known' = Known \cup {accepted + 1}
        BY <1>0, <1>5, <2>4 DEF PublishWriteHead, TypeOK, InHand, Delivered, Known
    <2>6. KnownAreOffered'
        BY <1>0, <1>5, <2>1, <2>5 DEF PublishWriteHead, TypeOK, KnownAreOffered
    <2>7. InOrder'
        <3>1. \A item \in Known : item <= accepted + 1
            BY <1>0 DEF KnownAreOffered
        <3>2. /\ \A i \in 1 .. Len(received) : received[i] \in Known
              /\ InHand \subseteq Known /\ InRing \subseteq Known
            BY DEF Known, Delivered
        <3>3. \A i \in read_head .. write_head - 1 : array[Slot(i)] \in Known
            BY DEF Known, InRing
        <3>4. \A i, j \in read_head .. write_head' - 1 : i < j => array[Slot(i)] <= array[Slot(j)]
            <4> TAKE i, j \in read_head .. write_head' - 1
            <4> HAVE i < j
            <4>1. i \in read_head .. write_head - 1
                BY <1>0, <2>1 DEF TypeOK
            <4>2. CASE j = write_head
                BY <2>1, <3>1, <3>3, <4>1, <4>2
            <4>3. CASE j # write_head
                BY <1>0, <2>3, <4>1, <4>3 DEF InOrder
            <4> QED BY <4>2, <4>3
        <3> QED BY <1>0, <1>5, <2>4, <2>5, <3>1, <3>2, <3>4 DEF PublishWriteHead, InOrder, Slot
    <2>8. LostOnlyByDeaths'
        <3>1. Completed = accepted /\ Completed' = accepted + 1
            BY <1>0, <1>5, <2>1 DEF PublishWriteHead, Completed, TypeOK
        <3>2. (1 .. Completed') \ Known' \in SUBSET ((1 .. Completed) \ Known)
            BY <1>0, <2>5, <3>1 DEF TypeOK
        <3>3. /\ IsFiniteSet((1 .. Completed) \ Known)
              /\ Cardinality((1 .. Completed) \ Known) \in Nat
            BY <1>0, KnownIsFinite
        <3>4. /\ Cardinality((1 .. Completed') \ Known') <= Cardinality((1 .. Completed) \ Known)
              /\ IsFiniteSet((1 .. Completed') \ Known')
            BY <3>2, <3>3, FS_Subset
        <3>5. Cardinality((1 .. Completed') \ Known') \in Nat
            BY <3>4, FS_CardinalityType
        <3> QED BY <1>0, <1>5, <3>3, <3>4, <3>5 DEF PublishWriteHead, LostOnlyByDeaths, TypeOK
    <2>9. RepeatedOnlyByDeaths'
        <3>1. /\ IsFiniteSet(Known) /\ Cardinality(Known) \in Nat
            BY <1>0, KnownIsFinite
        <3>2. Cardinality(Known') = IF accepted + 1 \in Known THEN Cardinality(Known)
                                                             ELSE Cardinality(Known) + 1
            BY <2>5, <3>1, FS_AddElement
        <3>3. Places \in Int /\ Places' = Places + 1
            <4>1. Cardinality(InHand) \in Nat /\ Len(received) \in Nat
                BY <1>0, HandSize, LenProperties DEF TypeOK
            <4> QED BY <1>0, <1>5, <2>1, <2>5, <4>1 DEF PublishWriteHead, Places, TypeOK
        <3>4. /\ ToRepeat = IF accepted + 1 \in Known THEN 1 ELSE 0
              /\ ToRepeat' = 0
            BY <1>5, <2>1 DEF PublishWriteHead, ToRepeat
        <3>5. Places - Cardinality(Known) + ToRepeat <= deaths["producer"]
            BY <1>0 DEF RepeatedOnlyByDeaths
        <3>6. Places' - Cardinality(Known') + ToRepeat' <= deaths["producer"]
            BY <1>0, <3>1, <3>2, <3>3, <3>4, <3>5 DEF TypeOK
        <3> QED BY <1>5, <3>6 DEF PublishWriteHead, RepeatedOnlyByDeaths
    <2> QED BY <2>2, <2>6, <2>7, <2>8, <2>9 DEF IInv
<1>6. CASE ReturnTrue
    <2>1. TypeOK' /\ Roles' /\ HeadsOrdered' /\ SeenIsPast' /\ ProducerPlace' /\ ConsumerPlace'
        BY <1>0, <1>6 DEF ReturnTrue, TypeOK, Roles, HeadsOrdered, SeenIsPast, ProducerPlace, ConsumerPlace
    <2>2. InRing' = InRing /\ InHand' = InHand /\ Delivered' = Delivered /\ Known' = Known
        BY <1>0, <1>6 DEF ReturnTrue, TypeOK, InRing, InHand, Delivered, Known, Slot
    <2>3. KnownAreOffered'
        BY <1>0, <1>6, <2>2 DEF ReturnTrue, TypeOK, KnownAreOffered
    <2>4. InOrder'
        BY <1>0, <1>6, <2>2 DEF ReturnTrue, InOrder, Slot
    <2>5. LostOnlyByDeaths'
        <3>1. Completed' = Completed
            BY <1>0, <1>6 DEF ReturnTrue, TypeOK, Completed
        <3> QED BY <1>0, <1>6, <2>2, <3>1 DEF ReturnTrue, LostOnlyByDeaths
    <2>6. RepeatedOnlyByDeaths'
        <3>1. accepted' + 1 \notin Known
            BY <1>0, <1>6 DEF ReturnTrue, TypeOK, KnownAreOffered
        <3>2. ToRepeat = 0 /\ ToRepeat' = 0
            BY <1>6, <2>2, <3>1 DEF ReturnTrue, ToRepeat
        <3>3. Places' = Places
            BY <1>6, <2>2 DEF ReturnTrue, Places
        <3> QED BY <1>0, <1>6, <2>2, <3>2, <3>3 DEF ReturnTrue, RepeatedOnlyByDeaths
    <2> QED BY <2>1, <2>3, <2>4, <2>5, <2>6 DEF IInv
<1>7. CASE LoadWriteHead
    <2>1. TypeOK' /\ Roles' /\ HeadsOrdered' /\ SeenIsPast' /\ ProducerPlace' /\ ConsumerPlace'
        BY <1>0, <1>7 DEF LoadWriteHead, TypeOK, Roles, HeadsOrdered, SeenIsPast, ProducerPlace, ConsumerPlace
    <2>2. KnownAreOffered' /\ InOrder' /\ LostOnlyByDeaths' /\ RepeatedOnlyByDeaths'
        BY <1>0, <1>7, <2>1, KnownStays DEF LoadWriteHead, TypeOK, InHand
    <2> QED BY <2>1, <2>2 DEF IInv
<1>8. CASE ReportEmpty
    <2>1. TypeOK' /\ Roles' /\ HeadsOrdered' /\ SeenIsPast' /\ ProducerPlace' /\ ConsumerPlace'
        BY <1>0, <1>8 DEF ReportEmpty, TypeOK, Roles, HeadsOrdered, SeenIsPast, ProducerPlace, ConsumerPlace
    <2>2. KnownAreOffered' /\ InOrder' /\ LostOnlyByDeaths' /\ RepeatedOnlyByDeaths'
        BY <1>0, <1>8, <2>1, KnownStays DEF ReportEmpty, TypeOK, InHand
    <2> QED BY <2>1, <2>2 DEF IInv
<1>9. CASE SeeItem
    <2>1. TypeOK' /\ Roles' /\ HeadsOrdered' /\ SeenIsPast' /\ ProducerPlace' /\ ConsumerPlace'
        BY <1>0, <1>9 DEF SeeItem, TypeOK, Roles, HeadsOrdered, SeenIsPast, ProducerPlace, ConsumerPlace
    <2>2. KnownAreOffered' /\ InOrder' /\ LostOnlyByDeaths' /\ RepeatedOnlyByDeaths'
        BY <1>0, <1>9, <2>1, KnownStays DEF SeeItem, TypeOK, InHand
    <2> QED BY <2>1, <2>2 DEF IInv
<1>10. CASE FetchItem
    <2>0. r_h_cache = read_head /\ array[Slot(read_head)] \in Nat \cup {NoItem}
        BY <1>0, <1>10, SlotInRange DEF FetchItem, ConsumerPlace, TypeOK
    <2>1. TypeOK' /\ Roles' /\ HeadsOrdered' /\ SeenIsPast' /\ ProducerPlace' /\ ConsumerPlace'
        BY <1>0, <1>10, <2>0
        DEF FetchItem, TypeOK, Roles, HeadsOrdered, SeenIsPast, ProducerPlace, ConsumerPlace, Slot
    <2>2. KnownAreOffered' /\ InOrder' /\ LostOnlyByDeaths' /\ RepeatedOnlyByDeaths'
        BY <1>0, <1>10, <2>1, KnownStays DEF FetchItem, TypeOK, InHand
    <2> QED BY <2>1, <2>2 DEF IInv
<1>11. CASE PublishReadHead
    <2>1. /\ read_head' = read_head + 1 /\ read_head < write_head
          /\ output = array[Slot(read_head)]
          /\ pc["consumer"] = "fetched" /\ pc'["consumer"] = "done"
        BY <1>0, <1>11 DEF PublishReadHead, TypeOK, ConsumerPlace
    <2>2. TypeOK' /\ Roles' /\ HeadsOrdered' /\ SeenIsPast' /\ ProducerPlace' /\ ConsumerPlace'
        BY <1>0, <1>11, <2>1
        DEF PublishReadHead, TypeOK, Roles, HeadsOrdered, SeenIsPast, ProducerPlace, ConsumerPlace
    <2>3. read_head .. write_head - 1 = (read_head' .. write_head - 1) \cup {read_head}
        BY <1>0, <2>1 DEF TypeOK
    <2>4. InRing = InRing' \cup {output} /\ InHand = {} /\ InHand' = {output}
        BY <1>11, <2>1, <2>3 DEF PublishReadHead, InRing, InHand, Slot
    <2>5. Delivered' = Delivered /\ Known' = Known
        BY <1>11, <2>4 DEF PublishReadHead, Delivered, Known
    <2>6. KnownAreOffered'
        BY <1>0, <1>11, <2>5 DEF PublishReadHead, KnownAreOffered
    <2>7. InOrder'
        <3>1. \A other \in InRing' : output <= other
            <4> SUFFICES ASSUME NEW j \in read_head' .. write_head - 1
                         PROVE  output <= array[Slot(j)]
                BY <1>11 DEF PublishReadHead, InRing, Slot
            <4>1. /\ j \in read_head .. write_head - 1 /\ read_head \in read_head .. write_head - 1
                  /\ read_head < j
                BY <1>0, <2>1, <2>3 DEF TypeOK
            <4> QED BY <1>0, <2>1, <4>1 DEF InOrder
        <3>2. \A i, j \in read_head' .. write_head - 1 : i < j => array[Slot(i)] <= array[Slot(j)]
            BY <1>0, <2>3 DEF InOrder
        <3> QED BY <1>0, <1>11, <2>4, <3>1, <3>2 DEF PublishReadHead, InOrder, Slot
    <2>8. LostOnlyByDeaths'
        BY <1>0, <1>11, <2>5 DEF PublishReadHead, LostOnlyByDeaths, Completed, TypeOK
    <2>9. RepeatedOnlyByDeaths'
        <3>1. Cardinality(InHand) = 0 /\ Cardinality(InHand') = 1
            BY <2>4, FS_EmptySet, FS_Singleton
        <3>2. Len(received) \in Nat
            BY <1>0, LenProperties DEF TypeOK
        <3>3. Places' = Places
            BY <1>0, <1>11, <2>1, <3>1, <3>2 DEF PublishReadHead, Places, TypeOK
        <3>4. ToRepeat' = ToRepeat
            BY <1>0, <1>11, <2>5 DEF PublishReadHead, ToRepeat, TypeOK
        <3> QED BY <1>0, <1>11, <2>5, <3>3, <3>4 DEF PublishReadHead, RepeatedOnlyByDeaths
    <2> QED BY <2>2, <2>6, <2>7, <2>8, <2>9 DEF IInv
<1>12. CASE ReturnItem
    <2>1. /\ InHand = {output} /\ InHand' = {} /\ InRing' = InRing
          /\ pc["consumer"] = "done" /\ pc'["consumer"] = "idle"
        BY <1>0, <1>12 DEF ReturnItem, TypeOK, InHand, InRing, Slot
    <2>2. output \in Nat
        BY <1>0, <2>1 DEF KnownAreOffered, Known
    <2>3. /\ received' \in Seq(Nat) /\ Len(received') = Len(received) + 1
          /\ \A i \in 1 .. Len(received) : received'[i] = received[i]
          /\ received'[Len(received) + 1] = output /\ Len(received) \in Nat
        BY <1>0, <1>12, <2>2, AppendProperties, LenProperties DEF ReturnItem, TypeOK
    <2>4. TypeOK' /\ Roles' /\ HeadsOrdered' /\ SeenIsPast' /\ ProducerPlace' /\ ConsumerPlace'
        BY <1>0, <1>12, <2>3
        DEF ReturnItem, TypeOK, Roles, HeadsOrdered, SeenIsPast, ProducerPlace, ConsumerPlace
    <2>5. Delivered' = Delivered \cup {output}
        <3>1. 1 .. Len(received') = (1 .. Len(received)) \cup {Len(received) + 1}
            BY <2>3
        <3> QED BY <2>3, <3>1 DEF Delivered
    <2>6. Known' = Known
        BY <2>1, <2>5 DEF Known
    <2>7. KnownAreOffered' /\ LostOnlyByDeaths'
        BY <1>0, <1>12, <2>6 DEF ReturnItem, KnownAreOffered, LostOnlyByDeaths, Completed, TypeOK
    <2>8. InOrder'
        <3>1. \A i, j \in 1 .. Len(received') : i < j => received'[i] <= received'[j]
            <4> TAKE i, j \in 1 .. Len(received')
            <4> HAVE i < j
            <4>1. i \in 1 .. Len(received) /\ received'[i] = received[i]
                BY <2>3
            <4>2. CASE j = Len(received) + 1
                BY <1>0, <2>1, <2>3, <4>1, <4>2 DEF InOrder
            <4>3. CASE j # Len(received) + 1
                <5>1. j \in 1 .. Len(received)
                    BY <2>3, <4>3
                <5>2. received'[j] = received[j]
                    BY <2>3, <5>1
                <5> QED BY <1>0, <4>1, <5>1, <5>2 DEF InOrder
            <4> QED BY <4>2, <4>3
        <3>2. \A i \in 1 .. Len(received') : \A item \in InRing : received'[i] <= item
            <4> TAKE i \in 1 .. Len(received')
            <4>1. CASE i = Len(received) + 1
                BY <1>0, <2>1, <2>3, <4>1 DEF InOrder
            <4>2. CASE i # Len(received) + 1
                BY <1>0, <2>3, <4>2 DEF InOrder
            <4> QED BY <4>1, <4>2
        <3> QED BY <1>0, <1>12, <2>1, <3>1, <3>2 DEF ReturnItem, InOrder, Slot
    <2>9. RepeatedOnlyByDeaths'
        <3>1. Cardinality(InHand) = 1 /\ Cardinality(InHand') = 0
            BY <2>1, FS_EmptySet, FS_Singleton
        <3>2. Places' = Places
            BY <1>0, <1>12, <2>3, <3>1 DEF ReturnItem, Places, TypeOK
        <3>3. ToRepeat' = ToRepeat
            BY <1>0, <1>12, <2>6 DEF ReturnItem, ToRepeat, TypeOK
        <3> QED BY <1>0, <1>12, <2>6, <3>2, <3>3 DEF ReturnItem, RepeatedOnlyByDeaths
    <2> QED BY <2>4, <2>7, <2>8, <2>9 DEF IInv
<1>13. CASE AttachProducer
    <2>1. TypeOK' /\ Roles' /\ HeadsOrdered' /\ SeenIsPast' /\ ProducerPlace' /\ ConsumerPlace'
        BY <1>0, <1>13 DEF AttachProducer, TypeOK, Roles, HeadsOrdered, SeenIsPast, ProducerPlace, ConsumerPlace
    <2>2. KnownAreOffered' /\ InOrder' /\ LostOnlyByDeaths' /\ RepeatedOnlyByDeaths'
        BY <1>0, <1>13, <2>1, KnownStays DEF AttachProducer, TypeOK, InHand
    <2> QED BY <2>1, <2>2 DEF IInv
<1>14. CASE AttachConsumer
    <2>1. TypeOK' /\ Roles' /\ HeadsOrdered' /\ SeenIsPast' /\ ProducerPlace' /\ ConsumerPlace'
        BY <1>0, <1>14 DEF AttachConsumer, TypeOK, Roles, HeadsOrdered, SeenIsPast, ProducerPlace, ConsumerPlace
    <2>2. KnownAreOffered' /\ InOrder' /\ LostOnlyByDeaths' /\ RepeatedOnlyByDeaths'
        BY <1>0, <1>14, <2>1, KnownStays DEF AttachConsumer, TypeOK, InHand
    <2> QED BY <2>1, <2>2 DEF IInv
<1>15. CASE Die("producer")
    <2>1. TypeOK' /\ Roles' /\ HeadsOrdered' /\ SeenIsPast' /\ ProducerPlace' /\ ConsumerPlace'
        BY <1>0, <1>15 DEF Die, TypeOK, Roles, HeadsOrdered, SeenIsPast, ProducerPlace, ConsumerPlace
    <2>2. KnownAreOffered' /\ InOrder' /\ LostOnlyByDeaths' /\ RepeatedOnlyByDeaths'
        BY <1>0, <1>15, <2>1, KnownStays DEF Die, TypeOK, InHand
    <2> QED BY <2>1, <2>2 DEF IInv
<1>16. CASE Die("consumer")
    <2>1. TypeOK' /\ Roles' /\ HeadsOrdered' /\ SeenIsPast' /\ ProducerPlace' /\ ConsumerPlace'
        BY <1>0, <1>16 DEF Die, TypeOK, Roles, HeadsOrdered, SeenIsPast, ProducerPlace, ConsumerPlace
    <2>2. CASE pc["consumer"] # "done"
        <3>1. KnownAreOffered' /\ InOrder' /\ LostOnlyByDeaths' /\ RepeatedOnlyByDeaths'
            BY <1>0, <1>16, <2>1, <2>2, KnownStays DEF Die, TypeOK, InHand
        <3> QED BY <2>1, <3>1 DEF IInv
    <2>3. CASE pc["consumer"] = "done"
        <3>1. InHand = {output} /\ InHand' = {} /\ InRing' = InRing /\ Delivered' = Delivered
            BY <1>0, <1>16, <2>3 DEF Die, TypeOK, InHand, InRing, Delivered, Slot
        <3>2. Known = Known' \cup {output}
            BY <3>1 DEF Known
        <3>3. KnownAreOffered' /\ InOrder'
            BY <1>0, <1>16, <3>1, <3>2 DEF Die, KnownAreOffered, InOrder, Slot
        <3>4. /\ IsFiniteSet(Known') /\ Cardinality(Known') \in Nat
              /\ Cardinality(Known) <= Cardinality(Known') + 1 /\ Cardinality(Known) \in Nat
            <4>1. IsFiniteSet(Known) /\ Cardinality(Known) \in Nat /\ Known' \in SUBSET Known
                BY <1>0, <3>2, KnownIsFinite
            <4>2. IsFiniteSet(Known')
                BY <4>1, FS_Subset
            <4>3. Cardinality(Known') \in Nat
                BY <4>2, FS_CardinalityType
            <4> QED BY <3>2, <4>1, <4>2, <4>3, FS_AddElement
        <3>5. deaths'["consumer"] = deaths["consumer"] + 1 /\ deaths'["producer"] = deaths["producer"]
            BY <1>0, <1>16 DEF Die, TypeOK
        <3>6. pc'["producer"] = pc["producer"] /\ accepted' = accepted
            BY <1>0, <1>16 DEF Die, TypeOK
        <3>7. LostOnlyByDeaths'
            <4> DEFINE missing == (1 .. Completed) \ Known
            <4>1. IsFiniteSet(missing) /\ Cardinality(missing) \in Nat
                BY <1>0, KnownIsFinite
            <4>2. /\ IsFiniteSet(missing \cup {output})
                  /\ Cardinality(missing \cup {output}) <= Cardinality(missing) + 1
                BY <4>1, FS_AddElement
            <4>3. Completed' = Completed /\ (1 .. Completed') \ Known' \in SUBSET (missing \cup {output})
                BY <3>2, <3>6 DEF Completed
            <4>4. /\ IsFiniteSet((1 .. Completed') \ Known')
                  /\ Cardinality((1 .. Completed') \ Known') <= Cardinality(missing \cup {output})
                BY <4>2, <4>3, FS_Subset
            <4>5. /\ Cardinality((1 .. Completed') \ Known') \in Nat
                  /\ Cardinality(missing \cup {output}) \in Nat
                BY <4>2, <4>4, FS_CardinalityType
            <4>6. Cardinality(missing) <= deaths["consumer"] /\ deaths["consumer"] \in Nat
                BY <1>0 DEF LostOnlyByDeaths, TypeOK
            <4> HIDE DEF missing
            <4> QED BY <3>5, <4>1, <4>2, <4>4, <4>5, <4>6 DEF LostOnlyByDeaths
        <3>8. RepeatedOnlyByDeaths'
            <4>1. Cardinality(InHand) = 1 /\ Cardinality(InHand') = 0 /\ Len(received) \in Nat
                BY <1>0, <3>1, FS_EmptySet, FS_Singleton, LenProperties DEF TypeOK
            <4>2. Places' = Places - 1 /\ Places \in Int
                BY <1>0, <1>16, <4>1 DEF Die, Places, TypeOK
            <4>3. ToRepeat' <= ToRepeat /\ ToRepeat \in {0, 1} /\ ToRepeat' \in {0, 1}
                BY <3>2, <3>6 DEF ToRepeat
            <4>4. Places - Cardinality(Known) + ToRepeat <= deaths["producer"]
                BY <1>0 DEF RepeatedOnlyByDeaths
            <4>5. Places' - Cardinality(Known') + ToRepeat' <= deaths["producer"]
                BY <1>0, <3>4, <4>2, <4>3, <4>4, SMTT(30) DEF TypeOK
            <4> QED BY <3>5, <4>5 DEF RepeatedOnlyByDeaths
        <3> QED BY <2>1, <3>3, <3>7, <3>8 DEF IInv
    <2> QED BY <2>2, <2>3
<1>17. CASE UNCHANGED vars
    BY <1>0, <1>17
    DEF vars, IInv, TypeOK, Roles, HeadsOrdered, SeenIsPast, ProducerPlace, ConsumerPlace,
        KnownAreOffered, InOrder, LostOnlyByDeaths, RepeatedOnlyByDeaths, Known, InRing, InHand,
        Delivered, Completed, Places, ToRepeat, Slot
<1> QED BY <1>1, <1>2, <1>3, <1>4, <1>5, <1>6, <1>7, <1>8, <1>9, <1>10, <1>11, <1>12, <1>13,
           <1>14, <1>15, <1>16, <1>17 DEF Next, Write, Read

(* The inductive invariant holds in every reachable state, for every       *)
(* capacity, every workload and every pattern of deaths and replacements.  *)
THEOREM Invariance == Spec => []IInv
<1>1. Init => IInv
    BY InitIInv
<1>2. IInv /\ [Next]_vars => IInv'
    BY StepIInv
<1> QED BY <1>1, <1>2, PTL DEF Spec

(* Type correctness: in particular read() of the simple ring returns       *)
(* items, never the content of a cell nobody wrote.                        *)
THEOREM TypeCorrect == Spec => []TypeOK
<1>1. IInv => TypeOK
    BY DEF IInv
<1> QED BY <1>1, Invariance, PTL

(* Data-race freedom of the plain copies in write() and read(): the side   *)
(* about to store and the side about to copy are in different cells.       *)
THEOREM NoRace == Spec => []NoCellRace
<1>1. IInv => NoCellRace
    <2> SUFFICES ASSUME IInv, pc["producer"] = "store", pc["consumer"] = "fetch"
                 PROVE  Slot(w_h_cache) # Slot(r_h_cache)
        BY DEF NoCellRace
    <2>1. /\ w_h_cache = write_head /\ r_h_cache = read_head
          /\ read_head < write_head /\ write_head < read_head + Size
          /\ read_head \in Nat /\ write_head \in Nat
        BY DEF IInv, TypeOK, ProducerPlace, ConsumerPlace
    <2> QED BY <2>1, SlotsDiffer
<1> QED BY <1>1, Invariance, PTL

(* The ring holds no more different items than there are indices between   *)
(* its heads.                                                              *)
LEMMA RingSize ==
    ASSUME TypeOK, HeadsOrdered
    PROVE  IsFiniteSet(InRing) /\ Cardinality(InRing) <= write_head - read_head
           /\ Cardinality(InRing) \in Nat
<1> DEFINE n == write_head - read_head
           item == [i \in 1 .. n |-> array[Slot(read_head + i - 1)]]
<1>1. n \in Nat
    BY DEF TypeOK, HeadsOrdered
<1>2. \A i \in 1 .. n : read_head + i - 1 \in read_head .. write_head - 1
    BY DEF TypeOK
<1>3. item \in [1 .. n -> InRing]
    BY <1>2 DEF InRing
<1>4. ASSUME NEW t \in InRing PROVE \E i \in 1 .. n : item[i] = t
    <2>1. PICK k \in read_head .. write_head - 1 : t = array[Slot(k)]
        BY <1>4 DEF InRing
    <2>2. k - read_head + 1 \in 1 .. n /\ read_head + (k - read_head + 1) - 1 = k
        BY <2>1 DEF TypeOK
    <2> QED BY <2>1, <2>2
<1>5. item \in Surjection(1 .. n, InRing)
    BY <1>3, <1>4 DEF Surjection
<1> HIDE DEF item
<1>6. ExistsSurjection(1 .. n, InRing)
    BY <1>5 DEF ExistsSurjection
<1>7. IsFiniteSet(1 .. n)
    BY <1>1, FS_Interval
<1>8. IsFiniteSet(InRing)
    BY <1>5, <1>7, FS_Surjection
<1> QED BY <1>1, <1>6, <1>8, FS_SurjCardinalityBound, FS_CardinalityType

(* Exactly once, up to deaths: items come out of read() in order, at most  *)
(* one item per death of the consumer is lost and at most one per death of *)
(* the producer is returned again.                                         *)
THEOREM ExactlyOnce == Spec => []ExactlyOnceUpToDeaths
<1>1. IInv => ExactlyOnceUpToDeaths
    <2> SUFFICES ASSUME IInv PROVE ExactlyOnceUpToDeaths
        OBVIOUS
    <2>0. /\ TypeOK /\ HeadsOrdered /\ KnownAreOffered /\ InOrder
          /\ LostOnlyByDeaths /\ RepeatedOnlyByDeaths
        BY DEF IInv
    <2>1. /\ IsFiniteSet(Known) /\ Cardinality(Known) \in Nat
          /\ IsFiniteSet((1 .. Completed) \ Known)
          /\ Cardinality((1 .. Completed) \ Known) \in Nat
        BY <2>0, KnownIsFinite
    <2>2. Cardinality((1 .. accepted) \ Known) <= deaths["consumer"]
        <3>1. (1 .. accepted) \ Known \in SUBSET ((1 .. Completed) \ Known)
            BY <2>0 DEF Completed, TypeOK
        <3>2. /\ Cardinality((1 .. accepted) \ Known) <= Cardinality((1 .. Completed) \ Known)
              /\ IsFiniteSet((1 .. accepted) \ Known)
            BY <2>1, <3>1, FS_Subset
        <3>3. Cardinality((1 .. accepted) \ Known) \in Nat
            BY <3>2, FS_CardinalityType
        <3> QED BY <2>0, <2>1, <3>2, <3>3 DEF LostOnlyByDeaths, TypeOK, Sides
    <2>3. Cardinality(Known) <= Cardinality(Delivered) + Cardinality(InHand) + (write_head - read_head)
        <3>1. IsFiniteSet(Delivered) /\ Cardinality(Delivered) \in Nat
            <4>1. Delivered \in SUBSET Known
                BY DEF Known
            <4>2. IsFiniteSet(Delivered)
                BY <2>1, <4>1, FS_Subset
            <4> QED BY <4>2, FS_CardinalityType
        <3>2. IsFiniteSet(InHand) /\ Cardinality(InHand) \in Nat
            BY HandSize
        <3>3. /\ IsFiniteSet(InRing) /\ Cardinality(InRing) \in Nat
              /\ Cardinality(InRing) <= write_head - read_head
            BY <2>0, RingSize
        <3>4. /\ IsFiniteSet(InRing \cup InHand) /\ Cardinality(InRing \cup InHand) \in Nat
              /\ Cardinality(InRing \cup InHand) <= Cardinality(InRing) + Cardinality(InHand)
            <4>1. IsFiniteSet(InRing \cap InHand)
                BY <3>3, FS_Intersection
            <4>2. Cardinality(InRing \cap InHand) \in Nat
                BY <4>1, FS_CardinalityType
            <4>3. /\ IsFiniteSet(InRing \cup InHand)
                  /\ Cardinality(InRing \cup InHand)
                       = Cardinality(InRing) + Cardinality(InHand) - Cardinality(InRing \cap InHand)
                BY <3>2, <3>3, FS_Union
            <4>4. Cardinality(InRing \cup InHand) \in Nat
                BY <4>3, FS_CardinalityType
            <4> QED BY <3>2, <3>3, <4>2, <4>3, <4>4
        <3>5. Cardinality(Known) <= Cardinality(InRing \cup InHand) + Cardinality(Delivered)
            <4> DEFINE held == InRing \cup InHand
            <4>1. IsFiniteSet(held \cap Delivered)
                BY <3>4, FS_Intersection
            <4>2. Cardinality(held \cap Delivered) \in Nat
                BY <4>1, FS_CardinalityType
            <4>3. Cardinality(held \cup Delivered)
                       = Cardinality(held) + Cardinality(Delivered) - Cardinality(held \cap Delivered)
                BY <3>1, <3>4, FS_Union
            <4>4. Known = held \cup Delivered
                BY DEF Known
            <4> HIDE DEF held
            <4>5. Cardinality(held) \in Nat
                BY <3>4 DEF held
            <4>6. Cardinality(Known) <= Cardinality(held) + Cardinality(Delivered)
                BY <3>1, <4>2, <4>3, <4>4, <4>5
            <4> QED BY <4>6 DEF held
        <3> QED BY <2>0, <2>1, <3>1, <3>2, <3>3, <3>4, <3>5 DEF TypeOK
    <2>4. Len(received) - Cardinality(Delivered) <= deaths["producer"]
        <3>1. IsFiniteSet(Delivered)
            BY <2>1, FS_Subset DEF Known
        <3>2. Cardinality(Delivered) \in Nat
            BY <3>1, FS_CardinalityType
        <3>3. Len(received) \in Nat /\ Cardinality(InHand) \in Nat
            BY <2>0, HandSize, LenProperties DEF TypeOK
        <3>4. ToRepeat \in {0, 1}
            BY DEF ToRepeat
        <3>5. deaths["producer"] \in Nat /\ write_head \in Nat /\ read_head \in Nat
            BY <2>0 DEF TypeOK, Sides
        <3>6. Len(received) + Cardinality(InHand) + (write_head - read_head) - Cardinality(Known)
                <= deaths["producer"]
            BY <2>0, <2>1, <3>3, <3>4, <3>5 DEF RepeatedOnlyByDeaths, Places
        <3> QED BY <2>1, <2>3, <3>2, <3>3, <3>5, <3>6
    <2> QED BY <2>0, <2>2, <2>4 DEF ExactlyOnceUpToDeaths, InOrder, Known
<1> QED BY <1>1, Invariance, PTL

-----------------------------------------------------------------------------
(* The mapped channel *)

ContentsAreItems ==
    /\ Contents \in Seq(1 .. MaxWrites)
    /\ Len(Contents) = write_head - read_head

(* What is between the heads is a sequence of items, one for each index.   *)
LEMMA ContentsFacts == IInv => ContentsAreItems
<1> SUFFICES ASSUME IInv PROVE ContentsAreItems
    OBVIOUS
<1>0. TypeOK /\ HeadsOrdered /\ KnownAreOffered
    BY DEF IInv
<1>1. ASSUME NEW i \in 1 .. write_head - read_head
      PROVE  array[Slot(read_head + i - 1)] \in 1 .. MaxWrites
    <2>1. read_head + i - 1 \in read_head .. write_head - 1
        BY <1>0 DEF TypeOK
    <2>2. array[Slot(read_head + i - 1)] \in Known
        BY <2>1 DEF Known, InRing
    <2> QED BY <1>0, <2>2 DEF KnownAreOffered
<1>2. write_head - read_head \in Nat
    BY <1>0 DEF TypeOK, HeadsOrdered
<1> DEFINE n == write_head - read_head
           cell(i) == array[Slot(read_head + i - 1)]
<1>3. Contents = [i \in 1 .. n |-> cell(i)] /\ n \in Nat
    BY <1>2 DEF Contents
<1>4. \A i \in 1 .. n : cell(i) \in 1 .. MaxWrites
    BY <1>1
<1> HIDE DEF n, cell
<1>5. Contents \in Seq(1 .. MaxWrites) /\ Len(Contents) = n
    BY <1>3, <1>4
<1> QED BY <1>5 DEF ContentsAreItems, n

(* Refinement, the safety half of RefinesChannel: whatever dies and is     *)
(* replaced, every step of the ring is a step of the bounded channel or    *)
(* leaves it alone.  The store of write_head is the moment an item enters  *)
(* and the store of read_head the moment the oldest one leaves; storing an *)
(* item changes a cell outside the channel.                                *)
THEOREM RefinementSafety == Spec => Channel!Spec
<1> USE SimpleSizeAssumption, SimpleBoundAssumption
<1>1. Init => Channel!Init
    BY DEF Init, Channel!Init, Contents
<1>2. IInv' => ContentsAreItems'
    BY ContentsFacts, PTL
<1>3. IInv /\ IInv' /\ [Next]_vars => [Channel!Next]_Contents
    <2> SUFFICES ASSUME IInv, IInv', [Next]_vars
                 PROVE  [Channel!Next]_Contents
        OBVIOUS
    <2> USE DEF Step, Sides, shared, private, history
    <2>0. TypeOK /\ HeadsOrdered /\ ProducerPlace /\ ConsumerPlace
        BY DEF IInv
    <2>1. Contents \in Seq(1 .. MaxWrites) /\ Len(Contents) = write_head - read_head
        BY ContentsFacts DEF ContentsAreItems
    <2>2. Contents' \in Seq(1 .. MaxWrites) /\ Len(Contents') = write_head' - read_head'
        BY <1>2 DEF ContentsAreItems
    <2>3. ASSUME UNCHANGED shared PROVE Contents' = Contents
        BY <2>3 DEF Contents, Slot
    <2>4. ASSUME StoreItem PROVE Contents' = Contents
        <3>1. w_h_cache = write_head /\ write_head < read_head + Size
            BY <2>0, <2>4 DEF StoreItem, ProducerPlace
        <3>2. ASSUME NEW i \in 1 .. write_head - read_head
              PROVE  array'[Slot(read_head + i - 1)] = array[Slot(read_head + i - 1)]
            <4>1. /\ read_head + i - 1 \in Nat /\ write_head \in Nat
                  /\ read_head + i - 1 < write_head /\ write_head < read_head + i - 1 + Size
                BY <2>0, <3>1 DEF TypeOK
            <4>2. Slot(read_head + i - 1) # Slot(write_head)
                BY <4>1, SlotsDiffer
            <4>3. Slot(read_head + i - 1) \in 0 .. Size - 1
                BY <4>1, SlotInRange
            <4> QED BY <2>0, <2>4, <3>1, <4>2, <4>3 DEF StoreItem, TypeOK
        <3>3. write_head' = write_head /\ read_head' = read_head
            BY <2>4 DEF StoreItem
        <3> QED BY <3>2, <3>3 DEF Contents, Slot
    <2>5. ASSUME PublishWriteHead PROVE Channel!Put(accepted + 1)
        <3> DEFINE next == Append(Contents, accepted + 1)
        <3>1. /\ write_head' = write_head + 1 /\ write_head < read_head + Size
              /\ read_head' = read_head /\ array' = array
              /\ array[Slot(write_head)] = accepted + 1 /\ accepted + 1 \in 1 .. MaxWrites
            BY <2>0, <2>5 DEF PublishWriteHead, ProducerPlace, TypeOK
        <3>2. Len(Contents) < Size
            BY <2>0, <2>1, <3>1 DEF TypeOK
        <3>3. /\ next \in Seq(1 .. MaxWrites) /\ Len(next) = Len(Contents) + 1
              /\ next[Len(Contents) + 1] = accepted + 1
              /\ \A i \in 1 .. Len(Contents) : next[i] = Contents[i]
            BY <2>1, <3>1, AppendProperties
        <3>4. Len(Contents') = Len(next)
            BY <2>0, <2>1, <2>2, <3>1, <3>3 DEF TypeOK
        <3>5. ASSUME NEW i \in 1 .. Len(Contents')
              PROVE  Contents'[i] = next[i]
            <4>1. Contents'[i] = array[Slot(read_head + i - 1)]
                BY <2>2, <3>1 DEF Contents, Slot
            <4>2. CASE i = Len(Contents) + 1
                <5>1. read_head + i - 1 = write_head
                    BY <2>0, <2>1, <4>2 DEF TypeOK
                <5> QED BY <3>1, <3>3, <4>1, <4>2, <5>1
            <4>3. CASE i # Len(Contents) + 1
                <5>1. i \in 1 .. Len(Contents) /\ i \in 1 .. write_head - read_head
                    BY <2>0, <2>1, <2>2, <3>1, <4>3 DEF TypeOK
                <5>2. Contents[i] = array[Slot(read_head + i - 1)]
                    BY <5>1 DEF Contents
                <5> QED BY <3>3, <4>1, <5>1, <5>2
            <4> QED BY <4>2, <4>3
        <3> HIDE DEF next
        <3>6. Contents' = next
            BY <2>2, <3>3, <3>4, <3>5, SeqEqual
        <3> QED BY <3>2, <3>6 DEF Channel!Put, next
    <2>6. ASSUME PublishReadHead PROVE Channel!Get
        <3>1. /\ read_head' = read_head + 1 /\ read_head < write_head
              /\ write_head' = write_head /\ array' = array
            BY <2>0, <2>6 DEF PublishReadHead, ConsumerPlace
        <3>2. Contents # << >>
            BY <2>0, <2>1, <3>1, EmptySeq DEF TypeOK
        <3>3. /\ Tail(Contents) \in Seq(1 .. MaxWrites)
              /\ Len(Tail(Contents)) = Len(Contents) - 1
              /\ \A i \in 1 .. Len(Tail(Contents)) : Tail(Contents)[i] = Contents[i + 1]
            BY <2>1, <3>2, HeadTailProperties
        <3>4. Len(Contents') = Len(Tail(Contents))
            BY <2>0, <2>1, <2>2, <3>1, <3>3 DEF TypeOK
        <3>5. ASSUME NEW i \in 1 .. Len(Contents')
              PROVE  Contents'[i] = Tail(Contents)[i]
            <4>1. Contents'[i] = array[Slot(read_head + 1 + i - 1)]
                BY <2>2, <3>1 DEF Contents, Slot
            <4>2. i + 1 \in 1 .. write_head - read_head
                BY <2>0, <2>2, <3>1 DEF TypeOK
            <4>3. Contents[i + 1] = array[Slot(read_head + (i + 1) - 1)]
                BY <4>2 DEF Contents
            <4>4. read_head + 1 + i - 1 = read_head + (i + 1) - 1
                BY <2>0 DEF TypeOK
            <4> QED BY <3>3, <3>4, <4>1, <4>3, <4>4
        <3>6. Contents' = Tail(Contents)
            BY <2>2, <3>3, <3>4, <3>5, SeqEqual
        <3> QED BY <3>2, <3>6 DEF Channel!Get
    <2>7. CASE Write
        <3>1. PublishWriteHead => accepted + 1 \in 1 .. MaxWrites
            BY <2>0 DEF PublishWriteHead, ProducerPlace, TypeOK
        <3> QED BY <2>3, <2>4, <2>5, <2>7, <3>1
                DEF Write, LoadReadHead, ReportFull, SeeRoom, ReturnTrue, Channel!Next
    <2>8. CASE Read
        BY <2>3, <2>6, <2>8
        DEF Read, LoadWriteHead, ReportEmpty, SeeItem, FetchItem, ReturnItem, Channel!Next
    <2>9. ASSUME AttachProducer \/ AttachConsumer \/ (\E s \in Sides : Die(s))
          PROVE  Contents' = Contents
        BY <2>3, <2>9 DEF AttachProducer, AttachConsumer, Die
    <2>10. CASE UNCHANGED vars
        BY <2>3, <2>10 DEF vars
    <2> QED BY <2>7, <2>8, <2>9, <2>10 DEF Next
<1> QED BY <1>1, <1>3, Invariance, PTL DEF Spec, Channel!Spec
=============================================================================
