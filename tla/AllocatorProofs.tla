-------------------------- MODULE AllocatorProofs --------------------------
(***************************************************************************)
(* Proofs about the two allocators.  OneTimeAllocator, for every set of    *)
(* processes, handles and mappings: IInv is inductive.  DynamicAllocator,  *)
(* for every set of processes, names and sizes and any number of entries,  *)
(* deaths and segments: DAInv is.  The invariants follow from them.        *)
(***************************************************************************)
EXTENDS OneTimeAllocator, DynamicAllocator, FiniteSetTheorems, TLAPS

-----------------------------------------------------------------------------
(* The one-time allocator: its inductive invariant *)

(* The count of a chunk is right.                                          *)
Counted(c) == IsFiniteSet(Owners(c)) /\ Cardinality(Owners(c)) = arc[c]

(* Nobody has a chunk that mmap has not returned yet.                      *)
Unused(c) ==
    \A q \in Processes : c \notin mapped[q] /\ \A h \in objects[q] : chunk[q][h] # c

IInv ==
    /\ TypeOK /\ OwnedIsMapped
    /\ \A c \in Chunks : Counted(c) /\ (c \notin used => Unused(c))

-----------------------------------------------------------------------------
(* Sets of places *)

(* What it is to be counted: the handle is there, points to the chunk, and *)
(* its process made it.                                                    *)
LEMMA InOwners ==
    ASSUME NEW c
    PROVE  \A x : x \in Owners(c) <=>
             \E p \in Processes, k \in Handles :
                /\ x = <<p, k>>
                /\ k \in objects[p] /\ chunk[p][k] = c /\ owner[p][k] = p
  BY DEF Owners

(* Replacing an element of a finite set leaves its size.                   *)
LEMMA Swapped ==
    ASSUME NEW S, IsFiniteSet(S), NEW x \in S, NEW y, y \notin S
    PROVE  /\ IsFiniteSet((S \ {x}) \cup {y})
           /\ Cardinality((S \ {x}) \cup {y}) = Cardinality(S)
  <1>1. IsFiniteSet(S \ {x}) /\ Cardinality(S \ {x}) = Cardinality(S) - 1
    BY FS_RemoveElement
  <1>2. y \notin S \ {x}
    OBVIOUS
  <1>3. Cardinality((S \ {x}) \cup {y}) = Cardinality(S \ {x}) + 1 /\ IsFiniteSet((S \ {x}) \cup {y})
    BY <1>1, <1>2, FS_AddElement
  <1> QED
    BY <1>1, <1>3, FS_CardinalityType

(* b and m are the counts and the mappings there would be without handle h *)
(* of q: each count is the number of the other owners, and what q owns by  *)
(* its other handles is mapped.                                            *)
Without(q, h, b, m) ==
    /\ b \in [Chunks -> Nat]
    /\ \A c \in Chunks : /\ IsFiniteSet(Owners(c) \ {<<q, h>>})
                         /\ b[c] = Cardinality(Owners(c) \ {<<q, h>>})
    /\ m \in [Processes -> SUBSET Chunks]
    /\ \A p \in Processes : m[p] \subseteq mapped[p] /\ (p # q => m[p] = mapped[p])
    /\ \A g \in objects[q] \ {h} : Owns(q, g) => chunk[q][g] \in m[q]

(* What deallocate() leaves of handle h: exactly its own count is taken,   *)
(* and every other handle its process owns still finds its chunk mapped,   *)
(* as the chunk is unmapped only when nobody else owned it.                *)
LEMMA Dropped ==
    ASSUME IInv, NEW q \in Processes, NEW h \in Handles, Has(q, h)
    PROVE  Without(q, h, DroppedArc(q, h), DroppedMap(q, h))
  <1> USE DEF Has
  <1>1. TypeOK /\ OwnedIsMapped /\ \A c \in Chunks : Counted(c)
    BY DEF IInv
  <1>2. CASE ~Owns(q, h)
    <2>1. DroppedArc(q, h) = arc /\ DroppedMap(q, h) = mapped
      BY <1>2 DEF DroppedArc, DroppedMap
    <2>2. \A c \in Chunks : <<q, h>> \notin Owners(c)
      BY <1>1, <1>2, NullAssumption, InOwners DEF Owns
    <2>3. \A c \in Chunks : Owners(c) \ {<<q, h>>} = Owners(c)
      BY <2>2
    <2> QED
      BY <1>1, <2>1, <2>3 DEF TypeOK, Counted, OwnedIsMapped, Without
  <1>3. CASE Owns(q, h)
    <2> DEFINE e == chunk[q][h]
               S == Owners(e)
    <2>1. e \in Chunks /\ owner[q][h] = q
      BY <1>1, <1>3 DEF Owns, TypeOK
    <2>2. <<q, h>> \in S
      BY <2>1, InOwners
    <2>3. \A c \in Chunks : c # e => <<q, h>> \notin Owners(c)
      BY InOwners
    <2>4. IsFiniteSet(S) /\ Cardinality(S) = arc[e] /\ arc[e] \in Nat
      BY <1>1, <2>1 DEF Counted, TypeOK
    <2>5. IsFiniteSet(S \ {<<q, h>>}) /\ Cardinality(S \ {<<q, h>>}) = arc[e] - 1
      BY <2>2, <2>4, FS_RemoveElement
    <2>6. Cardinality(S \ {<<q, h>>}) \in Nat
      BY <2>5, FS_CardinalityType
    <2>7. DroppedArc(q, h) = [arc EXCEPT ![e] = @ - 1]
      BY <1>3 DEF DroppedArc
    <2>8. DroppedArc(q, h) \in [Chunks -> Nat]
      BY <1>1, <2>1, <2>5, <2>6, <2>7 DEF TypeOK
    <2>9. ASSUME NEW c \in Chunks
          PROVE  /\ IsFiniteSet(Owners(c) \ {<<q, h>>})
                 /\ DroppedArc(q, h)[c] = Cardinality(Owners(c) \ {<<q, h>>})
      <3>1. CASE c = e
        BY <1>1, <2>1, <2>5, <2>7, <3>1 DEF TypeOK
      <3>2. CASE c # e
        <4>1. Owners(c) \ {<<q, h>>} = Owners(c)
          BY <2>3, <3>2
        <4>2. DroppedArc(q, h)[c] = arc[c]
          BY <1>1, <2>1, <2>7, <3>2 DEF TypeOK
        <4> QED
          BY <1>1, <4>1, <4>2 DEF Counted
      <3> QED
        BY <3>1, <3>2
    <2>10. /\ DroppedMap(q, h) \in [Processes -> SUBSET Chunks]
           /\ \A p \in Processes : /\ DroppedMap(q, h)[p] \subseteq mapped[p]
                                   /\ p # q => DroppedMap(q, h)[p] = mapped[p]
      BY <1>1 DEF DroppedMap, TypeOK
    <2>11. ASSUME NEW g \in objects[q] \ {h}, Owns(q, g)
           PROVE  chunk[q][g] \in DroppedMap(q, h)[q]
      <3>1. chunk[q][g] \in mapped[q] /\ g \in Handles /\ owner[q][g] = q
        BY <1>1, <2>11 DEF OwnedIsMapped, TypeOK, Owns
      <3>2. CASE chunk[q][g] # e
        BY <1>1, <3>1, <3>2 DEF DroppedMap, TypeOK
      <3>3. CASE chunk[q][g] = e
        <4>1. <<q, g>> \in S \ {<<q, h>>}
          BY <2>11, <3>1, <3>3, InOwners
        <4>2. Cardinality(S \ {<<q, h>>}) # 0
          BY <2>5, <4>1, FS_EmptySet
        <4>3. ~(arc[e] - 1 <= 0)
          BY <2>5, <2>6, <4>2
        <4>4. DroppedMap(q, h) = mapped
          BY <4>3 DEF DroppedMap
        <4> QED
          BY <3>1, <4>4
      <3> QED
        BY <3>2, <3>3
    <2> HIDE DEF e, S
    <2> QED
      BY <2>8, <2>9, <2>10, <2>11 DEF Without
  <1> QED
    BY <1>2, <1>3

(* The same, after a step.                                                 *)
LEMMA InOwnersNext ==
    ASSUME NEW c
    PROVE  \A x : x \in Owners(c)' <=>
             \E p \in Processes, k \in Handles :
                /\ x = <<p, k>>
                /\ k \in objects'[p] /\ chunk'[p][k] = c /\ owner'[p][k] = p
  BY DEF Owners

(* When the step changes no handle's claim on a chunk, its owners stay.    *)
LEMMA SameOwners ==
    ASSUME NEW d,
           \A p \in Processes, k \in Handles :
               k \in objects'[p] /\ chunk'[p][k] = d /\ owner'[p][k] = p
               <=> k \in objects[p] /\ chunk[p][k] = d /\ owner[p][k] = p
    PROVE  Owners(d)' = Owners(d)
  <1>1. \A x \in Processes \X Handles : x[1] \in Processes /\ x[2] \in Handles
    OBVIOUS
  <1> QED
    BY <1>1 DEF Owners

(* Set changes the members of one handle.                                  *)
LEMMA SetAt ==
    ASSUME TypeOK, NEW q \in Processes, NEW h \in Handles,
           NEW c \in Chunks \cup {NoChunk}, NEW pid \in Processes \cup {Nobody},
           Set(q, h, c, pid)
    PROVE  /\ chunk' \in [Processes -> [Handles -> Chunks \cup {NoChunk}]]
           /\ owner' \in [Processes -> [Handles -> Processes \cup {Nobody}]]
           /\ chunk'[q][h] = c /\ owner'[q][h] = pid
           /\ \A p \in Processes, k \in Handles :
                 p # q \/ k # h => chunk'[p][k] = chunk[p][k] /\ owner'[p][k] = owner[p][k]
  BY DEF Set, TypeOK

(* A move: h takes over what g had.                                        *)
Moved(q, h, g) ==
    /\ chunk' \in [Processes -> [Handles -> Chunks \cup {NoChunk}]]
    /\ owner' \in [Processes -> [Handles -> Processes \cup {Nobody}]]
    /\ chunk'[q][h] = chunk[q][g] /\ owner'[q][h] = owner[q][g]
    /\ chunk'[q][g] = NoChunk /\ owner'[q][g] = Nobody
    /\ \A p \in Processes, k \in Handles :
          p # q \/ (k # h /\ k # g) =>
             chunk'[p][k] = chunk[p][k] /\ owner'[p][k] = owner[p][k]

(* Which is what the moves assign.                                         *)
LEMMA MovedAt ==
    ASSUME TypeOK, NEW q \in Processes, NEW h \in Handles, NEW g \in Handles, g # h,
           chunk' = [chunk EXCEPT ![q][h] = chunk[q][g], ![q][g] = NoChunk],
           owner' = [owner EXCEPT ![q][h] = owner[q][g], ![q][g] = Nobody]
    PROVE  Moved(q, h, g)
  BY DEF TypeOK, Moved

-----------------------------------------------------------------------------
(* The invariant, action by action *)

(* Initially there is no handle and no mapping.                            *)
LEMMA InitIInv == Init => IInv
  <1> SUFFICES ASSUME Init PROVE IInv
    OBVIOUS
  <1>1. TypeOK /\ OwnedIsMapped
    BY FirstAssumption DEF Init, TypeOK, OwnedIsMapped
  <1>2. ASSUME NEW c \in Chunks PROVE Counted(c) /\ Unused(c)
    <2>1. Owners(c) = {}
      BY InOwners DEF Init
    <2> QED
      BY <2>1, FS_EmptySet DEF Counted, Unused, Init
  <1> QED
    BY <1>1, <1>2 DEF IInv

(* The default constructor makes a handle on nothing.                      *)
LEMMA ConstructIInv ==
    ASSUME IInv, NEW q \in Processes, NEW h \in Handles, Construct(q, h)
    PROVE  IInv'
  <1>1. TypeOK /\ OwnedIsMapped /\ h \notin objects[q] /\ q \in alive
    BY DEF IInv, Construct, Free
  <1>2. /\ objects' = [objects EXCEPT ![q] = @ \cup {h}]
        /\ alive' = alive /\ mapped' = mapped /\ arc' = arc /\ used' = used
        /\ Set(q, h, NoChunk, Nobody)
    BY DEF Construct
  <1>3. /\ chunk' \in [Processes -> [Handles -> Chunks \cup {NoChunk}]]
        /\ owner' \in [Processes -> [Handles -> Processes \cup {Nobody}]]
        /\ chunk'[q][h] = NoChunk /\ owner'[q][h] = Nobody
        /\ \A p \in Processes, k \in Handles :
              p # q \/ k # h => chunk'[p][k] = chunk[p][k] /\ owner'[p][k] = owner[p][k]
    BY <1>1, <1>2, SetAt
  <1>4. TypeOK'
    BY <1>1, <1>2, <1>3 DEF TypeOK
  <1>5. OwnedIsMapped'
    BY <1>1, <1>2, <1>3 DEF TypeOK, OwnedIsMapped, Owns, Has
  <1>6. ASSUME NEW d \in Chunks PROVE (Counted(d) /\ (d \notin used => Unused(d)))'
    <2>1. Owners(d)' = Owners(d)
      <3>1. \A p \in Processes, k \in Handles :
               k \in objects'[p] /\ chunk'[p][k] = d /\ owner'[p][k] = p
               <=> k \in objects[p] /\ chunk[p][k] = d /\ owner[p][k] = p
        BY <1>1, <1>2, <1>3, NullAssumption DEF TypeOK
      <3> QED
        BY <3>1, SameOwners
    <2>2. Counted(d)'
      BY <1>2, <2>1 DEF IInv, Counted
    <2>3. (d \notin used => Unused(d))'
      BY <1>1, <1>2, <1>3, NullAssumption DEF IInv, Unused, TypeOK
    <2> QED
      BY <2>2, <2>3
  <1> QED
    BY <1>4, <1>5, <1>6 DEF IInv

(* allocate() counts its handle in a chunk no handle was on.               *)
LEMMA AllocateIInv ==
    ASSUME IInv, NEW q \in Processes, NEW h \in Handles, NEW c \in Chunks, Allocate(q, h, c)
    PROVE  IInv'
  <1>1. /\ TypeOK /\ OwnedIsMapped /\ h \in objects[q] /\ q \in alive
        /\ chunk[q][h] = NoChunk /\ c \notin used /\ Unused(c)
    BY DEF IInv, Allocate, Has
  <1>2. /\ mapped' = [mapped EXCEPT ![q] = @ \cup {c}]
        /\ arc' = [arc EXCEPT ![c] = 1]
        /\ used' = used \cup {c}
        /\ alive' = alive /\ objects' = objects
        /\ Set(q, h, c, q)
    BY DEF Allocate
  <1>3. /\ chunk' \in [Processes -> [Handles -> Chunks \cup {NoChunk}]]
        /\ owner' \in [Processes -> [Handles -> Processes \cup {Nobody}]]
        /\ chunk'[q][h] = c /\ owner'[q][h] = q
        /\ \A p \in Processes, k \in Handles :
              p # q \/ k # h => chunk'[p][k] = chunk[p][k] /\ owner'[p][k] = owner[p][k]
    BY <1>1, <1>2, SetAt
  <1>4. TypeOK'
    BY <1>1, <1>2, <1>3 DEF TypeOK
  <1>5. OwnedIsMapped'
    <2> SUFFICES ASSUME NEW p \in alive', NEW k \in objects'[p], Owns(p, k)'
                 PROVE  chunk'[p][k] \in mapped'[p]
      BY DEF OwnedIsMapped
    <2>1. p \in Processes /\ p \in alive /\ k \in Handles /\ k \in objects[p]
      BY <1>1, <1>2 DEF TypeOK
    <2>2. CASE p = q /\ k = h
      BY <1>1, <1>2, <1>3, <2>2 DEF TypeOK
    <2>3. CASE p # q \/ k # h
      <3>1. chunk'[p][k] = chunk[p][k] /\ Owns(p, k)
        BY <1>2, <1>3, <2>1, <2>3 DEF Owns, Has
      <3> QED
        BY <1>1, <1>2, <2>1, <3>1 DEF OwnedIsMapped, TypeOK
    <2> QED
      BY <2>2, <2>3
  <1>6. ASSUME NEW d \in Chunks PROVE (Counted(d) /\ (d \notin used => Unused(d)))'
    <2>1. CASE d = c
      <3>1. Owners(d)' = {<<q, h>>}
        BY <1>1, <1>2, <1>3, <2>1, InOwnersNext DEF TypeOK, Unused
      <3>2. arc'[d] = 1
        BY <1>1, <1>2, <2>1 DEF TypeOK
      <3> QED
        BY <1>2, <2>1, <3>1, <3>2, FS_Singleton DEF Counted
    <2>2. CASE d # c
      <3>1. Owners(d)' = Owners(d)
        <4>1. \A p \in Processes, k \in Handles :
                 k \in objects'[p] /\ chunk'[p][k] = d /\ owner'[p][k] = p
                 <=> k \in objects[p] /\ chunk[p][k] = d /\ owner[p][k] = p
          <5>1. chunk'[q][h] # d /\ chunk[q][h] # d
            BY <1>1, <1>3, <2>2, NullAssumption
          <5> QED
            BY <1>2, <1>3, <5>1
        <4> QED
          BY <4>1, SameOwners
      <3>2. arc'[d] = arc[d]
        BY <1>1, <1>2, <2>2 DEF TypeOK
      <3>3. (d \notin used => Unused(d))'
        BY <1>1, <1>2, <1>3, <2>2 DEF IInv, Unused, TypeOK
      <3> QED
        BY <3>1, <3>2, <3>3 DEF IInv, Counted
    <2> QED
      BY <2>1, <2>2
  <1> QED
    BY <1>4, <1>5, <1>6 DEF IInv

(* A step that drops handle h and leaves it on nothing, or gone.           *)
LEMMA DropIInv ==
    ASSUME IInv, NEW q \in Processes, NEW h \in Handles, Has(q, h),
           NEW pid \in Processes \cup {Nobody},
           arc' = DroppedArc(q, h), mapped' = DroppedMap(q, h), used' = used,
           Set(q, h, NoChunk, pid), alive' = alive,
           objects' \in [Processes -> SUBSET Handles],
           \A p \in Processes : objects'[p] \subseteq objects[p],
           \A p \in Processes : \A k \in objects[p] : p # q \/ k # h => k \in objects'[p]
    PROVE  IInv'
  <1>1. TypeOK /\ OwnedIsMapped
    BY DEF IInv
  <1>2. /\ DroppedArc(q, h) \in [Chunks -> Nat]
        /\ \A c \in Chunks : /\ IsFiniteSet(Owners(c) \ {<<q, h>>})
                             /\ DroppedArc(q, h)[c] = Cardinality(Owners(c) \ {<<q, h>>})
        /\ DroppedMap(q, h) \in [Processes -> SUBSET Chunks]
        /\ \A p \in Processes : /\ DroppedMap(q, h)[p] \subseteq mapped[p]
                                /\ p # q => DroppedMap(q, h)[p] = mapped[p]
        /\ \A g \in objects[q] \ {h} : Owns(q, g) => chunk[q][g] \in DroppedMap(q, h)[q]
    BY Dropped DEF Without
  <1>3. /\ chunk' \in [Processes -> [Handles -> Chunks \cup {NoChunk}]]
        /\ owner' \in [Processes -> [Handles -> Processes \cup {Nobody}]]
        /\ chunk'[q][h] = NoChunk /\ owner'[q][h] = pid
        /\ \A p \in Processes, k \in Handles :
              p # q \/ k # h => chunk'[p][k] = chunk[p][k] /\ owner'[p][k] = owner[p][k]
    BY <1>1, SetAt
  <1>4. TypeOK'
    BY <1>1, <1>2, <1>3 DEF TypeOK
  <1>5. OwnedIsMapped'
    <2> SUFFICES ASSUME NEW p \in alive', NEW k \in objects'[p], Owns(p, k)'
                 PROVE  chunk'[p][k] \in mapped'[p]
      BY DEF OwnedIsMapped
    <2>1. p \in Processes /\ k \in Handles /\ k \in objects[p] /\ (p # q \/ k # h)
      BY <1>1, <1>3 DEF TypeOK, Owns
    <2>2. chunk'[p][k] = chunk[p][k] /\ Owns(p, k)
      BY <1>3, <2>1 DEF Owns, Has
    <2> QED
      BY <1>1, <1>2, <2>1, <2>2 DEF OwnedIsMapped, TypeOK
  <1>6. ASSUME NEW d \in Chunks PROVE (Counted(d) /\ (d \notin used => Unused(d)))'
    <2>1. Owners(d)' = Owners(d) \ {<<q, h>>}
      BY <1>1, <1>3, NullAssumption, InOwners, InOwnersNext DEF TypeOK
    <2>2. Counted(d)'
      BY <1>2, <2>1 DEF Counted
    <2>3. ASSUME d \notin used' PROVE Unused(d)'
      <3>1. Unused(d)
        BY <2>3 DEF IInv
      <3>2. \A p \in Processes : d \notin mapped'[p]
        BY <1>2, <3>1 DEF Unused
      <3>3. \A p \in Processes : \A k \in objects'[p] : chunk'[p][k] # d
        BY <1>1, <1>3, <3>1, NullAssumption, SMTT(30) DEF Unused, TypeOK
      <3> QED
        BY <3>2, <3>3 DEF Unused
    <2> QED
      BY <2>2, <2>3
  <1> QED
    BY <1>4, <1>5, <1>6 DEF IInv

(* deallocate(), the destructor, and the assignment of a handle to itself. *)
LEMMA DeallocateIInv ==
    ASSUME IInv, NEW q \in Processes, NEW h \in Handles, Deallocate(q, h) \/ Destroy(q, h)
    PROVE  IInv'
  <1>1. TypeOK /\ h \in Handles /\ Has(q, h) /\ owner[q][h] \in Processes \cup {Nobody}
    BY DEF IInv, TypeOK, Deallocate, Destroy
  <1>2. CASE Deallocate(q, h)
    BY <1>1, <1>2, DropIInv DEF Deallocate, TypeOK
  <1>3. CASE Destroy(q, h)
    <2>1. /\ objects' \in [Processes -> SUBSET Handles]
          /\ \A p \in Processes : objects'[p] \subseteq objects[p]
          /\ \A p \in Processes : \A k \in objects[p] : p # q \/ k # h => k \in objects'[p]
      BY <1>1, <1>3 DEF Destroy, TypeOK
    <2> QED
      BY <1>1, <1>3, <2>1, DropIInv DEF Destroy
  <1> QED
    BY <1>2, <1>3

(* A place with no handle counts for nothing already.                      *)
LEMMA Unheld ==
    ASSUME IInv, NEW q \in Processes, NEW h \in Handles, Free(q, h)
    PROVE  Without(q, h, arc, mapped)
  <1>1. TypeOK /\ OwnedIsMapped /\ q \in alive /\ h \notin objects[q]
    BY DEF IInv, Free
  <1>2. \A c \in Chunks : Owners(c) \ {<<q, h>>} = Owners(c)
    BY <1>1, InOwners
  <1> QED
    BY <1>1, <1>2 DEF IInv, Counted, Without, OwnedIsMapped, TypeOK

(* A step that makes h, whatever it was before, a new owner of c.          *)
LEMMA GainIInv ==
    ASSUME IInv, NEW q \in Processes, NEW h \in Handles, q \in alive,
           NEW b, NEW m, Without(q, h, b, m),
           NEW g \in objects[q], NEW c \in Chunks, c = chunk[q][g], c \in m[q],
           arc' = [b EXCEPT ![c] = @ + 1], mapped' = m, used' = used, alive' = alive,
           objects' = [objects EXCEPT ![q] = @ \cup {h}],
           Set(q, h, c, q)
    PROVE  IInv'
  <1>1. TypeOK /\ OwnedIsMapped
    BY DEF IInv
  <1>2. /\ b \in [Chunks -> Nat]
        /\ m \in [Processes -> SUBSET Chunks]
        /\ \A p \in Processes : m[p] \subseteq mapped[p] /\ (p # q => m[p] = mapped[p])
        /\ \A k \in objects[q] \ {h} : Owns(q, k) => chunk[q][k] \in m[q]
    BY DEF Without
  <1>3. /\ chunk' \in [Processes -> [Handles -> Chunks \cup {NoChunk}]]
        /\ owner' \in [Processes -> [Handles -> Processes \cup {Nobody}]]
        /\ chunk'[q][h] = c /\ owner'[q][h] = q
        /\ \A p \in Processes, k \in Handles :
              p # q \/ k # h => chunk'[p][k] = chunk[p][k] /\ owner'[p][k] = owner[p][k]
    BY <1>1, SetAt
  <1>4. TypeOK'
    BY <1>1, <1>2, <1>3 DEF TypeOK
  <1>5. OwnedIsMapped'
    <2> SUFFICES ASSUME NEW p \in alive', NEW k \in objects'[p], Owns(p, k)'
                 PROVE  chunk'[p][k] \in mapped'[p]
      BY DEF OwnedIsMapped
    <2>1. CASE p = q /\ k = h
      BY <1>3, <2>1
    <2>2. CASE p # q \/ k # h
      <3>1. p \in Processes /\ k \in Handles /\ p \in alive /\ k \in objects[p]
        BY <1>1, <2>2 DEF TypeOK
      <3>2. chunk'[p][k] = chunk[p][k] /\ Owns(p, k)
        BY <1>3, <2>2, <3>1 DEF Owns, Has
      <3>3. p # q \/ k \in objects[q] \ {h}
        BY <2>2, <3>1
      <3> QED
        BY <1>1, <1>2, <3>1, <3>2, <3>3 DEF OwnedIsMapped, TypeOK
    <2> QED
      BY <2>1, <2>2
  <1>6. ASSUME NEW d \in Chunks PROVE (Counted(d) /\ (d \notin used => Unused(d)))'
    <2> DEFINE O == Owners(d) \ {<<q, h>>}
    <2>1. IsFiniteSet(O) /\ b[d] = Cardinality(O)
      BY DEF Without
    <2>2. \A p \in Processes, k \in Handles :
             k \in objects'[p] /\ chunk'[p][k] = d /\ owner'[p][k] = p
             <=> \/ p = q /\ k = h /\ d = c
                 \/ (p # q \/ k # h) /\ k \in objects[p] /\ chunk[p][k] = d /\ owner[p][k] = p
      BY <1>1, <1>3 DEF TypeOK
    <2>3. Counted(d)'
      <3>1. CASE d = c
        <4>1. Owners(d)' = O \cup {<<q, h>>}
          BY <2>2, <3>1, InOwners, InOwnersNext
        <4>2. IsFiniteSet(O \cup {<<q, h>>}) /\ Cardinality(O \cup {<<q, h>>}) = Cardinality(O) + 1
          BY <2>1, FS_AddElement
        <4>3. arc'[d] = b[d] + 1
          BY <1>2, <3>1
        <4> QED
          BY <2>1, <4>1, <4>2, <4>3 DEF Counted
      <3>2. CASE d # c
        <4>1. Owners(d)' = O
          BY <2>2, <3>2, InOwners, InOwnersNext
        <4>2. arc'[d] = b[d]
          BY <1>2, <3>2
        <4> QED
          BY <2>1, <4>1, <4>2 DEF Counted
      <3> QED
        BY <3>1, <3>2
    <2>4. ASSUME d \notin used' PROVE Unused(d)'
      <3>1. Unused(d)
        BY <2>4 DEF IInv
      <3>2. \A p \in Processes : d \notin mapped'[p]
        BY <1>2, <3>1 DEF Unused
      <3>3. d # c
        BY <3>1 DEF Unused
      <3>4. \A p \in Processes : \A k \in objects'[p] : chunk'[p][k] # d
        BY <1>1, <1>3, <3>1, <3>3 DEF Unused, TypeOK
      <3> QED
        BY <3>2, <3>4 DEF Unused
    <2> QED
      BY <2>3, <2>4
  <1> QED
    BY <1>4, <1>5, <1>6 DEF IInv

(* A step that makes h, whatever it was before, what g was.                *)
LEMMA MoveIInv ==
    ASSUME IInv, NEW q \in Processes, NEW h \in Handles, q \in alive,
           NEW b, NEW m, Without(q, h, b, m),
           NEW g \in objects[q], g # h,
           arc' = b, mapped' = m, used' = used, alive' = alive,
           objects' = [objects EXCEPT ![q] = @ \cup {h}],
           Moved(q, h, g)
    PROVE  IInv'
  <1>1. TypeOK /\ OwnedIsMapped /\ g \in Handles
    BY DEF IInv, TypeOK
  <1>2. /\ b \in [Chunks -> Nat]
        /\ m \in [Processes -> SUBSET Chunks]
        /\ \A p \in Processes : m[p] \subseteq mapped[p] /\ (p # q => m[p] = mapped[p])
        /\ \A k \in objects[q] \ {h} : Owns(q, k) => chunk[q][k] \in m[q]
    BY DEF Without
  <1>3. /\ chunk' \in [Processes -> [Handles -> Chunks \cup {NoChunk}]]
        /\ owner' \in [Processes -> [Handles -> Processes \cup {Nobody}]]
        /\ chunk'[q][h] = chunk[q][g] /\ owner'[q][h] = owner[q][g]
        /\ chunk'[q][g] = NoChunk /\ owner'[q][g] = Nobody
        /\ \A p \in Processes, k \in Handles :
              p # q \/ (k # h /\ k # g) =>
                 chunk'[p][k] = chunk[p][k] /\ owner'[p][k] = owner[p][k]
    BY DEF Moved
  <1>4. TypeOK'
    <2>1. objects' \in [Processes -> SUBSET Handles]
      BY <1>1 DEF TypeOK
    <2> QED
      BY <1>1, <1>2, <1>3, <2>1 DEF TypeOK
  <1>5. OwnedIsMapped'
    <2> SUFFICES ASSUME NEW p \in alive', NEW k \in objects'[p], Owns(p, k)'
                 PROVE  chunk'[p][k] \in mapped'[p]
      BY DEF OwnedIsMapped
    <2>1. CASE p = q /\ k = h
      <3>1. chunk'[p][k] = chunk[q][g] /\ Owns(q, g)
        BY <1>3, <2>1 DEF Owns, Has
      <3> QED
        BY <1>2, <2>1, <3>1
    <2>2. CASE p = q /\ k = g
      BY <1>3, <2>2 DEF Owns
    <2>3. CASE p # q \/ (k # h /\ k # g)
      <3>1. p \in Processes /\ k \in Handles /\ p \in alive /\ k \in objects[p]
        BY <1>1, <2>3 DEF TypeOK
      <3>2. chunk'[p][k] = chunk[p][k] /\ Owns(p, k)
        BY <1>3, <2>3, <3>1 DEF Owns, Has
      <3>3. p # q \/ k \in objects[q] \ {h}
        BY <2>3, <3>1
      <3> QED
        BY <1>1, <1>2, <3>1, <3>2, <3>3 DEF OwnedIsMapped, TypeOK
    <2> QED
      BY <2>1, <2>2, <2>3
  <1>6. ASSUME NEW d \in Chunks PROVE (Counted(d) /\ (d \notin used => Unused(d)))'
    <2> PICK O : O = Owners(d) \ {<<q, h>>}
      OBVIOUS
    <2>1. IsFiniteSet(O) /\ b[d] = Cardinality(O)
      BY DEF Without
    <2>2. \A p \in Processes, k \in Handles :
             k \in objects'[p] /\ chunk'[p][k] = d /\ owner'[p][k] = p
             <=> \/ p = q /\ k = h /\ chunk[q][g] = d /\ owner[q][g] = q
                 \/ /\ p # q \/ (k # h /\ k # g)
                    /\ k \in objects[p] /\ chunk[p][k] = d /\ owner[p][k] = p
      <3>1. TAKE p \in Processes, k \in Handles
      <3>2. CASE p = q /\ k = h
        BY <1>1, <1>3, <3>2 DEF TypeOK
      <3>3. CASE p = q /\ k = g
        BY <1>1, <1>3, <3>3, NullAssumption
      <3>4. CASE p # q \/ (k # h /\ k # g)
        <4>1. k \in objects'[p] <=> k \in objects[p]
          BY <1>1, <3>4 DEF TypeOK
        <4> QED
          BY <1>3, <3>4, <4>1
      <3> QED
        BY <3>2, <3>3, <3>4
    <2> O \subseteq Processes \X Handles
      BY DEF Owners
    <2>5. \A p \in Processes, k \in Handles :
             <<p, k>> \in O <=> /\ p # q \/ k # h
                               /\ k \in objects[p] /\ chunk[p][k] = d /\ owner[p][k] = p
      BY InOwners
    <2>3. Counted(d)'
      <3>1. CASE chunk[q][g] = d /\ owner[q][g] = q
        <4>1. PICK x, y : x = <<q, g>> /\ y = <<q, h>>
          OBVIOUS
        <4>2. x \in O /\ y \notin O
          BY <1>1, <3>1, <4>1, InOwners
        <4>3. PICK N : N = (O \ {x}) \cup {y}
          OBVIOUS
        <4>4. IsFiniteSet(N) /\ Cardinality(N) = Cardinality(O)
          BY <2>1, <4>2, <4>3, Swapped
        <4>5. N \subseteq Processes \X Handles
          BY <1>1, <4>1, <4>3
        <4>6. ASSUME NEW p \in Processes, NEW k \in Handles
              PROVE  <<p, k>> \in N
                     <=> k \in objects'[p] /\ chunk'[p][k] = d /\ owner'[p][k] = p
          <5>1. CASE p = q /\ k = h
            BY <2>2, <3>1, <4>1, <4>3, <5>1
          <5>2. CASE p = q /\ k = g
            BY <2>2, <4>1, <4>3, <5>2
          <5>3. CASE p # q \/ (k # h /\ k # g)
            BY <2>2, <2>5, <4>1, <4>3, <5>3
          <5> QED
            BY <5>1, <5>2, <5>3
        <4>7. Owners(d)' = N
          <5>1. \A z \in Processes \X Handles :
                   z[1] \in Processes /\ z[2] \in Handles /\ z = <<z[1], z[2]>>
            OBVIOUS
          <5>2. \A z \in Processes \X Handles : z \in N <=> z \in Owners(d)'
            BY <4>6, <5>1 DEF Owners
          <5>3. Owners(d)' \subseteq Processes \X Handles
            BY DEF Owners
          <5> QED
            BY <4>5, <5>2, <5>3
        <4> QED
          BY <2>1, <4>4, <4>7 DEF Counted
      <3>2. CASE ~(chunk[q][g] = d /\ owner[q][g] = q)
        <4>1. Owners(d)' = O
          <5>1. \A p \in Processes, k \in Handles :
                   <<p, k>> \in O <=> k \in objects'[p] /\ chunk'[p][k] = d /\ owner'[p][k] = p
            <6>1. TAKE p \in Processes, k \in Handles
            <6>2. CASE p = q /\ k = h
              BY <2>2, <2>5, <3>2, <6>2
            <6>3. CASE p = q /\ k = g
              BY <2>2, <2>5, <3>2, <6>3
            <6>4. CASE p # q \/ (k # h /\ k # g)
              BY <2>2, <2>5, <6>4
            <6> QED
              BY <6>2, <6>3, <6>4
          <5> QED
            <6>1. \A z \in Processes \X Handles :
                     z[1] \in Processes /\ z[2] \in Handles /\ z = <<z[1], z[2]>>
              OBVIOUS
            <6>2. \A z \in Processes \X Handles : z \in O <=> z \in Owners(d)'
              BY <5>1, <6>1 DEF Owners
            <6>3. Owners(d)' \subseteq Processes \X Handles
              BY DEF Owners
            <6> QED
              BY <6>2, <6>3
        <4> QED
          BY <2>1, <4>1 DEF Counted
      <3> QED
        BY <3>1, <3>2
    <2>4. ASSUME d \notin used' PROVE Unused(d)'
      <3>1. Unused(d)
        BY <2>4 DEF IInv
      <3>2. \A p \in Processes : d \notin mapped'[p]
        BY <1>2, <3>1 DEF Unused
      <3>3. \A p \in Processes : \A k \in objects'[p] : chunk'[p][k] # d
        <4>1. TAKE p \in Processes
        <4>2. TAKE k \in objects'[p]
        <4>3. k \in Handles /\ chunk[q][g] # d /\ NoChunk # d
          BY <1>1, <1>4, <3>1, NullAssumption DEF Unused, TypeOK
        <4>4. CASE p # q \/ (k # h /\ k # g)
          BY <1>1, <1>3, <3>1, <4>3, <4>4 DEF Unused, TypeOK
        <4> QED
          BY <1>3, <4>3, <4>4
      <3> QED
        BY <3>2, <3>3 DEF Unused
    <2> QED
      BY <2>3, <2>4
  <1> QED
    BY <1>4, <1>5, <1>6 DEF IInv

(* The copy constructor adds an owner of what its source points to.        *)
LEMMA CopyConstructIInv ==
    ASSUME IInv, NEW q \in Processes, NEW h \in Handles, NEW g \in Handles, CopyConstruct(q, h, g)
    PROVE  IInv'
  <1>1. /\ TypeOK /\ Free(q, h) /\ q \in alive /\ g \in objects[q]
        /\ Reaches(mapped, q, chunk[q][g]) /\ chunk[q][g] \in Chunks \cup {NoChunk}
    BY DEF IInv, TypeOK, CopyConstruct, Has
  <1>2. CASE chunk[q][g] = NoChunk
    <2>1. Construct(q, h)
      BY <1>1, <1>2 DEF CopyConstruct, Construct
    <2> QED
      BY <2>1, ConstructIInv
  <1>3. CASE chunk[q][g] # NoChunk
    <2>1. PICK c \in Chunks : c = chunk[q][g]
      BY <1>1, <1>3
    <2>2. PICK b, m : b = arc /\ m = mapped
      OBVIOUS
    <2>3. Without(q, h, b, m)
      BY <1>1, <2>2, Unheld
    <2>4. c \in m[q]
      BY <1>1, <1>3, <2>1, <2>2 DEF Reaches
    <2>5. /\ arc' = [b EXCEPT ![c] = @ + 1] /\ mapped' = m /\ used' = used /\ alive' = alive
          /\ objects' = [objects EXCEPT ![q] = @ \cup {h}] /\ Set(q, h, c, q)
      BY <1>3, <2>1, <2>2 DEF CopyConstruct
    <2> QED
      BY <1>1, <2>1, <2>3, <2>4, <2>5, GainIInv
  <1> QED
    BY <1>2, <1>3

(* Copy assignment drops what h had and adds an owner of what g points to. *)
LEMMA CopyAssignIInv ==
    ASSUME IInv, NEW q \in Processes, NEW h \in Handles, NEW g \in Handles, CopyAssign(q, h, g)
    PROVE  IInv'
  <1> DEFINE e == IF g = h THEN NoChunk ELSE chunk[q][g]
  <1>1. /\ TypeOK /\ Has(q, h) /\ q \in alive /\ h \in objects[q] /\ g \in objects[q]
        /\ e \in Chunks \cup {NoChunk} /\ owner[q][h] \in Processes \cup {Nobody}
    BY DEF IInv, TypeOK, CopyAssign, Has
  <1>2. /\ mapped' = DroppedMap(q, h) /\ used' = used /\ alive' = alive /\ objects' = objects
        /\ Reaches(DroppedMap(q, h), q, e)
        /\ e = NoChunk => arc' = DroppedArc(q, h) /\ Set(q, h, NoChunk, owner[q][h])
        /\ e # NoChunk => arc' = [DroppedArc(q, h) EXCEPT ![e] = @ + 1] /\ Set(q, h, e, q)
    BY DEF CopyAssign
  <1>3. CASE e = NoChunk
    <2>1. /\ objects' \in [Processes -> SUBSET Handles]
          /\ \A p \in Processes : objects'[p] \subseteq objects[p]
          /\ \A p \in Processes : \A k \in objects[p] : p # q \/ k # h => k \in objects'[p]
      BY <1>1, <1>2 DEF TypeOK
    <2> HIDE DEF e
    <2> QED
      BY <1>1, <1>2, <1>3, <2>1, DropIInv
  <1>4. CASE e # NoChunk
    <2>1. PICK c \in Chunks : c = e
      BY <1>1, <1>4
    <2>2. c = chunk[q][g]
      BY <1>4, <2>1
    <2> HIDE DEF e
    <2>3. PICK b, m : b = DroppedArc(q, h) /\ m = DroppedMap(q, h)
      OBVIOUS
    <2>4. Without(q, h, b, m)
      BY <1>1, <2>3, Dropped
    <2>5. c \in m[q]
      BY <1>2, <1>4, <2>1, <2>3 DEF Reaches
    <2>6. /\ arc' = [b EXCEPT ![c] = @ + 1] /\ mapped' = m /\ Set(q, h, c, q)
      BY <1>2, <1>4, <2>1, <2>3
    <2>7. objects' = [objects EXCEPT ![q] = @ \cup {h}]
      BY <1>1, <1>2 DEF TypeOK
    <2> QED
      BY <1>1, <1>2, <2>2, <2>4, <2>5, <2>6, <2>7, GainIInv
  <1> QED
    BY <1>3, <1>4

(* ... and when it kills its process, it has dropped what h had.           *)
LEMMA CopyAssignFaultsIInv ==
    ASSUME IInv, NEW q \in Processes, NEW h \in Handles, NEW g \in Handles,
           CopyAssignFaults(q, h, g)
    PROVE  IInv'
  <1>1. TypeOK /\ OwnedIsMapped /\ Has(q, h)
    BY DEF IInv, CopyAssignFaults
  <1>2. /\ arc' = DroppedArc(q, h)
        /\ alive' = alive \ {q}
        /\ mapped' = [mapped EXCEPT ![q] = {}]
        /\ objects' = [objects EXCEPT ![q] = @ \ {h}]
        /\ chunk' = chunk /\ owner' = owner /\ used' = used
    BY DEF CopyAssignFaults
  <1>3. /\ DroppedArc(q, h) \in [Chunks -> Nat]
        /\ \A c \in Chunks : /\ IsFiniteSet(Owners(c) \ {<<q, h>>})
                             /\ DroppedArc(q, h)[c] = Cardinality(Owners(c) \ {<<q, h>>})
    BY <1>1, Dropped DEF Without
  <1>4. TypeOK'
    BY <1>1, <1>2, <1>3 DEF TypeOK
  <1>5. OwnedIsMapped'
    BY <1>1, <1>2 DEF TypeOK, OwnedIsMapped, Owns, Has
  <1>6. ASSUME NEW d \in Chunks PROVE (Counted(d) /\ (d \notin used => Unused(d)))'
    <2>1. Owners(d)' = Owners(d) \ {<<q, h>>}
      BY <1>1, <1>2, InOwners, InOwnersNext DEF TypeOK
    <2>2. Counted(d)'
      BY <1>2, <1>3, <2>1 DEF Counted
    <2>3. (d \notin used => Unused(d))'
      BY <1>1, <1>2 DEF IInv, Unused, TypeOK
    <2> QED
      BY <2>2, <2>3
  <1> QED
    BY <1>4, <1>5, <1>6 DEF IInv

(* A move construction hands one claim over.                               *)
LEMMA MoveConstructIInv ==
    ASSUME IInv, NEW q \in Processes, NEW h \in Handles, NEW g \in Handles, MoveConstruct(q, h, g)
    PROVE  IInv'
  <1>1. TypeOK /\ Free(q, h) /\ q \in alive /\ g \in objects[q] /\ g # h
    BY DEF IInv, MoveConstruct, Free, Has
  <1>2. /\ chunk' = [chunk EXCEPT ![q][h] = chunk[q][g], ![q][g] = NoChunk]
        /\ owner' = [owner EXCEPT ![q][h] = owner[q][g], ![q][g] = Nobody]
        /\ objects' = [objects EXCEPT ![q] = @ \cup {h}]
        /\ alive' = alive /\ mapped' = mapped /\ arc' = arc /\ used' = used
    BY DEF MoveConstruct
  <1>3. PICK b, m : b = arc /\ m = mapped
    OBVIOUS
  <1>4. Without(q, h, b, m)
    BY <1>1, <1>3, Unheld
  <1> QED
    <2>1. Moved(q, h, g)
      BY <1>1, <1>2, MovedAt
    <2>2. arc' = b /\ mapped' = m
      BY <1>2, <1>3
    <2> QED
      BY <1>1, <1>2, <1>4, <2>1, <2>2, MoveIInv

(* A move assignment drops what h had first; a move to itself only drops.  *)
LEMMA MoveAssignIInv ==
    ASSUME IInv, NEW q \in Processes, NEW h \in Handles, NEW g \in Handles, MoveAssign(q, h, g)
    PROVE  IInv'
  <1>1. TypeOK /\ Has(q, h) /\ q \in alive /\ h \in objects[q] /\ g \in objects[q]
    BY DEF IInv, MoveAssign, Has
  <1>2. /\ arc' = DroppedArc(q, h) /\ mapped' = DroppedMap(q, h)
        /\ alive' = alive /\ objects' = objects /\ used' = used
    BY DEF MoveAssign
  <1>3. CASE g = h
    <2>1. /\ objects' \in [Processes -> SUBSET Handles]
          /\ \A p \in Processes : objects'[p] \subseteq objects[p]
          /\ \A p \in Processes : \A k \in objects[p] : p # q \/ k # h => k \in objects'[p]
      BY <1>1, <1>2 DEF TypeOK
    <2>2. Set(q, h, NoChunk, Nobody)
      BY <1>3 DEF MoveAssign
    <2> QED
      BY <1>1, <1>2, <2>1, <2>2, DropIInv
  <1>4. CASE g # h
    <2>1. /\ chunk' = [chunk EXCEPT ![q][h] = chunk[q][g], ![q][g] = NoChunk]
          /\ owner' = [owner EXCEPT ![q][h] = owner[q][g], ![q][g] = Nobody]
      BY <1>4 DEF MoveAssign
    <2>2. PICK b, m : b = DroppedArc(q, h) /\ m = DroppedMap(q, h)
      OBVIOUS
    <2>3. Without(q, h, b, m)
      BY <1>1, <2>2, Dropped
    <2>4. objects' = [objects EXCEPT ![q] = @ \cup {h}]
      BY <1>1, <1>2 DEF TypeOK
    <2> QED
      <3>1. Moved(q, h, g)
        BY <1>1, <1>4, <2>1, MovedAt
      <3>2. arc' = b /\ mapped' = m
        BY <1>2, <2>2
      <3> QED
        BY <1>1, <1>2, <1>4, <2>3, <2>4, <3>1, <3>2, MoveIInv
  <1> QED
    BY <1>3, <1>4

(* fork(): no handle of the child names it, so it owns none.               *)
LEMMA ForkIInv ==
    ASSUME IInv, NEW q \in Processes, NEW r \in Processes, Fork(q, r)
    PROVE  IInv'
  <1>1. /\ TypeOK /\ OwnedIsMapped
        /\ q \in alive /\ r \notin alive /\ r # q /\ objects[r] = {}
        /\ \A h \in objects[q] : chunk[q][h] # NoChunk => owner[q][h] # r
    BY DEF IInv, TypeOK, Fork
  <1>2. /\ alive' = alive \cup {r}
        /\ objects' = [objects EXCEPT ![r] = objects[q]]
        /\ chunk' = [chunk EXCEPT ![r] = chunk[q]]
        /\ owner' = [owner EXCEPT ![r] = owner[q]]
        /\ mapped' = [mapped EXCEPT ![r] = mapped[q]]
        /\ arc' = arc /\ used' = used
    BY DEF Fork
  <1>3. TypeOK'
    BY <1>1, <1>2 DEF TypeOK
  <1>4. OwnedIsMapped'
    <2> SUFFICES ASSUME NEW p \in alive', NEW k \in objects'[p], Owns(p, k)'
                 PROVE  chunk'[p][k] \in mapped'[p]
      BY DEF OwnedIsMapped
    <2>1. p # r
      BY <1>1, <1>2 DEF Owns, TypeOK
    <2>2. p \in alive /\ k \in objects[p] /\ Owns(p, k) /\ chunk'[p][k] = chunk[p][k]
      BY <1>1, <1>2, <2>1 DEF Owns, Has, TypeOK
    <2> QED
      BY <1>1, <1>2, <2>1, <2>2 DEF OwnedIsMapped, TypeOK
  <1>5. ASSUME NEW d \in Chunks PROVE (Counted(d) /\ (d \notin used => Unused(d)))'
    <2>1. ASSUME NEW p \in Processes, NEW k \in Handles
          PROVE  k \in objects'[p] /\ chunk'[p][k] = d /\ owner'[p][k] = p
                 <=> k \in objects[p] /\ chunk[p][k] = d /\ owner[p][k] = p
      <3>1. CASE p = r
        BY <1>1, <1>2, <3>1, NullAssumption DEF TypeOK
      <3>2. CASE p # r
        BY <1>1, <1>2, <3>2 DEF TypeOK
      <3> QED
        BY <3>1, <3>2
    <2>2. Owners(d)' = Owners(d)
      BY <2>1, SameOwners
    <2>3. Counted(d)'
      BY <1>2, <2>2 DEF IInv, Counted
    <2>4. (d \notin used => Unused(d))'
      BY <1>1, <1>2 DEF IInv, Unused, TypeOK
    <2> QED
      BY <2>3, <2>4
  <1> QED
    BY <1>3, <1>4, <1>5 DEF IInv

(* Exit: the counts keep what the dead process held.                       *)
LEMMA ExitIInv ==
    ASSUME IInv, NEW q \in Processes, Exit(q)
    PROVE  IInv'
  <1>1. TypeOK /\ OwnedIsMapped
    BY DEF IInv
  <1>2. /\ alive' = alive \ {q} /\ mapped' = [mapped EXCEPT ![q] = {}]
        /\ objects' = objects /\ chunk' = chunk /\ owner' = owner
        /\ arc' = arc /\ used' = used
    BY DEF Exit, handles
  <1>3. TypeOK' /\ OwnedIsMapped'
    BY <1>1, <1>2 DEF TypeOK, OwnedIsMapped, Owns, Has
  <1>4. ASSUME NEW d \in Chunks PROVE (Counted(d) /\ (d \notin used => Unused(d)))'
    <2>1. Owners(d)' = Owners(d)
      BY <1>2, SameOwners
    <2> QED
      BY <1>1, <1>2, <2>1 DEF IInv, Counted, Unused, TypeOK
  <1> QED
    BY <1>3, <1>4 DEF IInv

(* Every step preserves the inductive invariant.                           *)
LEMMA StepIInv == IInv /\ [Next]_vars => IInv'
  <1> SUFFICES ASSUME IInv, [Next]_vars PROVE IInv'
    OBVIOUS
  <1>1. ASSUME NEW q \in Processes, NEW h \in Handles,
               \/ Construct(q, h) \/ Deallocate(q, h) \/ Destroy(q, h)
               \/ \E c \in Chunks : Allocate(q, h, c)
        PROVE  IInv'
    BY <1>1, ConstructIInv, DeallocateIInv, AllocateIInv
  <1>2. ASSUME NEW q \in Processes, NEW h \in Handles, NEW g \in Handles,
               \/ CopyConstruct(q, h, g) \/ CopyAssign(q, h, g) \/ CopyAssignFaults(q, h, g)
               \/ MoveConstruct(q, h, g) \/ MoveAssign(q, h, g)
        PROVE  IInv'
    BY <1>2, CopyConstructIInv, CopyAssignIInv, CopyAssignFaultsIInv, MoveConstructIInv,
       MoveAssignIInv
  <1>3. ASSUME NEW q \in Processes, (\E r \in Processes : Fork(q, r)) \/ Exit(q)
        PROVE  IInv'
    BY <1>3, ForkIInv, ExitIInv
  <1>4. CASE UNCHANGED vars
    <2>1. /\ alive' = alive /\ objects' = objects /\ chunk' = chunk /\ owner' = owner
          /\ mapped' = mapped /\ arc' = arc /\ used' = used
      BY <1>4 DEF vars, handles
    <2>2. \A d : Owners(d)' = Owners(d)
      BY <2>1 DEF Owners
    <2> QED
      BY <2>1, <2>2 DEF IInv, TypeOK, OwnedIsMapped, Owns, Has, Counted, Unused
  <1> QED
    BY <1>1, <1>2, <1>3, <1>4 DEF Next

-----------------------------------------------------------------------------
(* The theorems about the one-time allocator *)

(* The inductive invariant holds of every behaviour.                       *)
THEOREM Invariance == Spec => []IInv
  BY InitIInv, StepIInv, PTL DEF Spec

(* Every variable keeps its type: no operation counts below zero.          *)
THEOREM TypeCorrect == Spec => []TypeOK
  <1>1. IInv => TypeOK
    BY DEF IInv
  <1> QED
    BY <1>1, Invariance, PTL

(* The count in a chunk is always the number of handles that own it,       *)
(* whatever was copied, moved, assigned, forked or killed.                 *)
THEOREM CountIsRight == Spec => []ArcCountsOwners
  <1>1. IInv => ArcCountsOwners
    BY DEF IInv, ArcCountsOwners, Counted
  <1> QED
    BY <1>1, Invariance, PTL

(* A handle its own process made never dangles.                            *)
THEOREM OwnedStaysMapped == Spec => []OwnedIsMapped
  <1>1. IInv => OwnedIsMapped
    BY DEF IInv
  <1> QED
    BY <1>1, Invariance, PTL

-----------------------------------------------------------------------------
(* The dynamic allocator: its inductive invariant.  The count of an entry  *)
(* is right as a name has at most one entry and the processes that hold it *)
(* are known.  All map one segment, as a process between its section and   *)
(* its mmap is taken into account, and as the segment of a held name stays *)
(* linked.  Who destroys the table has left no owner of it, dead ones      *)
(* included, but those that came too late.                                 *)

Rows == 1 .. entry_number
Calling == {"idle", "map", "remap", "unmap"}

(* Nobody has inherited from, or is, a process that was not forked yet.    *)
Unborn ==
    \A q \in Procs : pc[q] = "unborn" =>
        /\ given[q] = {}
        /\ \A r \in Procs : manager[r] # q /\ allocator[r] # q

(* The table's count: the managers and allocators made by the process that *)
(* has them, those of processes that died included                         *)
ManagerOwners == {q \in Procs : manager[q] = q}
AllocatorOwners == {q \in Procs : allocator[q] = q}

OwnersCounted ==
    /\ IsFiniteSet(ManagerOwners) /\ IsFiniteSet(AllocatorOwners)
    /\ count = Cardinality(ManagerOwners) + Cardinality(AllocatorOwners)

(* When the table is destroyed its lock is taken for good, nobody has      *)
(* unlinked its names before, and there is no owner, dead ones included,   *)
(* but those that came too late.                                           *)
NoOwnerLeft ==
    /\ Destroyed => lost
    /\ ~Destroyed => scanned = 0
    /\ Destroying # {} => \A q \in Procs : manager[q] # q /\ (allocator[q] = q => q \in late)

(* A name has one entry, and an entry with a name has a size.              *)
EntriesApart ==
    /\ \A i, j \in Rows : entry[i].name = entry[j].name /\ entry[i].name # NoName => i = j
    /\ \A i \in Rows : entry[i].name # NoName => entry[i].size > 0

(* RefsCountHolders, of finitely many holders                              *)
Holders(n) == {q \in Procs : n \in given[q]}

RefsRight ==
    \A n \in Names \ uncounted :
        /\ IsFiniteSet(Holders(n))
        /\ \A i \in Rows : entry[i].name = n => entry[i].refs = Cardinality(Holders(n))
        /\ Holders(n) # {} => \E i \in Rows : entry[i].name = n

(* A segment made with the table full stays, and its name gets no entry.   *)
OrphansStay ==
    \A n \in orphans : linked[n] # 0 /\ \A i \in Rows : entry[i].name # n

(* An entry's segment is as long as the entry says, as long as somebody    *)
(* can still read the table: a death may leave the size of a new segment   *)
(* in an entry that has the name of an old one.                            *)
EntriesFit ==
    ~lost => \A i \in Rows : entry[i].name # NoName /\ linked[entry[i].name] # 0 =>
                 entry[i].size <= length[linked[entry[i].name]]

(* What a process was given is in its map, or about to be: a call knows    *)
(* the name it is about, and a mapping is one of a name in the map.        *)
CallKnown(q) ==
    /\ pc[q] \in {"idle", "remap", "unmap"} => given[q] \subseteq names[q]
    /\ pc[q] = "map" => /\ given[q] \subseteq names[q] \cup {local[q].name}
                        /\ local[q].name \in given[q]
    /\ pc[q] = "unmap" => local[q].name \notin given[q]
    /\ pc[q] \in {"map", "remap", "unmap"} => local[q].name \in Names
    /\ pc[q] = "remap" => local[q].name \in names[q]
    /\ \A n \in Names \ names[q] : mapping[q][n] = Nothing

CallsKnown == \A q \in Procs : CallKnown(q)

(* What a process is about to map is long enough and is what the others    *)
(* map.                                                                    *)
PendingCall(q) ==
    /\ pc[q] = "map" =>
          /\ local[q].segment \in Segments
          /\ local[q].size <= length[local[q].segment]
          /\ local[q].name \notin uncounted =>
                \/ local[q].segment = linked[local[q].name]
                \/ Destroyed /\ ~KeepsTable(q)
    /\ pc[q] = "remap" /\ local[q].name \notin uncounted =>
          (mapping[q][local[q].name].segment \in Segments =>
             local[q].size <= length[mapping[q][local[q].name].segment])

Pending == \A q \in Procs : PendingCall(q)

DAInv ==
    /\ DATypeOK /\ Unborn /\ OwnersCounted /\ NoOwnerLeft /\ EntriesApart /\ RefsRight
    /\ OrphansStay /\ EntriesFit /\ CallsKnown /\ Pending
    /\ SegmentsAccounted /\ SharedSegment /\ MappedWithinSegment

-----------------------------------------------------------------------------
(* The table *)

(* The entry of a name is the one with that name.                          *)
LEMMA CellIs ==
    ASSUME DATypeOK, EntriesApart, NEW n \in Names
    PROVE  \A i : i \in Cell(n) <=> i \in Rows /\ entry[i].name = n
  <1>1. n # NoName
    BY DynamicNameAssumption
  <1>2. \A i \in Rows : NameCheck(i, n) <=> entry[i].name = n
    BY <1>1 DEF EntriesApart, NameCheck
  <1>3. \A i, j \in Rows : entry[i].name = n /\ entry[j].name = n => i = j
    BY <1>1 DEF EntriesApart
  <1>4. \A i \in Rows : i <= i
    BY DEF Rows
  <1>5. Cell(n) = {i \in {k \in Rows : NameCheck(k, n)} : \A j \in {k \in Rows : NameCheck(k, n)} : i <= j}
    BY DEF Cell, LeastOf, Rows
  <1> QED
    BY <1>2, <1>3, <1>4, <1>5

(* An entry that is taken is free, and a segment that is made is new.      *)
LEMMA Fresh ==
    /\ \A i \in FreeCell : i \in Rows /\ entry[i].refs = 0
    /\ \A g \in Unmade : g \in Segments /\ length[g] = 0
  BY DEF FreeCell, Unmade, LeastOf, IsFree, Rows

(* The types of what belongs to a process alone                            *)
CallsTyped ==
    /\ pc \in [Procs -> {"unborn", "idle", "map", "remap", "unmap", "destroy", "ended", "dead"}]
    /\ local \in [Procs -> [name : Names \cup {NoName}, size : Sizes \cup {0},
                                segment : Segments \cup {0}]]
    /\ names \in [Procs -> SUBSET Names]
    /\ mapping \in [Procs -> [Names -> [segment : Segments \cup {0, Failed}, size : Sizes \cup {0}]]]

(* What a section does but for the table and the files, when q leaves it   *)
(* or is killed in it ...                                                  *)
Aside(q) ==
    /\ pc[q] = "idle" /\ allocator[q] # NoOne /\ ~lost /\ lost' \in BOOLEAN
    /\ CallsTyped'
    /\ \A r \in Procs \ {q} : /\ pc'[r] = pc[r] /\ local'[r] = local[r]
                              /\ names'[r] = names[r] /\ mapping'[r] = mapping[r]
    /\ count' = count /\ scanned' = scanned /\ uncounted' = uncounted
    /\ manager' = manager /\ allocator' = allocator /\ late' = late

(* ... what it does when q leaves it, ...                                  *)
Back(q, next, n, size, g) ==
    /\ pc' = [pc EXCEPT ![q] = next] /\ pc'[q] = next
    /\ local'[q] = [name |-> n, size |-> size, segment |-> g]
    /\ lost' = lost /\ names' = names /\ mapping' = mapping

(* ... and when it does not.                                               *)
Gone(q) ==
    /\ pc'[q] = "dead" /\ lost' = TRUE /\ names'[q] = {}
    /\ \A m \in Names : mapping'[q][m] = Nothing

LEMMA Cut ==
    ASSUME DATypeOK, NEW q \in Procs, CutShort(q)
    PROVE  Aside(q) /\ Gone(q)
  <1>1. /\ pc' = [pc EXCEPT ![q] = "dead"]
        /\ local' = [local EXCEPT ![q] = NoCall]
        /\ names' = [names EXCEPT ![q] = {}]
        /\ mapping' = [mapping EXCEPT ![q] = [n \in Names |-> Nothing]]
    BY DEF CutShort, Killed
  <1>2. /\ pc[q] = "idle" /\ allocator[q] # NoOne /\ ~lost /\ lost' = TRUE
        /\ count' = count /\ scanned' = scanned /\ uncounted' = uncounted
        /\ manager' = manager /\ allocator' = allocator /\ late' = late
    BY DEF CutShort, managers
  <1>3. [n \in Names |-> Nothing] \in [Names -> [segment : Segments \cup {0, Failed},
                                                 size : Sizes \cup {0}]]
    BY DEF Nothing
  <1>4. CallsTyped'
    BY <1>1, <1>3 DEF CallsTyped, DATypeOK, NoCall
  <1>5. /\ pc'[q] = "dead" /\ names'[q] = {} /\ \A m \in Names : mapping'[q][m] = Nothing
        /\ \A r \in Procs \ {q} : /\ pc'[r] = pc[r] /\ local'[r] = local[r]
                                  /\ names'[r] = names[r] /\ mapping'[r] = mapping[r]
    BY <1>1 DEF DATypeOK
  <1> QED
    BY <1>2, <1>4, <1>5 DEF Aside, Gone

LEMMA Sections ==
    ASSUME DATypeOK, NEW q \in Procs, NEW next \in Calling, NEW n \in Names \cup {NoName},
           NEW size \in Sizes \cup {0}, NEW g \in Segments \cup {0}, Section(q, next, n, size, g)
    PROVE  Aside(q) /\ (Back(q, next, n, size, g) \/ Gone(q))
  <1>1. CASE CutShort(q)
    BY <1>1, Cut
  <1>2. CASE ~CutShort(q)
    <2>1. /\ pc[q] = "idle" /\ allocator[q] # NoOne /\ ~lost
          /\ pc' = [pc EXCEPT ![q] = next]
          /\ local' = [local EXCEPT ![q] = [name |-> n, size |-> size, segment |-> g]]
          /\ lost' = lost /\ count' = count /\ scanned' = scanned /\ uncounted' = uncounted
          /\ manager' = manager /\ allocator' = allocator /\ late' = late
          /\ names' = names /\ mapping' = mapping
      BY <1>2 DEF Section, managers, private
    <2>2. CallsTyped'
      BY <2>1 DEF CallsTyped, DATypeOK, Calling
    <2>3. /\ pc'[q] = next /\ local'[q] = [name |-> n, size |-> size, segment |-> g]
          /\ \A r \in Procs \ {q} : pc'[r] = pc[r] /\ local'[r] = local[r]
      BY <2>1 DEF DATypeOK
    <2>4. lost' \in BOOLEAN
      BY <2>1 DEF DATypeOK
    <2> QED
      BY <2>1, <2>2, <2>3, <2>4 DEF Aside, Back
  <1> QED
    BY <1>1, <1>2

(* A call leaves the owners alone, also one cut short.                     *)
LEMMA OwnersUntouched ==
    ASSUME DATypeOK, OwnersCounted, NoOwnerLeft, NEW q \in Procs,
           pc[q] \in Calling, pc'[q] \in Calling \cup {"dead"},
           \A r \in Procs \ {q} : pc'[r] = pc[r], lost => lost', count' = count,
           scanned' = scanned, manager' = manager, allocator' = allocator, late' = late
    PROVE  /\ OwnersCounted' /\ NoOwnerLeft'
           /\ Destroyed' <=> Destroyed
           /\ \A r \in Procs : KeepsTable(r)' <=> KeepsTable(r)
  <1>1. ManagerOwners' = ManagerOwners /\ AllocatorOwners' = AllocatorOwners
    BY DEF ManagerOwners, AllocatorOwners
  <1>2. Destroying' = Destroying /\ (Destroyed' <=> Destroyed)
    BY DEF Destroying, Destroyed, Calling
  <1> QED
    BY <1>1, <1>2 DEF OwnersCounted, NoOwnerLeft, KeepsTable

(* The types, entry by entry                                               *)
LEMMA Typed ==
    ASSUME DATypeOK
    PROVE  /\ \A i \in Rows : /\ entry[i].name \in Names \cup {NoName}
                              /\ entry[i].size \in Nat /\ entry[i].refs \in Int
           /\ \A q \in Procs : local[q].size \in Nat /\ given[q] \subseteq Names
           /\ \A q \in Procs, n \in Names : mapping[q][n].size \in Nat
           /\ \A n \in Names : linked[n] # 0 => linked[n] \in Segments
           /\ \A g \in Segments : length[g] \in Nat
           /\ orphans \subseteq Names /\ torn \in Names \cup {NoName} /\ scanned \in Nat
  <1>1. \A i \in Rows : entry[i] \in [name : Names \cup {NoName}, size : Sizes \cup {0}, refs : Int]
    BY DEF DATypeOK, Rows
  <1>2. \A q \in Procs : local[q].size \in Sizes \cup {0}
    BY DEF DATypeOK
  <1>3. \A q \in Procs, n \in Names : mapping[q][n].size \in Sizes \cup {0}
    BY DEF DATypeOK
  <1>4. \A g \in Segments : length[g] \in Sizes \cup {0}
    BY DEF DATypeOK
  <1>5. Sizes \cup {0} \subseteq Nat
    BY DynamicSizesAssumption
  <1>6. \A q \in Procs : given[q] \subseteq Names
    BY DEF DATypeOK
  <1>7. /\ \A n \in Names : linked[n] # 0 => linked[n] \in Segments
        /\ orphans \subseteq Names /\ torn \in Names \cup {NoName}
    BY DEF DATypeOK
  <1>8. scanned \in Nat
    BY DynamicSizesAssumption DEF DATypeOK
  <1> QED
    BY <1>1, <1>2, <1>3, <1>4, <1>5, <1>6, <1>7, <1>8

(* Segments only grow.                                                     *)
Grown == \A g \in Segments : length'[g] \in Nat /\ length[g] <= length'[g]

(* What was within a segment stays within it.                              *)
LEMMA StillWithin ==
    ASSUME DATypeOK, Grown, NEW g \in Segments, NEW size \in Nat, size <= length[g]
    PROVE  size <= length'[g]
  BY Typed DEF Grown

(* A mapping is within its segment as before, unless it is of a name that  *)
(* somebody has been given since.                                          *)
LEMMA StillMapped ==
    ASSUME DATypeOK, MappedWithinSegment, Grown, mapping' = mapping, uncounted \subseteq uncounted',
           \A r \in Procs : \A m \in given'[r] \ uncounted' :
               m \in given[r] \/ (m \in Names /\ mapping[r][m].segment \notin Segments)
    PROVE  MappedWithinSegment'
  <1> SUFFICES ASSUME NEW r \in Procs, NEW m \in given'[r] \ uncounted',
                      mapping[r][m].segment \in Segments
               PROVE  mapping[r][m].size <= length'[mapping[r][m].segment]
    BY DEF MappedWithinSegment
  <1>1. m \in given[r] \ uncounted
    OBVIOUS
  <1>2. mapping[r][m].size <= length[mapping[r][m].segment]
    BY <1>1 DEF MappedWithinSegment
  <1>3. mapping[r][m].size \in Nat
    BY <1>1, Typed
  <1> QED
    BY <1>2, <1>3, StillWithin

(* An entry that stays as it was still fits.                               *)
LEMMA StillFits ==
    ASSUME DATypeOK, EntriesFit, ~lost, Grown, NEW i \in Rows, entry'[i].name = entry[i].name,
           entry'[i].size = entry[i].size, entry[i].name # NoName,
           linked'[entry[i].name] # 0 => linked'[entry[i].name] = linked[entry[i].name],
           linked'[entry[i].name] # 0
    PROVE  entry'[i].size <= length'[linked'[entry'[i].name]]
  <1> DEFINE g == linked[entry[i].name]
  <1>1. g \in Segments /\ linked'[entry'[i].name] = g /\ entry[i].size \in Nat
    BY Typed
  <1>2. entry[i].size <= length[g]
    BY <1>1 DEF EntriesFit, Segments
  <1> HIDE DEF g
  <1>3. entry[i].size <= length'[g]
    BY <1>1, <1>2, StillWithin
  <1> QED
    BY <1>1, <1>3

(* A call that others do not disturb is as good as it was.                 *)
LEMMA SameCall ==
    ASSUME NEW r \in Procs, CallKnown(r), pc'[r] = pc[r], local'[r] = local[r],
           given'[r] = given[r], names'[r] = names[r], mapping'[r] = mapping[r]
    PROVE  CallKnown(r)'
  BY DEF CallKnown

(* What it has pending is as good as it was when the segment it is about   *)
(* to map is still the one linked, or it no longer keeps the table.        *)
LEMMA SamePending ==
    ASSUME DATypeOK, Grown, NEW r \in Procs, PendingCall(r), pc'[r] = pc[r],
           local'[r] = local[r], mapping'[r] = mapping[r], uncounted \subseteq uncounted',
           Destroyed => Destroyed' /\ (KeepsTable(r)' => KeepsTable(r)),
           pc[r] = "map" /\ local[r].name \notin uncounted' =>
               \/ linked'[local[r].name] = linked[local[r].name]
               \/ Destroyed' /\ ~KeepsTable(r)'
    PROVE  PendingCall(r)'
  <1>1. local[r].size \in Nat
    BY Typed
  <1>2. \A g \in Segments : local[r].size <= length[g] => local[r].size <= length'[g]
    BY <1>1, StillWithin
  <1>3. CASE pc[r] = "map"
    BY <1>2, <1>3 DEF PendingCall
  <1>4. CASE pc[r] # "map"
    BY <1>2, <1>4 DEF PendingCall
  <1> QED
    BY <1>3, <1>4

(* The holders are one more when q, who is not one yet, joins, ...         *)
LEMMA HolderJoins ==
    ASSUME NEW S, NEW q, IsFiniteSet(S), q \notin S
    PROVE  /\ IsFiniteSet(S \cup {q}) /\ Cardinality(S \cup {q}) = Cardinality(S) + 1
           /\ Cardinality(S) \in Nat
  BY FS_AddElement, FS_CardinalityType

(* ... and there was one, at least.                                        *)
LEMMA HolderLeaves ==
    ASSUME NEW S, NEW q, IsFiniteSet(S), q \in S
    PROVE  /\ IsFiniteSet(S \ {q}) /\ Cardinality(S \ {q}) = Cardinality(S) - 1
           /\ Cardinality(S) \in Nat /\ Cardinality(S) > 0
  BY FS_RemoveElement, FS_CardinalityType, FS_EmptySet

(* What every section under the table lock leaves as it was                *)
LEMMA SectionKeeps ==
    ASSUME DAInv, NEW q \in Procs, Aside(q), pc'[q] \in Calling \cup {"dead"},
           given' \in [Procs -> SUBSET Names], \A r \in Procs \ {q} : given'[r] = given[r]
    PROVE  /\ Unborn' /\ OwnersCounted' /\ NoOwnerLeft' /\ ~Destroyed /\ ~Destroyed'
           /\ scanned = 0 /\ torn = NoName
           /\ \A r \in Procs \ {q} : CallKnown(r)'
           /\ \A r \in Procs : KeepsTable(r)' <=> KeepsTable(r)
  <1>0. DATypeOK /\ Unborn /\ OwnersCounted /\ NoOwnerLeft /\ CallsKnown /\ SegmentsAccounted
    BY DEF DAInv
  <1>1. /\ pc[q] = "idle" /\ ~lost
        /\ \A r \in Procs \ {q} : /\ pc'[r] = pc[r] /\ local'[r] = local[r]
                                  /\ names'[r] = names[r] /\ mapping'[r] = mapping[r]
        /\ count' = count /\ scanned' = scanned
        /\ manager' = manager /\ allocator' = allocator /\ late' = late
    BY DEF Aside
  <1>2. Unborn'
    BY <1>0, <1>1 DEF Unborn, Calling
  <1>3. /\ OwnersCounted' /\ NoOwnerLeft' /\ (Destroyed' <=> Destroyed)
        /\ \A r \in Procs : KeepsTable(r)' <=> KeepsTable(r)
    BY <1>0, <1>1, OwnersUntouched DEF Calling
  <1>4. ~Destroyed /\ scanned = 0 /\ torn = NoName
    BY <1>0, <1>1 DEF NoOwnerLeft, SegmentsAccounted
  <1>5. \A r \in Procs \ {q} : CallKnown(r)'
    BY <1>0, <1>1, SameCall DEF CallsKnown
  <1> QED
    BY <1>2, <1>3, <1>4, <1>5

(* Who is killed in a section has no call, no names and nothing mapped; to *)
(* the others nothing happens as long as what they hold stays linked.      *)
LEMMA GoneKeeps ==
    ASSUME DAInv, NEW q \in Procs, Aside(q), Gone(q), Grown,
           given' \in [Procs -> SUBSET Names], \A r \in Procs \ {q} : given'[r] = given[r],
           \A r \in Procs \ {q} : \A m \in given[r] \ uncounted : linked'[m] = linked[m]
    PROVE  CallsKnown' /\ Pending' /\ SharedSegment' /\ MappedWithinSegment'
  <1>0. DATypeOK /\ CallsKnown /\ Pending /\ SharedSegment /\ MappedWithinSegment
    BY DEF DAInv
  <1>1. /\ \A r \in Procs : pc'[r] = "dead" \/ (r # q /\ pc'[r] = pc[r] /\ local'[r] = local[r])
        /\ \A r \in Procs \ {q} : names'[r] = names[r] /\ mapping'[r] = mapping[r]
        /\ pc'[q] = "dead" /\ names'[q] = {} /\ \A m \in Names : mapping'[q][m] = Nothing
        /\ uncounted' = uncounted
    BY DEF Aside, Gone
  <1>2. /\ ~Destroyed /\ \A r \in Procs \ {q} : CallKnown(r)'
        /\ \A r \in Procs : KeepsTable(r)' <=> KeepsTable(r)
    BY <1>1, SectionKeeps
  <1>3. CallsKnown'
    <2>1. CallKnown(q)'
      BY <1>1 DEF CallKnown
    <2> QED
      BY <1>2, <2>1 DEF CallsKnown
  <1>4. Pending'
    <2>1. ASSUME NEW r \in Procs \ {q}
          PROVE  PendingCall(r)'
      <3>1. pc[r] = "map" => local[r].name \in given[r]
        BY <1>0 DEF CallsKnown, CallKnown
      <3>2. pc'[r] = pc[r] /\ local'[r] = local[r] /\ mapping'[r] = mapping[r]
        BY DEF Aside
      <3> QED
        BY <1>0, <1>1, <1>2, <3>1, <3>2, SamePending DEF Pending
    <2>2. PendingCall(q)'
      BY <1>1 DEF PendingCall
    <2> QED
      BY <2>1, <2>2 DEF Pending
  <1>5. SharedSegment'
    <2> SUFFICES ASSUME NEW r \in Procs, NEW m \in (given'[r] \cap names'[r]) \ uncounted
                 PROVE  mapping'[r][m].segment \in {linked'[m], Failed}
      BY <1>1 DEF SharedSegment
    <2>1. r # q /\ m \in (given[r] \cap names[r]) \ uncounted /\ mapping'[r] = mapping[r]
      BY <1>1
    <2> QED
      BY <1>0, <1>2, <2>1 DEF SharedSegment
  <1>6. MappedWithinSegment'
    <2> SUFFICES ASSUME NEW r \in Procs, NEW m \in given'[r] \ uncounted,
                        mapping'[r][m].segment \in Segments
                 PROVE  mapping'[r][m].size <= length'[mapping'[r][m].segment]
      BY <1>1 DEF MappedWithinSegment
    <2>1. m \in Names /\ (r = q => mapping'[r][m] = Nothing)
      BY <1>1
    <2>2. r # q
      BY <2>1 DEF Nothing, Segments
    <2>3. m \in given[r] \ uncounted /\ mapping'[r] = mapping[r] /\ mapping[r][m].size \in Nat
      BY <1>0, <1>1, <2>1, <2>2, Typed
    <2>4. mapping[r][m].size <= length[mapping[r][m].segment]
      BY <1>0, <2>3 DEF MappedWithinSegment
    <2> QED
      BY <1>0, <2>3, <2>4, StillWithin
  <1> QED
    BY <1>3, <1>4, <1>5, <1>6

-----------------------------------------------------------------------------
(* allocate *)

(* A new entry and a new segment: only a name nobody holds loses its entry.*)
LEMMA AllocateNewDAInv ==
    ASSUME DAInv, NEW q \in Procs, NEW n \in Names, NEW size \in Sizes, AllocateNew(q, n, size)
    PROVE  DAInv'
  <1>0. /\ DATypeOK /\ Unborn /\ OwnersCounted /\ NoOwnerLeft /\ EntriesApart /\ RefsRight
        /\ OrphansStay /\ EntriesFit /\ CallsKnown /\ Pending
        /\ SegmentsAccounted /\ SharedSegment /\ MappedWithinSegment
    BY DEF DAInv
  <1>1. PICK i \in FreeCell, g \in Unmade :
          /\ linked' = [linked EXCEPT ![n] = g]
          /\ length' = [length EXCEPT ![g] = size]
          /\ entry' = [entry EXCEPT ![i] = IncRef([name |-> n, size |-> size, refs |-> 0])]
          /\ Section(q, "map", n, size, g)
    BY DEF AllocateNew
  <1>2. i \in Rows /\ entry[i].refs = 0 /\ g \in Segments /\ length[g] = 0
    BY <1>1, Fresh
  <1>3. /\ n \notin names[q] /\ linked[n] = 0 /\ (\A j \in Rows : entry[j].name # n)
        /\ n # NoName /\ n \notin orphans /\ size \in Nat /\ size > 0
    BY <1>0, CellIs, DynamicNameAssumption, DynamicSizesAssumption DEF AllocateNew, OrphansStay
  <1>4. /\ entry' \in [Rows -> [name : Names \cup {NoName}, size : Sizes \cup {0}, refs : Int]]
        /\ entry'[i].name = n /\ entry'[i].size = size /\ entry'[i].refs = 1
        /\ \A j \in Rows \ {i} : entry'[j] = entry[j]
    <2> DEFINE e == [name |-> n, size |-> size, refs |-> 1]
    <2>1. IncRef([name |-> n, size |-> size, refs |-> 0]) = e
      BY DEF IncRef
    <2>2. e \in [name : Names \cup {NoName}, size : Sizes \cup {0}, refs : Int]
      OBVIOUS
    <2>3. entry' = [entry EXCEPT ![i] = e]
      BY <1>1, <2>1
    <2>4. e.name = n /\ e.size = size /\ e.refs = 1
      OBVIOUS
    <2> HIDE DEF e
    <2> QED
      BY <1>0, <1>2, <2>2, <2>3, <2>4 DEF DATypeOK, Rows
  <1>5. /\ linked' \in [Names -> Segments \cup {0}] /\ linked'[n] = g /\ g # 0
        /\ \A m \in Names \ {n} : linked'[m] = linked[m]
    BY <1>0, <1>1, <1>2 DEF DATypeOK, Segments
  <1>6. /\ length' \in [Segments -> Sizes \cup {0}] /\ length'[g] = size
        /\ \A h \in Segments \ {g} : length'[h] = length[h]
        /\ Grown
    <2>1. /\ length' \in [Segments -> Sizes \cup {0}] /\ length'[g] = size
          /\ \A h \in Segments \ {g} : length'[h] = length[h]
      BY <1>0, <1>1, <1>2 DEF DATypeOK
    <2>2. \A h \in Segments : length[h] \in Nat
      BY <1>0, Typed
    <2> QED
      BY <1>2, <1>3, <2>1, <2>2 DEF Grown
  <1>7. /\ given' \in [Procs -> SUBSET Names] /\ given'[q] = given[q] \cup {n}
        /\ \A r \in Procs \ {q} : given'[r] = given[r]
        /\ orphans' = orphans /\ torn' = torn
    BY <1>0 DEF AllocateNew, CountedIn, DATypeOK, leaks
  <1>8. Aside(q) /\ (Back(q, "map", n, size, g) \/ Gone(q))
    BY <1>0, <1>1, <1>2, Sections DEF Calling
  <1>9. /\ Unborn' /\ OwnersCounted' /\ NoOwnerLeft' /\ ~Destroyed /\ ~Destroyed'
        /\ scanned = 0 /\ scanned' = 0 /\ torn = NoName /\ uncounted' = uncounted
        /\ \A r \in Procs \ {q} : CallKnown(r)'
        /\ \A r \in Procs : KeepsTable(r)' <=> KeepsTable(r)
    BY <1>7, <1>8, SectionKeeps DEF Aside, Back, Gone, Calling
  <1>10. n \notin uncounted => Holders(n) = {}
    BY <1>0, <1>3 DEF RefsRight
  <1>11. DATypeOK'
    BY <1>0, <1>4, <1>5, <1>6, <1>7, <1>8 DEF DATypeOK, Rows, Aside, CallsTyped
  <1>12. EntriesApart'
    BY <1>0, <1>2, <1>3, <1>4 DEF EntriesApart
  <1>13. RefsRight'
    <2> SUFFICES ASSUME NEW m \in Names \ uncounted
                 PROVE  /\ IsFiniteSet(Holders(m)')
                        /\ \A j \in Rows : entry'[j].name = m => entry'[j].refs = Cardinality(Holders(m)')
                        /\ Holders(m)' # {} => \E j \in Rows : entry'[j].name = m
      BY <1>8 DEF RefsRight, Aside
    <2>1. CASE m = n
      <3>1. Holders(n)' = {q}
        BY <1>7, <1>10, <2>1 DEF Holders
      <3>2. \A j \in Rows : entry'[j].name = n => j = i
        BY <1>3, <1>4
      <3>3. IsFiniteSet({q}) /\ Cardinality({q}) = 1
        BY FS_Singleton
      <3> QED
        BY <1>2, <1>4, <2>1, <3>1, <3>2, <3>3
    <2>2. CASE m # n
      <3>1. Holders(m)' = Holders(m)
        BY <1>7, <2>2 DEF Holders
      <3>2. Holders(m) # {} => entry[i].name # m
        BY <1>0, <1>2, FS_EmptySet DEF RefsRight
      <3> QED
        BY <1>0, <1>2, <1>4, <2>2, <3>1, <3>2 DEF RefsRight
    <2> QED
      BY <2>1, <2>2
  <1>14. OrphansStay'
    <2> SUFFICES ASSUME NEW m \in orphans PROVE linked'[m] # 0 /\ \A j \in Rows : entry'[j].name # m
      BY <1>7 DEF OrphansStay
    <2>1. m \in Names \ {n} /\ linked[m] # 0 /\ \A j \in Rows : entry[j].name # m
      BY <1>0, <1>3, Typed DEF OrphansStay
    <2> QED
      BY <1>4, <1>5, <2>1
  <1>15. EntriesFit'
    <2> SUFFICES ASSUME NEW j \in Rows, entry'[j].name # NoName, linked'[entry'[j].name] # 0
                 PROVE  entry'[j].size <= length'[linked'[entry'[j].name]]
      BY DEF EntriesFit
    <2>1. CASE j = i
      BY <1>3, <1>4, <1>5, <1>6, <2>1
    <2>2. CASE j # i
      <3>1. entry'[j] = entry[j] /\ entry[j].name \in Names \ {n}
        BY <1>0, <1>3, <1>4, <2>2, Typed
      <3>2. linked'[entry[j].name] = linked[entry[j].name]
        BY <1>5, <3>1
      <3> QED
        BY <1>0, <1>6, <1>8, <3>1, <3>2, StillFits DEF Aside
    <2> QED
      BY <2>1, <2>2
  <1>16. SegmentsAccounted'
    <2> SUFFICES ASSUME NEW m \in Names \ uncounted
                 PROVE  linked'[m] # 0 <=>
                          m \in orphans \/ \E j \in Rows : entry'[j].name = m /\ entry'[j].refs > 0
      BY <1>7, <1>8, <1>9, DynamicNameAssumption DEF SegmentsAccounted, Rows, Aside
    <2>1. linked[m] # 0 <=> m \in orphans \/ \E j \in Rows : entry[j].name = m /\ entry[j].refs > 0
      BY <1>0, <1>9, DynamicNameAssumption DEF SegmentsAccounted, Rows
    <2> QED
      BY <1>2, <1>4, <1>5, <2>1
  <1>17. CASE Gone(q)
    <2>1. /\ given' \in [Procs -> SUBSET Names] /\ \A r \in Procs \ {q} : given'[r] = given[r]
          /\ Grown /\ \A r \in Procs \ {q} : \A m \in given[r] \ uncounted : linked'[m] = linked[m]
      BY <1>0, <1>5, <1>6, <1>7, <1>10, Typed DEF Holders
    <2>2. CallsKnown' /\ Pending' /\ SharedSegment' /\ MappedWithinSegment'
      BY <1>8, <1>17, <2>1, GoneKeeps
    <2> QED
      BY <1>9, <1>11, <1>12, <1>13, <1>14, <1>15, <1>16, <2>2 DEF DAInv
  <1>18. CASE Back(q, "map", n, size, g)
    <2>1. CallsKnown'
      <3>1. CallKnown(q)'
        BY <1>0, <1>7, <1>8, <1>18 DEF CallsKnown, CallKnown, Aside, Back
      <3>2. \A r \in Procs \ {q} : CallKnown(r)'
        BY <1>0, <1>7, <1>8, <1>18, SameCall DEF CallsKnown, Aside, Back
      <3> QED
        BY <3>1, <3>2 DEF CallsKnown
    <2>2. Pending'
      <3>1. PendingCall(q)'
        BY <1>2, <1>3, <1>5, <1>6, <1>8, <1>18 DEF PendingCall, Aside, Back
      <3>2. ASSUME NEW r \in Procs \ {q}
            PROVE  PendingCall(r)'
        <4>1. pc[r] = "map" /\ local[r].name \notin uncounted => local[r].name \in Names \ {n}
          BY <1>0, <1>10 DEF CallsKnown, CallKnown, Holders
        <4>2. pc[r] = "map" /\ local[r].name \notin uncounted =>
                linked'[local[r].name] = linked[local[r].name]
          BY <1>5, <4>1
        <4> QED
          BY <1>0, <1>6, <1>8, <1>9, <1>18, <4>2, SamePending DEF Pending, Aside, Back
      <3> QED
        BY <3>1, <3>2 DEF Pending
    <2>3. SharedSegment'
      <3> SUFFICES ASSUME NEW r \in Procs, NEW m \in (given'[r] \cap names[r]) \ uncounted
                   PROVE  mapping[r][m].segment \in {linked'[m], Failed}
        BY <1>8, <1>18 DEF SharedSegment, Aside, Back
      <3>1. m \in given[r] /\ m \in Names /\ m # n
        <4>1. r # q => m \in given[r]
          BY <1>7
        <4>2. r = q => m \in given[r] /\ m # n
          BY <1>3, <1>7
        <4> QED
          BY <1>0, <1>10, <4>1, <4>2, Typed DEF Holders
      <3> QED
        BY <1>0, <1>5, <1>9, <3>1 DEF SharedSegment
    <2>4. MappedWithinSegment'
      <3>1. mapping[q][n].segment \notin Segments
        BY <1>0, <1>3 DEF CallsKnown, CallKnown, Nothing, Segments
      <3>2. \A r \in Procs : \A m \in given'[r] : m \in given[r] \/ (r = q /\ m = n)
        BY <1>7
      <3> QED
        BY <1>0, <1>6, <1>8, <1>18, <3>1, <3>2, StillMapped DEF Aside, Back
    <2> QED
      BY <1>9, <1>11, <1>12, <1>13, <1>14, <1>15, <1>16, <2>1, <2>2, <2>3, <2>4 DEF DAInv
  <1> QED
    BY <1>8, <1>17, <1>18

(* The table is as good as it was when neither it, nor the files, nor who  *)
(* holds the counted names has changed.                                    *)
LEMMA TableUntouched ==
    ASSUME EntriesApart, RefsRight, OrphansStay, EntriesFit, SegmentsAccounted,
           entry' = entry, linked' = linked, length' = length, orphans' = orphans, torn' = torn,
           scanned' = scanned, lost => lost', uncounted \subseteq uncounted',
           \A m \in Names \ uncounted' : Holders(m)' = Holders(m), Destroyed' <=> Destroyed
    PROVE  EntriesApart' /\ RefsRight' /\ OrphansStay' /\ EntriesFit' /\ SegmentsAccounted'
  <1>1. EntriesApart' /\ OrphansStay' /\ EntriesFit'
    BY DEF EntriesApart, OrphansStay, EntriesFit
  <1>2. RefsRight'
    <2> SUFFICES ASSUME NEW m \in Names \ uncounted'
                 PROVE  /\ IsFiniteSet(Holders(m)')
                        /\ \A j \in Rows : entry'[j].name = m => entry'[j].refs = Cardinality(Holders(m)')
                        /\ Holders(m)' # {} => \E j \in Rows : entry'[j].name = m
      BY DEF RefsRight
    <2> QED
      BY DEF RefsRight
  <1>3. SegmentsAccounted'
    BY DEF SegmentsAccounted
  <1> QED
    BY <1>1, <1>2, <1>3

(* What a return does but for the map of names and the mappings            *)
LEMMA Returns ==
    ASSUME DATypeOK, NEW q \in Procs, NEW from, Return(q, from)
    PROVE  /\ pc[q] = from
           /\ pc' \in [Procs -> {"unborn", "idle", "map", "remap", "unmap", "destroy", "ended", "dead"}]
           /\ local' \in [Procs -> [name : Names \cup {NoName}, size : Sizes \cup {0},
                                    segment : Segments \cup {0}]]
           /\ pc'[q] = "idle" /\ local'[q] = NoCall
           /\ \A r \in Procs \ {q} : pc'[r] = pc[r] /\ local'[r] = local[r]
           /\ entry' = entry /\ lost' = lost /\ count' = count /\ scanned' = scanned
           /\ linked' = linked /\ length' = length
           /\ manager' = manager /\ allocator' = allocator /\ late' = late
           /\ given' = given /\ uncounted' = uncounted /\ orphans' = orphans
           /\ torn' = torn
  BY DEF Return, DATypeOK, NoCall, table, files, managers, leaks

(* A call that returns leaves the table, the owners and the other calls.   *)
LEMMA ReturnKeeps ==
    ASSUME DAInv, NEW q \in Procs, NEW from \in {"map", "remap", "unmap"}, Return(q, from),
           mapping' \in [Procs -> [Names -> [segment : Segments \cup {0, Failed},
                                             size : Sizes \cup {0}]]],
           names' \in [Procs -> SUBSET Names],
           \A r \in Procs \ {q} : mapping'[r] = mapping[r] /\ names'[r] = names[r],
           given[q] \subseteq names'[q],
           \A m \in Names \ names'[q] : mapping'[q][m] = Nothing
    PROVE  /\ DATypeOK' /\ Unborn' /\ OwnersCounted' /\ NoOwnerLeft' /\ EntriesApart' /\ RefsRight'
           /\ OrphansStay' /\ EntriesFit' /\ CallsKnown' /\ Pending' /\ SegmentsAccounted'
           /\ Destroyed' <=> Destroyed
           /\ \A r \in Procs : KeepsTable(r)' <=> KeepsTable(r)
  <1>0. /\ DATypeOK /\ Unborn /\ OwnersCounted /\ NoOwnerLeft /\ EntriesApart /\ RefsRight
        /\ OrphansStay /\ EntriesFit /\ CallsKnown /\ Pending /\ SegmentsAccounted
    BY DEF DAInv
  <1>1. /\ pc[q] = from
        /\ pc' \in [Procs -> {"unborn", "idle", "map", "remap", "unmap", "destroy", "ended", "dead"}]
        /\ local' \in [Procs -> [name : Names \cup {NoName}, size : Sizes \cup {0},
                                 segment : Segments \cup {0}]]
        /\ pc'[q] = "idle" /\ local'[q] = NoCall
        /\ \A r \in Procs \ {q} : pc'[r] = pc[r] /\ local'[r] = local[r]
        /\ entry' = entry /\ lost' = lost /\ count' = count /\ scanned' = scanned
        /\ linked' = linked /\ length' = length
        /\ manager' = manager /\ allocator' = allocator /\ late' = late
        /\ given' = given /\ uncounted' = uncounted /\ orphans' = orphans
        /\ torn' = torn
           /\ torn' = torn
    BY <1>0, Returns
  <1>2. DATypeOK'
    BY <1>0, <1>1 DEF DATypeOK
  <1>3. Unborn'
    BY <1>0, <1>1 DEF Unborn
  <1>4. /\ OwnersCounted' /\ NoOwnerLeft' /\ (Destroyed' <=> Destroyed)
        /\ \A r \in Procs : KeepsTable(r)' <=> KeepsTable(r)
    BY <1>0, <1>1, OwnersUntouched DEF Calling
  <1>5. \A m \in Names : Holders(m)' = Holders(m)
    BY <1>1 DEF Holders
  <1>6. EntriesApart' /\ RefsRight' /\ OrphansStay' /\ EntriesFit' /\ SegmentsAccounted'
    BY <1>0, <1>1, <1>4, <1>5, TableUntouched
  <1>7. CallsKnown'
    <2>1. CallKnown(q)'
      BY <1>1 DEF CallKnown
    <2>2. \A r \in Procs \ {q} : CallKnown(r)'
      BY <1>0, <1>1, SameCall DEF CallsKnown
    <2> QED
      BY <2>1, <2>2 DEF CallsKnown
  <1>8. Pending'
    <2>1. Grown
      BY <1>0, <1>1, Typed DEF Grown
    <2>2. PendingCall(q)'
      BY <1>1 DEF PendingCall
    <2>3. \A r \in Procs \ {q} : PendingCall(r)'
      BY <1>0, <1>1, <1>4, <2>1, SamePending DEF Pending
    <2> QED
      BY <2>2, <2>3 DEF Pending
  <1> QED
    BY <1>2, <1>3, <1>4, <1>6, <1>7, <1>8

(* What a call maps is long enough, and the segment others map.            *)
LEMMA MapDAInv ==
    ASSUME DAInv, NEW q \in Procs, NEW succeeds \in BOOLEAN, Map(q, succeeds)
    PROVE  DAInv'
  <1> DEFINE n == local[q].name
             result == [segment |-> IF succeeds THEN local[q].segment ELSE Failed,
                        size |-> local[q].size]
  <1>0. DATypeOK /\ CallsKnown /\ Pending /\ SharedSegment /\ MappedWithinSegment
    BY DEF DAInv
  <1>1. /\ Return(q, "map")
        /\ names' = [names EXCEPT ![q] = @ \cup {n}]
        /\ mapping' = [mapping EXCEPT ![q][n] = result]
    BY DEF Map
  <1>2. /\ pc[q] = "map" /\ linked' = linked /\ length' = length
        /\ given' = given /\ uncounted' = uncounted
    BY <1>0, <1>1, Returns
  <1>3. /\ n \in Names /\ given[q] \subseteq names[q] \cup {n}
        /\ \A m \in Names \ names[q] : mapping[q][m] = Nothing
        /\ local[q].segment \in Segments /\ local[q].size <= length[local[q].segment]
        /\ n \notin uncounted => local[q].segment = linked[n] \/ (Destroyed /\ ~KeepsTable(q))
    <2>1. /\ n \in Names /\ given[q] \subseteq names[q] \cup {n}
          /\ \A m \in Names \ names[q] : mapping[q][m] = Nothing
      BY <1>0, <1>2 DEF CallsKnown, CallKnown
    <2>2. /\ local[q].segment \in Segments /\ local[q].size <= length[local[q].segment]
          /\ n \notin uncounted => local[q].segment = linked[n] \/ (Destroyed /\ ~KeepsTable(q))
      BY <1>0, <1>2 DEF Pending, PendingCall
    <2> QED
      BY <2>1, <2>2
  <1>4. result \in [segment : Segments \cup {0, Failed}, size : Sizes \cup {0}]
    BY <1>0, <1>3 DEF DATypeOK
  <1>5. result.segment \in {local[q].segment, Failed} /\ result.size = local[q].size
    OBVIOUS
  <1> HIDE DEF n, result
  <1>6. /\ names' \in [Procs -> SUBSET Names] /\ names'[q] = names[q] \cup {n}
        /\ \A r \in Procs \ {q} : names'[r] = names[r]
    BY <1>0, <1>1, <1>3 DEF DATypeOK
  <1>7. /\ mapping' \in [Procs -> [Names -> [segment : Segments \cup {0, Failed},
                                             size : Sizes \cup {0}]]]
        /\ mapping'[q][n] = result
        /\ \A m \in Names \ {n} : mapping'[q][m] = mapping[q][m]
        /\ \A r \in Procs \ {q} : mapping'[r] = mapping[r]
    BY <1>0, <1>1, <1>3, <1>4 DEF DATypeOK
  <1>8. /\ DATypeOK' /\ Unborn' /\ OwnersCounted' /\ NoOwnerLeft' /\ EntriesApart' /\ RefsRight'
        /\ OrphansStay' /\ EntriesFit' /\ CallsKnown' /\ Pending' /\ SegmentsAccounted'
        /\ Destroyed' <=> Destroyed
        /\ \A r \in Procs : KeepsTable(r)' <=> KeepsTable(r)
    BY <1>1, <1>3, <1>6, <1>7, ReturnKeeps
  <1>9. SharedSegment'
    <2> SUFFICES ASSUME NEW r \in Procs, NEW m \in (given[r] \cap names'[r]) \ uncounted
                 PROVE  \/ mapping'[r][m].segment \in {linked[m], Failed}
                        \/ Destroyed /\ ~KeepsTable(r)
      BY <1>2, <1>8 DEF SharedSegment
    <2>1. CASE r = q /\ m = n
      BY <1>3, <1>5, <1>7, <2>1
    <2>2. CASE ~(r = q /\ m = n)
      <3>1. m \in names[r] /\ mapping'[r][m] = mapping[r][m]
        BY <1>0, <1>6, <1>7, <2>2, Typed
      <3> QED
        BY <1>0, <3>1 DEF SharedSegment
    <2> QED
      BY <2>1, <2>2
  <1>10. MappedWithinSegment'
    <2> SUFFICES ASSUME NEW r \in Procs, NEW m \in given[r] \ uncounted,
                        mapping'[r][m].segment \in Segments
                 PROVE  mapping'[r][m].size <= length[mapping'[r][m].segment]
      BY <1>2 DEF MappedWithinSegment
    <2>1. CASE r = q /\ m = n
      BY <1>3, <1>5, <1>7, <2>1 DEF Failed, Segments
    <2>2. CASE ~(r = q /\ m = n)
      <3>1. mapping'[r][m] = mapping[r][m]
        BY <1>0, <1>7, <2>2, Typed
      <3> QED
        BY <1>0, <3>1 DEF MappedWithinSegment
    <2> QED
      BY <2>1, <2>2
  <1> QED
    BY <1>8, <1>9, <1>10 DEF DAInv

(* check leaves the segment where it is and its size within it.            *)
LEMMA RemapDAInv ==
    ASSUME DAInv, NEW q \in Procs, NEW succeeds \in BOOLEAN, Remap(q, succeeds)
    PROVE  DAInv'
  <1> DEFINE n == local[q].name
  <1>0. DATypeOK /\ CallsKnown /\ Pending /\ SharedSegment /\ MappedWithinSegment
    BY DEF DAInv
  <1>1. /\ Return(q, "remap") /\ names' = names
        /\ mapping' = mapping \/ mapping' = [mapping EXCEPT ![q][n].size = local[q].size]
    BY DEF Remap
  <1>2. /\ pc[q] = "remap" /\ linked' = linked /\ length' = length
        /\ given' = given /\ uncounted' = uncounted
    BY <1>0, <1>1, Returns
  <1>3. /\ n \in names[q] /\ n \in Names /\ given[q] \subseteq names[q]
        /\ \A m \in Names \ names[q] : mapping[q][m] = Nothing
    BY <1>0, <1>2 DEF CallsKnown, CallKnown
  <1>4. n \notin uncounted =>
          (mapping[q][n].segment \in Segments => local[q].size <= length[mapping[q][n].segment])
    BY <1>0, <1>2 DEF Pending, PendingCall
  <1>5. local[q].size \in Sizes \cup {0}
    BY <1>0 DEF DATypeOK
  <1> HIDE DEF n
  <1>6. /\ mapping' \in [Procs -> [Names -> [segment : Segments \cup {0, Failed},
                                             size : Sizes \cup {0}]]]
        /\ mapping'[q][n].segment = mapping[q][n].segment
        /\ mapping'[q][n].size \in {mapping[q][n].size, local[q].size}
        /\ \A m \in Names \ {n} : mapping'[q][m] = mapping[q][m]
        /\ \A r \in Procs \ {q} : mapping'[r] = mapping[r]
    <2>1. CASE mapping' = mapping
      BY <1>0, <2>1 DEF DATypeOK
    <2>2. CASE mapping' = [mapping EXCEPT ![q][n].size = local[q].size]
      <3> DEFINE e == [mapping[q][n] EXCEPT !.size = local[q].size]
      <3>1. mapping[q][n] \in [segment : Segments \cup {0, Failed}, size : Sizes \cup {0}]
        BY <1>0, <1>3 DEF DATypeOK
      <3>2. /\ e \in [segment : Segments \cup {0, Failed}, size : Sizes \cup {0}]
            /\ e.segment = mapping[q][n].segment /\ e.size = local[q].size
        BY <1>5, <3>1
      <3>3. mapping' = [mapping EXCEPT ![q][n] = e]
        BY <2>2
      <3> HIDE DEF e
      <3> QED
        BY <1>0, <1>3, <3>2, <3>3 DEF DATypeOK
    <2> QED
      BY <1>1, <2>1, <2>2
  <1>7. /\ DATypeOK' /\ Unborn' /\ OwnersCounted' /\ NoOwnerLeft' /\ EntriesApart' /\ RefsRight'
        /\ OrphansStay' /\ EntriesFit' /\ CallsKnown' /\ Pending' /\ SegmentsAccounted'
        /\ Destroyed' <=> Destroyed
        /\ \A r \in Procs : KeepsTable(r)' <=> KeepsTable(r)
    <2>1. names' \in [Procs -> SUBSET Names]
      BY <1>0, <1>1 DEF DATypeOK
    <2> QED
      BY <1>1, <1>3, <1>6, <2>1, ReturnKeeps
  <1>8. \A r \in Procs, m \in Names : mapping'[r][m].segment = mapping[r][m].segment
    BY <1>6
  <1>9. SharedSegment'
    <2> SUFFICES ASSUME NEW r \in Procs, NEW m \in (given[r] \cap names[r]) \ uncounted
                 PROVE  \/ mapping'[r][m].segment \in {linked[m], Failed}
                        \/ Destroyed /\ ~KeepsTable(r)
      BY <1>1, <1>2, <1>7 DEF SharedSegment
    <2> QED
      BY <1>0, <1>8, Typed DEF SharedSegment
  <1>10. MappedWithinSegment'
    <2> SUFFICES ASSUME NEW r \in Procs, NEW m \in given[r] \ uncounted,
                        mapping'[r][m].segment \in Segments
                 PROVE  mapping'[r][m].size <= length[mapping'[r][m].segment]
      BY <1>2 DEF MappedWithinSegment
    <2>1. mapping[r][m].size <= length[mapping[r][m].segment]
      BY <1>0, <1>8, Typed DEF MappedWithinSegment
    <2> QED
      BY <1>0, <1>4, <1>6, <1>8, <2>1, Typed
  <1> QED
    BY <1>7, <1>9, <1>10 DEF DAInv

(* What is unmapped has been given back.                                   *)
LEMMA UnmapDAInv ==
    ASSUME DAInv, NEW q \in Procs, Unmap(q)
    PROVE  DAInv'
  <1> DEFINE n == local[q].name
  <1>0. DATypeOK /\ CallsKnown /\ Pending /\ SharedSegment /\ MappedWithinSegment
    BY DEF DAInv
  <1>1. /\ Return(q, "unmap") /\ names' = names
        /\ mapping' = [mapping EXCEPT ![q][n] = Nothing]
    BY DEF Unmap
  <1>2. /\ pc[q] = "unmap" /\ linked' = linked /\ length' = length
        /\ given' = given /\ uncounted' = uncounted
    BY <1>0, <1>1, Returns
  <1>3. /\ n \in Names /\ n \notin given[q] /\ given[q] \subseteq names[q]
        /\ \A m \in Names \ names[q] : mapping[q][m] = Nothing
    BY <1>0, <1>2 DEF CallsKnown, CallKnown
  <1> HIDE DEF n
  <1>4. /\ mapping' \in [Procs -> [Names -> [segment : Segments \cup {0, Failed},
                                             size : Sizes \cup {0}]]]
        /\ mapping'[q][n] = Nothing
        /\ \A m \in Names \ {n} : mapping'[q][m] = mapping[q][m]
        /\ \A r \in Procs \ {q} : mapping'[r] = mapping[r]
    BY <1>0, <1>1, <1>3 DEF DATypeOK, Nothing
  <1>5. /\ DATypeOK' /\ Unborn' /\ OwnersCounted' /\ NoOwnerLeft' /\ EntriesApart' /\ RefsRight'
        /\ OrphansStay' /\ EntriesFit' /\ CallsKnown' /\ Pending' /\ SegmentsAccounted'
        /\ Destroyed' <=> Destroyed
        /\ \A r \in Procs : KeepsTable(r)' <=> KeepsTable(r)
    <2>1. names' \in [Procs -> SUBSET Names] /\ names'[q] = names[q]
      BY <1>0, <1>1 DEF DATypeOK
    <2>2. \A m \in Names \ names'[q] : mapping'[q][m] = Nothing
      BY <1>3, <1>4, <2>1
    <2> QED
      BY <1>1, <1>3, <1>4, <2>1, <2>2, ReturnKeeps
  <1>6. \A r \in Procs : \A m \in given[r] : mapping'[r][m] = mapping[r][m]
    BY <1>0, <1>3, <1>4, Typed
  <1>7. SharedSegment'
    BY <1>0, <1>1, <1>2, <1>5, <1>6 DEF SharedSegment
  <1>8. MappedWithinSegment'
    BY <1>0, <1>2, <1>6 DEF MappedWithinSegment
  <1> QED
    BY <1>5, <1>7, <1>8 DEF DAInv

(* A call that does not wait any more has nothing to map.                  *)
LEMMA NothingPending ==
    ASSUME NEW q \in Procs, pc'[q] \notin {"map", "remap"}
    PROVE  PendingCall(q)'
  BY DEF PendingCall

(* The size that check found is within the segment its caller has mapped.  *)
LEMMA CheckSizeDAInv ==
    ASSUME DAInv, NEW q \in Procs, NEW n \in Names, CheckSize(q, n)
    PROVE  DAInv'
  <1>0. /\ DATypeOK /\ EntriesApart /\ RefsRight /\ OrphansStay /\ EntriesFit /\ CallsKnown
        /\ Pending /\ SegmentsAccounted /\ SharedSegment /\ MappedWithinSegment
    BY DEF DAInv
  <1>1. PICK i \in Cell(n) : Section(q, "remap", n, entry[i].size, 0)
    BY DEF CheckSize
  <1>2. /\ n \in given[q] /\ entry' = entry /\ linked' = linked /\ length' = length
        /\ given' = given /\ orphans' = orphans /\ torn' = torn
    BY DEF CheckSize, files, leaks
  <1>3. i \in Rows /\ entry[i].name = n /\ n # NoName
    BY <1>0, CellIs, DynamicNameAssumption
  <1>4. entry[i].size \in Sizes \cup {0}
    BY <1>0, <1>3 DEF DATypeOK, Rows
  <1>5. Aside(q) /\ (Back(q, "remap", n, entry[i].size, 0) \/ Gone(q))
    BY <1>0, <1>1, <1>4, Sections DEF Calling
  <1>6. /\ Unborn' /\ OwnersCounted' /\ NoOwnerLeft' /\ ~Destroyed /\ ~Destroyed'
        /\ scanned = 0 /\ scanned' = 0 /\ torn = NoName /\ uncounted' = uncounted
        /\ \A r \in Procs \ {q} : CallKnown(r)'
        /\ \A r \in Procs : KeepsTable(r)' <=> KeepsTable(r)
    BY <1>0, <1>2, <1>5, SectionKeeps DEF Aside, Back, Gone, Calling, DATypeOK
  <1>7. DATypeOK'
    BY <1>0, <1>2, <1>5 DEF DATypeOK, Aside, CallsTyped
  <1>8. EntriesApart' /\ RefsRight' /\ OrphansStay' /\ EntriesFit' /\ SegmentsAccounted'
    <2>1. \A m \in Names : Holders(m)' = Holders(m)
      BY <1>2 DEF Holders
    <2> QED
      BY <1>0, <1>2, <1>5, <1>6, <2>1, TableUntouched DEF Aside
  <1>9. CASE Gone(q)
    <2>1. /\ given' \in [Procs -> SUBSET Names] /\ \A r \in Procs \ {q} : given'[r] = given[r]
          /\ Grown /\ \A r \in Procs \ {q} : \A m \in given[r] \ uncounted : linked'[m] = linked[m]
      BY <1>0, <1>2, Typed DEF Grown, DATypeOK
    <2>2. CallsKnown' /\ Pending' /\ SharedSegment' /\ MappedWithinSegment'
      BY <1>5, <1>9, <2>1, GoneKeeps
    <2> QED
      BY <1>6, <1>7, <1>8, <2>2 DEF DAInv
  <1>10. CASE Back(q, "remap", n, entry[i].size, 0)
    <2>1. CallsKnown'
      <3>1. CallKnown(q)'
        BY <1>0, <1>2, <1>5, <1>10 DEF CallsKnown, CallKnown, Aside, Back
      <3> QED
        BY <1>6, <3>1 DEF CallsKnown
    <2>2. Pending'
      <3>1. PendingCall(q)'
        <4>1. n \notin uncounted /\ mapping[q][n].segment \in Segments =>
                mapping[q][n].segment = linked[n]
          BY <1>0, <1>2, <1>5, <1>6, <1>10 DEF SharedSegment, CallsKnown, CallKnown, Failed,
             Segments, Aside, Back
        <4>2. linked[n] \in Segments => entry[i].size <= length[linked[n]]
          BY <1>0, <1>3, <1>5, <1>10 DEF EntriesFit, Segments, Aside, Back
        <4> QED
          BY <1>2, <1>5, <1>10, <4>1, <4>2 DEF PendingCall, Aside, Back
      <3>2. Grown
        BY <1>0, <1>2, Typed DEF Grown
      <3>3. \A r \in Procs \ {q} : PendingCall(r)'
        BY <1>0, <1>2, <1>5, <1>6, <1>10, <3>2, SamePending DEF Pending, Aside, Back
      <3> QED
        BY <3>1, <3>3 DEF Pending
    <2>3. SharedSegment' /\ MappedWithinSegment'
      BY <1>0, <1>2, <1>5, <1>6, <1>10 DEF SharedSegment, MappedWithinSegment, Aside, Back
    <2> QED
      BY <1>6, <1>7, <1>8, <2>1, <2>2, <2>3 DEF DAInv
  <1> QED
    BY <1>5, <1>9, <1>10

(* A name with a holder has an entry, unless it was handed out uncounted.  *)
LEMMA DeallocateUnknownDAInv ==
    ASSUME DAInv, NEW q \in Procs, NEW n \in Names, DeallocateUnknown(q, n)
    PROVE  DAInv'
  <1>0. /\ DATypeOK /\ EntriesApart /\ RefsRight /\ OrphansStay /\ EntriesFit /\ CallsKnown
        /\ Pending /\ SegmentsAccounted /\ SharedSegment /\ MappedWithinSegment
    BY DEF DAInv
  <1>1. /\ n \in given[q] /\ Cell(n) = {} /\ Section(q, "idle", NoName, 0, 0)
        /\ entry' = entry /\ linked' = linked /\ length' = length /\ orphans' = orphans
        /\ torn' = torn
    BY DEF DeallocateUnknown, files, leaks
  <1>2. /\ given' \in [Procs -> SUBSET Names] /\ given'[q] = given[q] \ {n}
        /\ \A r \in Procs \ {q} : given'[r] = given[r]
    BY <1>0 DEF DeallocateUnknown, DATypeOK
  <1>3. n \in uncounted
    BY <1>0, <1>1, CellIs DEF RefsRight, Holders
  <1>4. Aside(q) /\ (Back(q, "idle", NoName, 0, 0) \/ Gone(q))
    BY <1>0, <1>1, Sections DEF Calling
  <1>5. /\ Unborn' /\ OwnersCounted' /\ NoOwnerLeft' /\ ~Destroyed /\ ~Destroyed'
        /\ scanned = 0 /\ scanned' = 0 /\ torn = NoName /\ uncounted' = uncounted
        /\ \A r \in Procs \ {q} : CallKnown(r)'
        /\ \A r \in Procs : KeepsTable(r)' <=> KeepsTable(r)
    BY <1>2, <1>4, SectionKeeps DEF Aside, Back, Gone, Calling
  <1>6. DATypeOK'
    BY <1>0, <1>1, <1>2, <1>4 DEF DATypeOK, Aside, CallsTyped
  <1>7. EntriesApart' /\ RefsRight' /\ OrphansStay' /\ EntriesFit' /\ SegmentsAccounted'
    <2>1. \A m \in Names \ uncounted : Holders(m)' = Holders(m)
      BY <1>2, <1>3 DEF Holders
    <2> QED
      BY <1>0, <1>1, <1>4, <1>5, <2>1, TableUntouched DEF Aside
  <1>8. CASE Gone(q)
    <2>1. /\ given' \in [Procs -> SUBSET Names] /\ \A r \in Procs \ {q} : given'[r] = given[r]
          /\ Grown /\ \A r \in Procs \ {q} : \A m \in given[r] \ uncounted : linked'[m] = linked[m]
      BY <1>0, <1>1, <1>2, Typed DEF Grown
    <2>2. CallsKnown' /\ Pending' /\ SharedSegment' /\ MappedWithinSegment'
      BY <1>4, <1>8, <2>1, GoneKeeps
    <2> QED
      BY <1>5, <1>6, <1>7, <2>2 DEF DAInv
  <1>9. CASE Back(q, "idle", NoName, 0, 0)
    <2>1. CallsKnown'
      <3>1. CallKnown(q)'
        BY <1>0, <1>2, <1>4, <1>9 DEF CallsKnown, CallKnown, Aside, Back
      <3> QED
        BY <1>5, <3>1 DEF CallsKnown
    <2>2. Pending'
      <3>1. Grown
        BY <1>0, <1>1, Typed DEF Grown
      <3>2. \A r \in Procs \ {q} : PendingCall(r)'
        BY <1>0, <1>1, <1>4, <1>5, <1>9, <3>1, SamePending DEF Pending, Aside, Back
      <3> QED
        BY <1>4, <1>9, <3>2, NothingPending DEF Pending, Aside, Back
    <2>3. SharedSegment' /\ MappedWithinSegment'
      <3>1. \A r \in Procs : given'[r] \subseteq given[r]
        BY <1>2
      <3> QED
        BY <1>0, <1>1, <1>4, <1>5, <1>9, <3>1 DEF SharedSegment, MappedWithinSegment, Aside, Back
    <2> QED
      BY <1>5, <1>6, <1>7, <2>1, <2>2, <2>3 DEF DAInv
  <1> QED
    BY <1>4, <1>8, <1>9

(* What is returned without asking the table is out of the count.          *)
LEMMA AllocateAgainDAInv ==
    ASSUME DAInv, NEW q \in Procs, NEW n \in Names, AllocateAgain(q, n)
    PROVE  DAInv'
  <1>0. /\ DATypeOK /\ Unborn /\ OwnersCounted /\ NoOwnerLeft /\ EntriesApart /\ RefsRight
        /\ OrphansStay /\ EntriesFit /\ CallsKnown /\ Pending
        /\ SegmentsAccounted /\ SharedSegment /\ MappedWithinSegment
    BY DEF DAInv
  <1>1. /\ pc[q] = "idle" /\ n \in names[q] /\ uncounted' = uncounted \cup {n}
        /\ entry' = entry /\ lost' = lost /\ count' = count /\ scanned' = scanned
        /\ linked' = linked /\ length' = length
        /\ pc' = pc /\ local' = local /\ manager' = manager /\ allocator' = allocator /\ late' = late
        /\ names' = names /\ mapping' = mapping /\ orphans' = orphans /\ torn' = torn
    BY DEF AllocateAgain, table, files, managers, private, leaks
  <1>2. /\ given' \in [Procs -> SUBSET Names] /\ given'[q] = given[q] \cup {n}
        /\ \A r \in Procs \ {q} : given'[r] = given[r]
    BY <1>0 DEF AllocateAgain, DATypeOK
  <1>3. DATypeOK' /\ Unborn'
    BY <1>0, <1>1, <1>2 DEF DATypeOK, Unborn
  <1>4. /\ OwnersCounted' /\ NoOwnerLeft' /\ (Destroyed' <=> Destroyed)
        /\ \A r \in Procs : KeepsTable(r)' <=> KeepsTable(r)
    BY <1>0, <1>1, OwnersUntouched DEF Calling
  <1>5. EntriesApart' /\ RefsRight' /\ OrphansStay' /\ EntriesFit' /\ SegmentsAccounted'
    <2>1. \A m \in Names \ uncounted' : Holders(m)' = Holders(m)
      BY <1>1, <1>2 DEF Holders
    <2> QED
      BY <1>0, <1>1, <1>4, <2>1, TableUntouched
  <1>6. CallsKnown'
    <2>1. CallKnown(q)'
      BY <1>0, <1>1, <1>2 DEF CallsKnown, CallKnown
    <2>2. \A r \in Procs \ {q} : CallKnown(r)'
      BY <1>0, <1>1, <1>2, SameCall DEF CallsKnown
    <2> QED
      BY <2>1, <2>2 DEF CallsKnown
  <1>7. Pending'
    <2>1. Grown
      BY <1>0, <1>1, Typed DEF Grown
    <2> QED
      BY <1>0, <1>1, <1>4, <2>1, SamePending DEF Pending
  <1>8. SharedSegment' /\ MappedWithinSegment'
    <2>1. \A r \in Procs : given'[r] \ uncounted' \subseteq given[r] \ uncounted
      BY <1>1, <1>2
    <2> QED
      BY <1>0, <1>1, <1>4, <2>1 DEF SharedSegment, MappedWithinSegment
  <1> QED
    BY <1>3, <1>4, <1>5, <1>6, <1>7, <1>8 DEF DAInv

(* A segment with no entry is recorded as one that stays.                  *)
LEMMA AllocateTableFullDAInv ==
    ASSUME DAInv, NEW q \in Procs, NEW n \in Names, NEW size \in Sizes,
           AllocateTableFull(q, n, size)
    PROVE  DAInv'
  <1>0. /\ DATypeOK /\ EntriesApart /\ RefsRight /\ OrphansStay /\ EntriesFit /\ CallsKnown
        /\ Pending /\ SegmentsAccounted /\ SharedSegment /\ MappedWithinSegment
    BY DEF DAInv
  <1>1. PICK g \in Unmade : /\ linked' = [linked EXCEPT ![n] = g]
                            /\ length' = [length EXCEPT ![g] = size]
    BY DEF AllocateTableFull
  <1>2. /\ orphans' = orphans \cup {n} /\ Section(q, "idle", NoName, 0, 0)
        /\ entry' = entry /\ given' = given /\ torn' = torn
    BY DEF AllocateTableFull
  <1>3. /\ g \in Segments /\ length[g] = 0 /\ linked[n] = 0 /\ \A j \in Rows : entry[j].name # n
    BY <1>0, Fresh, CellIs DEF AllocateTableFull
  <1>4. /\ linked' \in [Names -> Segments \cup {0}] /\ linked'[n] = g /\ g # 0
        /\ \A m \in Names \ {n} : linked'[m] = linked[m]
    BY <1>0, <1>1, <1>3 DEF DATypeOK, Segments
  <1>5. length' \in [Segments -> Sizes \cup {0}] /\ Grown
    <2>1. /\ length' \in [Segments -> Sizes \cup {0}] /\ length'[g] = size
          /\ \A h \in Segments \ {g} : length'[h] = length[h]
      BY <1>0, <1>1, <1>3 DEF DATypeOK
    <2>2. (\A h \in Segments : length[h] \in Nat) /\ size \in Nat
      BY <1>0, Typed, DynamicSizesAssumption
    <2> QED
      BY <1>3, <2>1, <2>2 DEF Grown
  <1>6. Aside(q) /\ (Back(q, "idle", NoName, 0, 0) \/ Gone(q))
    BY <1>0, <1>2, Sections DEF Calling
  <1>7. /\ Unborn' /\ OwnersCounted' /\ NoOwnerLeft' /\ ~Destroyed /\ ~Destroyed'
        /\ scanned = 0 /\ scanned' = 0 /\ torn = NoName /\ uncounted' = uncounted
        /\ \A r \in Procs \ {q} : CallKnown(r)'
        /\ \A r \in Procs : KeepsTable(r)' <=> KeepsTable(r)
    BY <1>0, <1>2, <1>6, SectionKeeps DEF Aside, Back, Gone, Calling, DATypeOK
  <1>8. n \notin uncounted => Holders(n) = {}
    BY <1>0, <1>3 DEF RefsRight
  <1>9. DATypeOK'
    BY <1>0, <1>2, <1>4, <1>5, <1>6 DEF DATypeOK, Aside, CallsTyped
  <1>10. EntriesApart' /\ RefsRight'
    BY <1>0, <1>2, <1>6 DEF EntriesApart, RefsRight, Holders, Aside
  <1>11. OrphansStay'
    BY <1>0, <1>2, <1>3, <1>4, Typed DEF OrphansStay
  <1>12. EntriesFit'
    <2> SUFFICES ASSUME NEW j \in Rows, entry[j].name # NoName, linked'[entry[j].name] # 0
                 PROVE  entry[j].size <= length'[linked'[entry[j].name]]
      BY <1>2 DEF EntriesFit
    <2>1. entry[j].name \in Names \ {n}
      BY <1>0, <1>3, Typed
    <2>2. linked'[entry[j].name] = linked[entry[j].name]
      BY <1>4, <2>1
    <2> QED
      BY <1>0, <1>2, <1>5, <1>6, <2>2, StillFits DEF Aside
  <1>13. SegmentsAccounted'
    <2> SUFFICES ASSUME NEW m \in Names \ uncounted
                 PROVE  linked'[m] # 0 <=>
                          m \in orphans' \/ \E j \in Rows : entry[j].name = m /\ entry[j].refs > 0
      BY <1>2, <1>6, <1>7, DynamicNameAssumption DEF SegmentsAccounted, Rows, Aside
    <2>1. linked[m] # 0 <=> m \in orphans \/ \E j \in Rows : entry[j].name = m /\ entry[j].refs > 0
      BY <1>0, <1>7, DynamicNameAssumption DEF SegmentsAccounted, Rows
    <2> QED
      BY <1>2, <1>4, <2>1
  <1>14. CASE Gone(q)
    <2>1. /\ given' \in [Procs -> SUBSET Names] /\ \A r \in Procs \ {q} : given'[r] = given[r]
          /\ Grown /\ \A r \in Procs \ {q} : \A m \in given[r] \ uncounted : linked'[m] = linked[m]
      BY <1>0, <1>2, <1>4, <1>5, <1>8, Typed DEF Holders, DATypeOK
    <2>2. CallsKnown' /\ Pending' /\ SharedSegment' /\ MappedWithinSegment'
      BY <1>6, <1>14, <2>1, GoneKeeps
    <2> QED
      BY <1>7, <1>9, <1>10, <1>11, <1>12, <1>13, <2>2 DEF DAInv
  <1>15. CASE Back(q, "idle", NoName, 0, 0)
    <2>1. CallsKnown'
      <3>1. CallKnown(q)'
        BY <1>0, <1>2, <1>6, <1>15 DEF CallsKnown, CallKnown, Aside, Back
      <3> QED
        BY <1>7, <3>1 DEF CallsKnown
    <2>2. Pending'
      <3>1. ASSUME NEW r \in Procs \ {q}
            PROVE  PendingCall(r)'
        <4>1. pc[r] = "map" /\ local[r].name \notin uncounted => local[r].name \in Names \ {n}
          BY <1>0, <1>8 DEF CallsKnown, CallKnown, Holders
        <4>2. pc[r] = "map" /\ local[r].name \notin uncounted =>
                linked'[local[r].name] = linked[local[r].name]
          BY <1>4, <4>1
        <4> QED
          BY <1>0, <1>5, <1>6, <1>7, <1>15, <4>2, SamePending DEF Pending, Aside, Back
      <3> QED
        BY <1>6, <1>15, <3>1, NothingPending DEF Pending, Aside, Back
    <2>3. SharedSegment'
      <3> SUFFICES ASSUME NEW r \in Procs, NEW m \in (given[r] \cap names[r]) \ uncounted
                   PROVE  mapping[r][m].segment \in {linked'[m], Failed}
        BY <1>2, <1>6, <1>15 DEF SharedSegment, Aside, Back
      <3>1. m \in Names \ {n}
        BY <1>0, <1>8, Typed DEF Holders
      <3> QED
        BY <1>0, <1>4, <1>7, <3>1 DEF SharedSegment
    <2>4. MappedWithinSegment'
      BY <1>0, <1>2, <1>5, <1>6, <1>15, StillMapped DEF Aside, Back
    <2> QED
      BY <1>7, <1>9, <1>10, <1>11, <1>12, <1>13, <2>1, <2>2, <2>3, <2>4 DEF DAInv
  <1> QED
    BY <1>6, <1>14, <1>15

(* One more counted, and the segment is as long as the entry says before   *)
(* the lock is let go.                                                     *)
LEMMA AllocateExistingDAInv ==
    ASSUME DAInv, NEW q \in Procs, NEW n \in Names, NEW size \in Sizes,
           AllocateExisting(q, n, size)
    PROVE  DAInv'
  <1>0. /\ DATypeOK /\ EntriesApart /\ RefsRight /\ OrphansStay /\ EntriesFit /\ CallsKnown
        /\ Pending /\ SegmentsAccounted /\ SharedSegment /\ MappedWithinSegment
    BY DEF DAInv
  <1> DEFINE grownSize(i) == Larger(entry[i].size, size)
  <1>1. PICK i \in Cell(n) :
          /\ entry' = [entry EXCEPT ![i] = IncRef([@ EXCEPT !.size = grownSize(i)])]
          /\ length' = [length EXCEPT ![linked[n]] = Larger(@, grownSize(i))]
          /\ Section(q, "map", n, grownSize(i), linked[n])
    BY DEF AllocateExisting
  <1> DEFINE grown == grownSize(i)
             g == linked[n]
  <1>2. i \in Rows /\ entry[i].name = n /\ n # NoName /\ n \notin orphans
    BY <1>0, CellIs, DynamicNameAssumption DEF OrphansStay
  <1>3. n \notin names[q] /\ g \in Segments /\ linked' = linked
    BY <1>0, Typed DEF AllocateExisting
  <1>4. grown \in Sizes /\ grown >= entry[i].size /\ entry[i].size \in Nat /\ Sizes \subseteq Nat
    <2>1. entry[i].size \in Sizes \cup {0} /\ entry[i].size > 0
      BY <1>0, <1>2 DEF DATypeOK, EntriesApart, Rows
    <2> QED
      <3>1. Sizes \subseteq Nat /\ size \in Nat /\ entry[i].size \in Sizes /\ entry[i].size \in Nat
        <4>1. Sizes \subseteq Nat /\ 0 \notin Sizes
          BY DynamicSizesAssumption
        <4>2. entry[i].size \in Sizes
          BY <2>1, <4>1
        <4> QED
          BY <4>1, <4>2
      <3>2. CASE entry[i].size < size
        <4>1. grown = size
          BY <3>2 DEF Larger
        <4> QED
          BY <3>1, <3>2, <4>1
      <3>3. CASE ~(entry[i].size < size)
        <4>1. grown = entry[i].size
          BY <3>3 DEF Larger
        <4> QED
          BY <3>1, <4>1
      <3> QED
        BY <3>2, <3>3
  <1>5. /\ entry' = [entry EXCEPT ![i] = IncRef([@ EXCEPT !.size = grown])]
        /\ length' = [length EXCEPT ![g] = Larger(@, grown)]
        /\ Section(q, "map", n, grown, g)
    BY <1>1
  <1> HIDE DEF grown, grownSize, g
  <1>6. /\ entry' \in [Rows -> [name : Names \cup {NoName}, size : Sizes \cup {0}, refs : Int]]
        /\ entry'[i].name = n /\ entry'[i].size = grown /\ entry'[i].refs = entry[i].refs + 1
        /\ \A j \in Rows \ {i} : entry'[j] = entry[j]
    <2> DEFINE c == [entry[i] EXCEPT !.size = grown]
               e == IncRef(c)
               d == [name |-> n, size |-> grown, refs |-> entry[i].refs + 1]
    <2>1. entry[i] \in [name : Names \cup {NoName}, size : Sizes \cup {0}, refs : Int]
      BY <1>0, <1>2 DEF DATypeOK, Rows
    <2>2. /\ e \in [name : Names \cup {NoName}, size : Sizes \cup {0}, refs : Int]
          /\ e.name = n /\ e.size = grown /\ e.refs = entry[i].refs + 1
      <3>1. c = [name |-> n, size |-> grown, refs |-> entry[i].refs]
        BY <1>2, <2>1
      <3> HIDE DEF c
      <3>2. e = d
        BY <3>1 DEF IncRef
      <3>3. d \in [name : Names \cup {NoName}, size : Sizes \cup {0}, refs : Int]
        BY <1>4, <2>1
      <3>4. d.name = n /\ d.size = grown /\ d.refs = entry[i].refs + 1
        OBVIOUS
      <3> HIDE DEF d, e
      <3> QED
        BY <3>2, <3>3, <3>4
    <2>3. entry' = [entry EXCEPT ![i] = e]
      BY <1>5
    <2> HIDE DEF e
    <2> QED
      BY <1>0, <1>2, <2>2, <2>3 DEF DATypeOK, Rows
  <1>7. length' \in [Segments -> Sizes \cup {0}] /\ Grown /\ grown <= length'[g]
    <2>1. length[g] \in Sizes \cup {0} /\ length[g] \in Nat
      BY <1>0, <1>3, Typed DEF DATypeOK
    <2>2. /\ Larger(length[g], grown) \in Sizes \cup {0}
          /\ length[g] <= Larger(length[g], grown) /\ grown <= Larger(length[g], grown)
          /\ Larger(length[g], grown) \in Nat
      <3>1. CASE length[g] < grown
        <4>1. Larger(length[g], grown) = grown /\ grown \in Nat
          BY <1>4, <3>1 DEF Larger
        <4> QED
          BY <1>4, <2>1, <3>1, <4>1
      <3>2. CASE ~(length[g] < grown)
        <4>1. Larger(length[g], grown) = length[g] /\ grown \in Nat
          BY <1>4, <3>2 DEF Larger
        <4> QED
          BY <1>4, <2>1, <3>2, <4>1
      <3> QED
        BY <3>1, <3>2
    <2>3. /\ length' \in [Segments -> Sizes \cup {0}] /\ length'[g] = Larger(length[g], grown)
          /\ \A h \in Segments \ {g} : length'[h] = length[h]
      BY <1>0, <1>3, <1>5, <2>2 DEF DATypeOK
    <2>4. \A h \in Segments : length[h] \in Nat
      BY <1>0, Typed
    <2> QED
      BY <2>2, <2>3, <2>4 DEF Grown
  <1>8. /\ given' \in [Procs -> SUBSET Names] /\ given'[q] = given[q] \cup {n}
        /\ \A r \in Procs \ {q} : given'[r] = given[r]
        /\ orphans' = orphans /\ torn' = torn
    BY <1>0 DEF AllocateExisting, CountedIn, DATypeOK, leaks
  <1>9. Aside(q) /\ (Back(q, "map", n, grown, g) \/ Gone(q))
    BY <1>0, <1>3, <1>4, <1>5, Sections DEF Calling
  <1>10. /\ Unborn' /\ OwnersCounted' /\ NoOwnerLeft' /\ ~Destroyed /\ ~Destroyed'
         /\ scanned = 0 /\ scanned' = 0 /\ torn = NoName /\ uncounted' = uncounted
         /\ \A r \in Procs \ {q} : CallKnown(r)'
         /\ \A r \in Procs : KeepsTable(r)' <=> KeepsTable(r)
    BY <1>8, <1>9, SectionKeeps DEF Aside, Back, Gone, Calling
  <1>11. given[q] \subseteq names[q] /\ q \notin Holders(n)
    BY <1>0, <1>3, <1>9 DEF CallsKnown, CallKnown, Holders, Aside
  <1>12. DATypeOK'
    BY <1>0, <1>3, <1>6, <1>7, <1>8, <1>9 DEF DATypeOK, Rows, Aside, CallsTyped
  <1>13. EntriesApart' /\ OrphansStay'
    <2>1. \A j \in Rows : entry'[j].name = entry[j].name
      BY <1>2, <1>6
    <2>2. grown > 0
      BY <1>4, DynamicSizesAssumption
    <2> QED
      BY <1>0, <1>3, <1>6, <1>8, <2>1, <2>2 DEF EntriesApart, OrphansStay
  <1>14. RefsRight'
    <2> SUFFICES ASSUME NEW m \in Names \ uncounted
                 PROVE  /\ IsFiniteSet(Holders(m)')
                        /\ \A j \in Rows : entry'[j].name = m => entry'[j].refs = Cardinality(Holders(m)')
                        /\ Holders(m)' # {} => \E j \in Rows : entry'[j].name = m
      BY <1>9 DEF RefsRight, Aside
    <2>1. /\ IsFiniteSet(Holders(m))
          /\ \A j \in Rows : entry[j].name = m => entry[j].refs = Cardinality(Holders(m))
          /\ Holders(m) # {} => \E j \in Rows : entry[j].name = m
      BY <1>0 DEF RefsRight
    <2>2. CASE m = n
      <3>1. Holders(m)' = Holders(m) \cup {q}
        BY <1>8, <2>2 DEF Holders
      <3>2. \A j \in Rows : entry'[j].name = n => j = i
        BY <1>0, <1>2, <1>6 DEF EntriesApart
      <3>3. /\ IsFiniteSet(Holders(m) \cup {q})
            /\ Cardinality(Holders(m) \cup {q}) = Cardinality(Holders(m)) + 1
        BY <1>11, <2>1, <2>2, HolderJoins
      <3> QED
        BY <1>2, <1>6, <2>1, <2>2, <3>1, <3>2, <3>3
    <2>3. CASE m # n
      <3>1. Holders(m)' = Holders(m)
        BY <1>8, <2>3 DEF Holders
      <3> QED
        BY <1>2, <1>6, <2>1, <2>3, <3>1
    <2> QED
      BY <2>2, <2>3
  <1>15. EntriesFit'
    <2> SUFFICES ASSUME NEW j \in Rows, entry'[j].name # NoName, linked[entry'[j].name] # 0
                 PROVE  entry'[j].size <= length'[linked[entry'[j].name]]
      BY <1>3 DEF EntriesFit
    <2>1. CASE j = i
      BY <1>6, <1>7, <2>1 DEF g
    <2>2. CASE j # i
      BY <1>0, <1>3, <1>6, <1>7, <1>9, <2>2, StillFits DEF Aside
    <2> QED
      BY <2>1, <2>2
  <1>16. SegmentsAccounted'
    <2> SUFFICES ASSUME NEW m \in Names \ uncounted
                 PROVE  linked[m] # 0 <=>
                          m \in orphans \/ \E j \in Rows : entry'[j].name = m /\ entry'[j].refs > 0
      BY <1>3, <1>8, <1>9, <1>10, DynamicNameAssumption DEF SegmentsAccounted, Rows, Aside
    <2>1. linked[m] # 0 <=> m \in orphans \/ \E j \in Rows : entry[j].name = m /\ entry[j].refs > 0
      BY <1>0, <1>10, DynamicNameAssumption DEF SegmentsAccounted, Rows
    <2>2. CASE m = n
      <3>1. entry[i].refs > 0
        BY <1>0, <1>2, <1>3, <2>1, <2>2 DEF EntriesApart, g, Segments
      <3>2. entry'[i].name = m /\ entry'[i].refs > 0
        BY <1>0, <1>2, <1>6, <2>2, <3>1, Typed
      <3> QED
        BY <1>2, <1>3, <2>2, <3>2 DEF g, Segments
    <2>3. CASE m # n
      BY <1>2, <1>6, <2>1, <2>3
    <2> QED
      BY <2>2, <2>3
  <1>17. CASE Gone(q)
    <2>1. /\ given' \in [Procs -> SUBSET Names] /\ \A r \in Procs \ {q} : given'[r] = given[r]
          /\ Grown /\ \A r \in Procs \ {q} : \A m \in given[r] \ uncounted : linked'[m] = linked[m]
      BY <1>3, <1>7, <1>8
    <2>2. CallsKnown' /\ Pending' /\ SharedSegment' /\ MappedWithinSegment'
      BY <1>9, <1>17, <2>1, GoneKeeps
    <2> QED
      BY <1>10, <1>12, <1>13, <1>14, <1>15, <1>16, <2>2 DEF DAInv
  <1>18. CASE Back(q, "map", n, grown, g)
    <2>1. CallsKnown'
      <3>1. CallKnown(q)'
        BY <1>0, <1>8, <1>9, <1>11, <1>18 DEF CallsKnown, CallKnown, Aside, Back
      <3> QED
        BY <1>10, <3>1 DEF CallsKnown
    <2>2. Pending'
      <3>1. PendingCall(q)'
        BY <1>3, <1>7, <1>9, <1>18 DEF PendingCall, g, Aside, Back
      <3>2. \A r \in Procs \ {q} : PendingCall(r)'
        BY <1>0, <1>3, <1>7, <1>9, <1>10, <1>18, SamePending DEF Pending, Aside, Back
      <3> QED
        BY <3>1, <3>2 DEF Pending
    <2>3. SharedSegment'
      <3>1. given'[q] \cap names[q] \subseteq given[q]
        BY <1>3, <1>8
      <3> QED
        BY <1>0, <1>3, <1>8, <1>9, <1>10, <1>18, <3>1 DEF SharedSegment, Aside, Back
    <2>4. MappedWithinSegment'
      <3>1. mapping[q][n].segment \notin Segments
        BY <1>0, <1>3 DEF CallsKnown, CallKnown, Nothing, Segments
      <3>2. \A r \in Procs : \A m \in given'[r] : m \in given[r] \/ (r = q /\ m = n)
        BY <1>8
      <3> QED
        BY <1>0, <1>7, <1>9, <1>18, <3>1, <3>2, StillMapped DEF Aside, Back
    <2> QED
      BY <1>10, <1>12, <1>13, <1>14, <1>15, <1>16, <2>1, <2>2, <2>3, <2>4 DEF DAInv
  <1> QED
    BY <1>9, <1>17, <1>18

(* One fewer counted, and the segment is unlinked by the last one only.    *)
LEMMA DeallocateKnownDAInv ==
    ASSUME DAInv, NEW q \in Procs, NEW n \in Names, DeallocateKnown(q, n)
    PROVE  DAInv'
  <1>0. /\ DATypeOK /\ EntriesApart /\ RefsRight /\ OrphansStay /\ EntriesFit /\ CallsKnown
        /\ Pending /\ SegmentsAccounted /\ SharedSegment /\ MappedWithinSegment
    BY DEF DAInv
  <1>1. PICK i \in Cell(n) : DecRef(i)
    BY DEF DeallocateKnown
  <1>2. n \in given[q] /\ Section(q, "unmap", n, 0, 0) /\ length' = length /\ orphans' = orphans
        /\ torn' = torn
    BY DEF DeallocateKnown, leaks
  <1>3. i \in Rows /\ entry[i].name = n /\ n # NoName /\ n \notin orphans /\ entry[i].refs \in Int
    BY <1>0, <1>1, CellIs, Typed, DynamicNameAssumption DEF OrphansStay
  <1>4. /\ entry' \in [Rows -> [name : Names \cup {NoName}, size : Sizes \cup {0}, refs : Int]]
        /\ entry'[i].name = n /\ entry'[i].size = entry[i].size /\ entry'[i].refs = entry[i].refs - 1
        /\ \A j \in Rows \ {i} : entry'[j] = entry[j]
    <2> DEFINE e == [entry[i] EXCEPT !.refs = @ - 1]
    <2>1. entry[i] \in [name : Names \cup {NoName}, size : Sizes \cup {0}, refs : Int]
      BY <1>0, <1>3 DEF DATypeOK, Rows
    <2>2. /\ e \in [name : Names \cup {NoName}, size : Sizes \cup {0}, refs : Int]
          /\ e.name = n /\ e.size = entry[i].size /\ e.refs = entry[i].refs - 1
      BY <1>3, <2>1
    <2>3. entry' = [entry EXCEPT ![i] = e]
      BY <1>1 DEF DecRef
    <2> HIDE DEF e
    <2> QED
      BY <1>0, <1>3, <2>2, <2>3 DEF DATypeOK, Rows
  <1>5. /\ linked' \in [Names -> Segments \cup {0}]
        /\ \A m \in Names \ {n} : linked'[m] = linked[m]
        /\ linked'[n] = IF entry[i].refs <= 1 THEN 0 ELSE linked[n]
    <2>1. linked' = IF entry[i].refs <= 1 THEN [linked EXCEPT ![n] = 0] ELSE linked
      BY <1>1, <1>3 DEF DecRef
    <2>2. CASE entry[i].refs <= 1
      BY <1>0, <2>1, <2>2 DEF DATypeOK
    <2>3. CASE ~(entry[i].refs <= 1)
      BY <1>0, <2>1, <2>3 DEF DATypeOK
    <2> QED
      BY <2>2, <2>3
  <1>6. /\ given' \in [Procs -> SUBSET Names] /\ given'[q] = given[q] \ {n}
        /\ \A r \in Procs \ {q} : given'[r] = given[r]
    BY <1>0 DEF DeallocateKnown, DATypeOK
  <1>7. Aside(q) /\ (Back(q, "unmap", n, 0, 0) \/ Gone(q))
    BY <1>0, <1>2, Sections DEF Calling
  <1>8. /\ Unborn' /\ OwnersCounted' /\ NoOwnerLeft' /\ ~Destroyed /\ ~Destroyed'
        /\ scanned = 0 /\ scanned' = 0 /\ torn = NoName /\ uncounted' = uncounted
        /\ \A r \in Procs \ {q} : CallKnown(r)'
        /\ \A r \in Procs : KeepsTable(r)' <=> KeepsTable(r)
    BY <1>6, <1>7, SectionKeeps DEF Aside, Back, Gone, Calling
  <1>9. Grown
    BY <1>0, <1>2, Typed DEF Grown
  (* while another process holds n, its segment stays linked *)
  <1>10. n \notin uncounted =>
           /\ IsFiniteSet(Holders(n) \ {q})
           /\ Cardinality(Holders(n) \ {q}) = entry[i].refs - 1
           /\ entry[i].refs <= 1 <=> Holders(n) \ {q} = {}
    <2> SUFFICES ASSUME n \notin uncounted
                 PROVE  /\ IsFiniteSet(Holders(n) \ {q})
                        /\ Cardinality(Holders(n) \ {q}) = entry[i].refs - 1
                        /\ entry[i].refs <= 1 <=> Holders(n) \ {q} = {}
      OBVIOUS
    <2>1. IsFiniteSet(Holders(n)) /\ entry[i].refs = Cardinality(Holders(n)) /\ q \in Holders(n)
      BY <1>0, <1>2, <1>3 DEF RefsRight, Holders
    <2>2. /\ IsFiniteSet(Holders(n) \ {q})
          /\ Cardinality(Holders(n) \ {q}) = Cardinality(Holders(n)) - 1
      BY <2>1, HolderLeaves
    <2>3. /\ Cardinality(Holders(n) \ {q}) \in Nat
          /\ Cardinality(Holders(n) \ {q}) = 0 <=> Holders(n) \ {q} = {}
      BY <2>2, FS_CardinalityType, FS_EmptySet
    <2> QED
      BY <1>3, <2>1, <2>2, <2>3
  <1>11. \A r \in Procs \ {q}, m \in Names \ uncounted :
            m \in given[r] => linked'[m] = linked[m]
    BY <1>5, <1>10 DEF Holders
  <1>12. DATypeOK'
    BY <1>0, <1>2, <1>4, <1>5, <1>6, <1>7 DEF DATypeOK, Rows, Aside, CallsTyped
  <1>13. EntriesApart' /\ OrphansStay'
    <2>1. \A j \in Rows : entry'[j].name = entry[j].name /\ entry'[j].size = entry[j].size
      BY <1>3, <1>4
    <2>2. EntriesApart'
      BY <1>0, <2>1 DEF EntriesApart
    <2>3. OrphansStay'
      BY <1>0, <1>2, <1>3, <1>5, <2>1, Typed DEF OrphansStay
    <2> QED
      BY <2>2, <2>3
  <1>14. RefsRight'
    <2> SUFFICES ASSUME NEW m \in Names \ uncounted
                 PROVE  /\ IsFiniteSet(Holders(m)')
                        /\ \A j \in Rows : entry'[j].name = m => entry'[j].refs = Cardinality(Holders(m)')
                        /\ Holders(m)' # {} => \E j \in Rows : entry'[j].name = m
      BY <1>7 DEF RefsRight, Aside
    <2>1. CASE m = n
      <3>1. Holders(m)' = Holders(m) \ {q}
        BY <1>6, <2>1 DEF Holders
      <3>2. \A j \in Rows : entry'[j].name = n => j = i
        BY <1>0, <1>3, <1>4 DEF EntriesApart
      <3> QED
        BY <1>3, <1>4, <1>10, <2>1, <3>1, <3>2
    <2>2. CASE m # n
      <3>1. Holders(m)' = Holders(m)
        BY <1>6, <2>2 DEF Holders
      <3> QED
        BY <1>0, <1>3, <1>4, <2>2, <3>1 DEF RefsRight
    <2> QED
      BY <2>1, <2>2
  <1>15. EntriesFit'
    <2> SUFFICES ASSUME NEW j \in Rows, entry'[j].name # NoName, linked'[entry'[j].name] # 0
                 PROVE  entry'[j].size <= length'[linked'[entry'[j].name]]
      BY DEF EntriesFit
    <2>1. entry'[j].name = entry[j].name /\ entry'[j].size = entry[j].size
      BY <1>3, <1>4
    <2>2. linked'[entry[j].name] = linked[entry[j].name]
      BY <1>0, <1>5, <2>1, Typed
    <2> QED
      BY <1>0, <1>7, <1>9, <2>1, <2>2, StillFits DEF Aside
  <1>16. SegmentsAccounted'
    <2> SUFFICES ASSUME NEW m \in Names \ uncounted
                 PROVE  linked'[m] # 0 <=>
                          m \in orphans \/ \E j \in Rows : entry'[j].name = m /\ entry'[j].refs > 0
      BY <1>2, <1>7, <1>8, DynamicNameAssumption DEF SegmentsAccounted, Rows, Aside
    <2>1. linked[m] # 0 <=> m \in orphans \/ \E j \in Rows : entry[j].name = m /\ entry[j].refs > 0
      BY <1>0, <1>8, DynamicNameAssumption DEF SegmentsAccounted, Rows
    <2>2. CASE m = n
      <3>1. \A j \in Rows : entry'[j].name = m <=> j = i
        BY <1>0, <1>3, <1>4, <2>2 DEF EntriesApart
      <3>2. entry[i].refs > 1 => linked[m] # 0
        BY <1>3, <2>1, <2>2
      <3> QED
        BY <1>3, <1>4, <1>5, <2>2, <3>1, <3>2
    <2>3. CASE m # n
      BY <1>3, <1>4, <1>5, <2>1, <2>3
    <2> QED
      BY <2>2, <2>3
  <1>17. CASE Gone(q)
    <2>1. /\ given' \in [Procs -> SUBSET Names] /\ \A r \in Procs \ {q} : given'[r] = given[r]
          /\ Grown /\ \A r \in Procs \ {q} : \A m \in given[r] \ uncounted : linked'[m] = linked[m]
      BY <1>0, <1>6, <1>9, <1>11, Typed
    <2>2. CallsKnown' /\ Pending' /\ SharedSegment' /\ MappedWithinSegment'
      BY <1>7, <1>17, <2>1, GoneKeeps
    <2> QED
      BY <1>8, <1>12, <1>13, <1>14, <1>15, <1>16, <2>2 DEF DAInv
  <1>18. CASE Back(q, "unmap", n, 0, 0)
    <2>1. CallsKnown'
      <3>1. CallKnown(q)'
        BY <1>0, <1>6, <1>7, <1>18 DEF CallsKnown, CallKnown, Aside, Back
      <3> QED
        BY <1>8, <3>1 DEF CallsKnown
    <2>2. Pending'
      <3>1. ASSUME NEW r \in Procs \ {q}
            PROVE  PendingCall(r)'
        <4>1. pc[r] = "map" => local[r].name \in Names /\ local[r].name \in given[r]
          BY <1>0 DEF CallsKnown, CallKnown
        <4>2. pc[r] = "map" /\ local[r].name \notin uncounted =>
                linked'[local[r].name] = linked[local[r].name]
          BY <1>11, <4>1
        <4> QED
          BY <1>0, <1>7, <1>8, <1>9, <1>18, <4>2, SamePending DEF Pending, Aside, Back
      <3> QED
        BY <1>7, <1>18, <3>1, NothingPending DEF Pending, Aside, Back
    <2>3. SharedSegment'
      <3> SUFFICES ASSUME NEW r \in Procs, NEW m \in (given'[r] \cap names[r]) \ uncounted
                   PROVE  mapping[r][m].segment \in {linked'[m], Failed}
        BY <1>7, <1>18 DEF SharedSegment, Aside, Back
      <3>1. m \in Names /\ m \in given[r] /\ (r = q => m # n)
        BY <1>0, <1>6, Typed
      <3>2. linked'[m] = linked[m]
        BY <1>5, <1>11, <3>1
      <3> QED
        BY <1>0, <1>8, <3>1, <3>2 DEF SharedSegment
    <2>4. MappedWithinSegment'
      <3>1. \A r \in Procs : given'[r] \subseteq given[r]
        BY <1>6
      <3> QED
        BY <1>0, <1>2, <1>7, <1>18, <3>1 DEF MappedWithinSegment, Aside, Back
    <2> QED
      BY <1>8, <1>12, <1>13, <1>14, <1>15, <1>16, <2>1, <2>2, <2>3, <2>4 DEF DAInv
  <1> QED
    BY <1>7, <1>17, <1>18

(* A child is nobody's owner, and what its parent holds is out of the      *)
(* count.                                                                  *)
LEMMA ForkChildDAInv ==
    ASSUME DAInv, NEW p \in Procs, NEW q \in Procs, ForkChild(p, q)
    PROVE  DAInv'
  <1>0. /\ DATypeOK /\ Unborn /\ OwnersCounted /\ NoOwnerLeft /\ EntriesApart /\ RefsRight
        /\ OrphansStay /\ EntriesFit /\ CallsKnown /\ Pending
        /\ SegmentsAccounted /\ SharedSegment /\ MappedWithinSegment
    BY DEF DAInv
  <1>1. /\ pc[p] = "idle" /\ pc[q] = "unborn" /\ uncounted' = uncounted \cup given[p]
        /\ entry' = entry /\ lost' = lost /\ count' = count /\ scanned' = scanned
        /\ linked' = linked /\ length' = length
        /\ local' = local /\ late' = late /\ orphans' = orphans /\ torn' = torn
    BY DEF ForkChild, table, files, leaks
  <1>2. /\ pc' \in [Procs -> {"unborn", "idle", "map", "remap", "unmap", "destroy", "ended", "dead"}]
        /\ pc'[q] = "idle" /\ \A r \in Procs \ {q} : pc'[r] = pc[r]
    BY <1>0 DEF ForkChild, DATypeOK
  <1>3. /\ manager' \in [Procs -> Procs \cup {NoOne}] /\ manager'[q] = manager[p]
        /\ allocator' \in [Procs -> Procs \cup {NoOne}] /\ allocator'[q] = allocator[p]
        /\ \A r \in Procs \ {q} : manager'[r] = manager[r] /\ allocator'[r] = allocator[r]
    BY <1>0 DEF ForkChild, DATypeOK
  <1>4. /\ names' \in [Procs -> SUBSET Names] /\ names'[q] = names[p]
        /\ given' \in [Procs -> SUBSET Names] /\ given'[q] = given[p]
        /\ \A r \in Procs \ {q} : names'[r] = names[r] /\ given'[r] = given[r]
    BY <1>0 DEF ForkChild, DATypeOK
  <1>5. /\ mapping' \in [Procs -> [Names -> [segment : Segments \cup {0, Failed},
                                             size : Sizes \cup {0}]]]
        /\ mapping'[q] = mapping[p] /\ \A r \in Procs \ {q} : mapping'[r] = mapping[r]
    BY <1>0 DEF ForkChild, DATypeOK
  <1>6. /\ given[q] = {} /\ \A r \in Procs : manager[r] # q /\ allocator[r] # q
        /\ given[p] \subseteq names[p] /\ \A m \in Names \ names[p] : mapping[p][m] = Nothing
    BY <1>0, <1>1 DEF Unborn, CallsKnown, CallKnown
  <1>7. DATypeOK'
    BY <1>0, <1>1, <1>2, <1>3, <1>4, <1>5 DEF DATypeOK
  <1>8. Unborn'
    BY <1>0, <1>2, <1>3, <1>4 DEF Unborn
  <1>9. (Destroyed' <=> Destroyed) /\ Destroying' = Destroying
    BY <1>1, <1>2 DEF Destroyed, Destroying
  <1>10. OwnersCounted' /\ NoOwnerLeft' /\ \A r \in Procs : KeepsTable(r)' <=> KeepsTable(r)
    <2>1. \A r \in Procs : /\ manager'[r] = r <=> manager[r] = r
                           /\ allocator'[r] = r <=> allocator[r] = r
      BY <1>3, <1>6
    <2>2. ManagerOwners' = ManagerOwners /\ AllocatorOwners' = AllocatorOwners
      BY <2>1 DEF ManagerOwners, AllocatorOwners
    <2> QED
      BY <1>0, <1>1, <1>9, <2>1, <2>2 DEF OwnersCounted, NoOwnerLeft, KeepsTable
  <1>11. EntriesApart' /\ RefsRight' /\ OrphansStay' /\ EntriesFit' /\ SegmentsAccounted'
    <2>1. \A m \in Names \ uncounted' : Holders(m)' = Holders(m)
      BY <1>1, <1>4, <1>6 DEF Holders
    <2> QED
      BY <1>0, <1>1, <1>9, <2>1, TableUntouched
  <1>12. CallsKnown'
    <2>1. CallKnown(q)'
      BY <1>2, <1>4, <1>5, <1>6 DEF CallKnown
    <2>2. \A r \in Procs \ {q} : CallKnown(r)'
      BY <1>0, <1>1, <1>2, <1>4, <1>5, SameCall DEF CallsKnown
    <2> QED
      BY <2>1, <2>2 DEF CallsKnown
  <1>13. Pending'
    <2>1. Grown
      BY <1>0, <1>1, Typed DEF Grown
    <2>2. \A r \in Procs \ {q} : PendingCall(r)'
      BY <1>0, <1>1, <1>2, <1>5, <1>9, <1>10, <2>1, SamePending DEF Pending
    <2> QED
      BY <1>2, <2>2, NothingPending DEF Pending
  <1>14. SharedSegment' /\ MappedWithinSegment'
    <2>1. given'[q] \subseteq uncounted' /\ uncounted \subseteq uncounted'
      BY <1>1, <1>4
    <2>2. SharedSegment'
      BY <1>0, <1>1, <1>4, <1>5, <1>9, <1>10, <2>1 DEF SharedSegment
    <2>3. MappedWithinSegment'
      BY <1>0, <1>1, <1>4, <1>5, <2>1 DEF MappedWithinSegment
    <2> QED
      BY <2>2, <2>3
  <1> QED
    BY <1>7, <1>8, <1>10, <1>11, <1>12, <1>13, <1>14 DEF DAInv

(* An owner more; it is recorded as late when the table is on its way out. *)
LEMMA ConstructAllocatorDAInv ==
    ASSUME DAInv, NEW q \in Procs, ConstructAllocator(q)
    PROVE  DAInv'
  <1>0. /\ DATypeOK /\ Unborn /\ OwnersCounted /\ NoOwnerLeft /\ EntriesApart /\ RefsRight
        /\ OrphansStay /\ EntriesFit /\ CallsKnown /\ Pending
        /\ SegmentsAccounted /\ SharedSegment /\ MappedWithinSegment
    BY DEF DAInv
  <1>1. /\ pc[q] = "idle" /\ allocator[q] = NoOne /\ count' = count + 1
        /\ late' = IF Destroying = {} THEN late ELSE late \cup {q}
        /\ entry' = entry /\ lost' = lost /\ scanned' = scanned /\ linked' = linked /\ length' = length
        /\ pc' = pc /\ local' = local /\ manager' = manager /\ names' = names
        /\ mapping' = mapping /\ given' = given /\ uncounted' = uncounted /\ orphans' = orphans
        /\ torn' = torn
    BY DEF ConstructAllocator, files, private, leaks
  <1>2. /\ allocator' \in [Procs -> Procs \cup {NoOne}] /\ allocator'[q] = q
        /\ \A r \in Procs \ {q} : allocator'[r] = allocator[r]
    BY <1>0 DEF ConstructAllocator, DATypeOK
  <1>3. DATypeOK' /\ Unborn'
    <2>1. count' \in Nat /\ late' \in SUBSET Procs
      BY <1>0, <1>1 DEF DATypeOK
    <2>2. DATypeOK'
      BY <1>0, <1>1, <1>2, <2>1 DEF DATypeOK
    <2>3. Unborn'
      BY <1>0, <1>1, <1>2 DEF Unborn
    <2> QED
      BY <2>2, <2>3
  <1>4. Destroyed' = Destroyed /\ Destroying' = Destroying
    BY <1>1 DEF Destroyed, Destroying
  <1>5. OwnersCounted'
    <2>1. /\ ManagerOwners' = ManagerOwners /\ AllocatorOwners' = AllocatorOwners \cup {q}
          /\ q \notin AllocatorOwners
      BY <1>1, <1>2, DynamicProcessAssumption DEF ManagerOwners, AllocatorOwners
    <2>2. /\ IsFiniteSet(AllocatorOwners')
          /\ Cardinality(AllocatorOwners') = Cardinality(AllocatorOwners) + 1
          /\ Cardinality(AllocatorOwners) \in Nat /\ Cardinality(ManagerOwners) \in Nat
      BY <1>0, <2>1, HolderJoins, FS_CardinalityType DEF OwnersCounted
    <2> QED
      BY <1>0, <1>1, <2>1, <2>2 DEF OwnersCounted
  <1>6. NoOwnerLeft'
    BY <1>0, <1>1, <1>2, <1>4 DEF NoOwnerLeft
  <1>7. \A r \in Procs : Destroyed => (KeepsTable(r)' => KeepsTable(r))
    <2>1. Destroyed => Destroying # {}
      BY DEF Destroyed, Destroying
    <2> QED
      BY <1>1, <1>2, <2>1 DEF KeepsTable
  <1>8. EntriesApart' /\ RefsRight' /\ OrphansStay' /\ EntriesFit' /\ SegmentsAccounted'
    <2>1. \A m \in Names : Holders(m)' = Holders(m)
      BY <1>1 DEF Holders
    <2> QED
      BY <1>0, <1>1, <1>4, <2>1, TableUntouched
  <1>9. CallsKnown'
    BY <1>0, <1>1, SameCall DEF CallsKnown
  <1>10. Pending'
    <2>1. Grown
      BY <1>0, <1>1, Typed DEF Grown
    <2> QED
      BY <1>0, <1>1, <1>4, <1>7, <2>1, SamePending DEF Pending
  <1>11. SharedSegment' /\ MappedWithinSegment'
    BY <1>0, <1>1, <1>4, <1>7 DEF SharedSegment, MappedWithinSegment
  <1> QED
    BY <1>3, <1>5, <1>6, <1>8, <1>9, <1>10, <1>11 DEF DAInv

(* The last owner to go takes it upon itself to destroy the table; no      *)
(* other owner is left then, not even a dead one.                          *)
LEMMA OwnerDropped ==
    ASSUME DATypeOK, OwnersCounted, NoOwnerLeft, NEW q \in Procs, NEW creator, pc[q] = "idle",
           DropManager(q, creator), lost' = lost, scanned' = scanned,
           \A r \in Procs \ {q} : /\ manager'[r] = manager[r] /\ allocator'[r] = allocator[r]
                                  /\ r \in late <=> r \in late',
           \/ /\ creator = manager[q] /\ manager'[q] = NoOne
              /\ allocator[q] = NoOne /\ allocator'[q] = NoOne
           \/ creator = allocator[q] /\ allocator'[q] = NoOne /\ manager'[q] = manager[q]
    PROVE  /\ OwnersCounted' /\ NoOwnerLeft' /\ (Destroyed' <=> Destroyed) /\ count' \in Nat
           /\ pc' \in [Procs -> {"unborn", "idle", "map", "remap", "unmap", "destroy", "ended", "dead"}]
           /\ pc'[q] \in {"idle", "destroy"} /\ \A r \in Procs \ {q} : pc'[r] = pc[r]
  <1>0. NoOne # q
    BY DynamicProcessAssumption
  <1>1. /\ pc' \in [Procs -> {"unborn", "idle", "map", "remap", "unmap", "destroy", "ended", "dead"}]
        /\ pc'[q] \in {"idle", "destroy"} /\ \A r \in Procs \ {q} : pc'[r] = pc[r]
        /\ pc'[q] = "destroy" => creator = q /\ count <= 1
    BY DEF DropManager, DATypeOK
  <1>2. Destroyed' <=> Destroyed
    BY <1>1 DEF Destroyed
  <1>3. /\ IsFiniteSet(ManagerOwners) /\ IsFiniteSet(AllocatorOwners)
        /\ count = Cardinality(ManagerOwners) + Cardinality(AllocatorOwners)
        /\ Cardinality(ManagerOwners) \in Nat /\ Cardinality(AllocatorOwners) \in Nat
    BY FS_CardinalityType DEF OwnersCounted
  <1>4. CASE creator # q
    <2>1. ManagerOwners' = ManagerOwners /\ AllocatorOwners' = AllocatorOwners
      BY <1>0, <1>4 DEF ManagerOwners, AllocatorOwners
    <2>2. count' = count /\ pc'[q] = "idle" /\ Destroying' = Destroying
      BY <1>1, <1>4 DEF DropManager, Destroying
    <2>3. NoOwnerLeft'
      BY <1>0, <1>2, <2>2 DEF NoOwnerLeft
    <2> QED
      BY <1>1, <1>2, <1>3, <2>1, <2>2, <2>3 DEF OwnersCounted
  <1>5. CASE creator = q
    <2>1. count' = count - 1
      BY <1>5 DEF DropManager
    <2>2. \/ /\ q \in ManagerOwners /\ ManagerOwners' = ManagerOwners \ {q}
             /\ AllocatorOwners' = AllocatorOwners
          \/ /\ q \in AllocatorOwners /\ AllocatorOwners' = AllocatorOwners \ {q}
             /\ ManagerOwners' = ManagerOwners
      BY <1>0, <1>5 DEF ManagerOwners, AllocatorOwners
    <2>3. /\ IsFiniteSet(ManagerOwners') /\ IsFiniteSet(AllocatorOwners')
          /\ count' = Cardinality(ManagerOwners') + Cardinality(AllocatorOwners')
          /\ count > 0
      <3>1. CASE /\ q \in ManagerOwners /\ ManagerOwners' = ManagerOwners \ {q}
                 /\ AllocatorOwners' = AllocatorOwners
        <4>1. /\ IsFiniteSet(ManagerOwners \ {q})
              /\ Cardinality(ManagerOwners \ {q}) = Cardinality(ManagerOwners) - 1
              /\ Cardinality(ManagerOwners) > 0
          BY <1>3, <3>1, HolderLeaves
        <4> QED
          BY <1>3, <2>1, <3>1, <4>1
      <3>2. CASE /\ q \in AllocatorOwners /\ AllocatorOwners' = AllocatorOwners \ {q}
                 /\ ManagerOwners' = ManagerOwners
        <4>1. /\ IsFiniteSet(AllocatorOwners \ {q})
              /\ Cardinality(AllocatorOwners \ {q}) = Cardinality(AllocatorOwners) - 1
              /\ Cardinality(AllocatorOwners) > 0
          BY <1>3, <3>2, HolderLeaves
        <4> QED
          BY <1>3, <2>1, <3>2, <4>1
      <3> QED
        BY <2>2, <3>1, <3>2
    <2>4. Cardinality(ManagerOwners') \in Nat /\ Cardinality(AllocatorOwners') \in Nat
      BY <2>3, FS_CardinalityType
    <2>5. count <= 1 => ManagerOwners' = {} /\ AllocatorOwners' = {}
      <3> SUFFICES ASSUME count <= 1 PROVE ManagerOwners' = {} /\ AllocatorOwners' = {}
        OBVIOUS
      <3>1. Cardinality(ManagerOwners') = 0 /\ Cardinality(AllocatorOwners') = 0
        BY <1>3, <2>1, <2>3, <2>4
      <3> QED
        BY <2>3, <3>1, FS_EmptySet
    <2>6. NoOwnerLeft'
      <3>1. CASE pc'[q] = "destroy"
        <4>1. \A r \in Procs : manager'[r] # r /\ allocator'[r] # r
          BY <1>1, <2>5, <3>1 DEF ManagerOwners, AllocatorOwners
        <4> QED
          BY <1>2, <4>1 DEF NoOwnerLeft
      <3>2. CASE pc'[q] = "idle"
        <4>1. Destroying' = Destroying
          BY <1>1, <3>2 DEF Destroying
        <4> QED
          BY <1>0, <1>2, <4>1 DEF NoOwnerLeft
      <3> QED
        BY <1>1, <3>1, <3>2
    <2> QED
      BY <1>1, <1>2, <2>3, <2>4, <2>6 DEF OwnersCounted
  <1> QED
    BY <1>4, <1>5

(* An allocator goes with nothing given.                                   *)
LEMMA DestroyAllocatorDAInv ==
    ASSUME DAInv, NEW q \in Procs, DestroyAllocator(q)
    PROVE  DAInv'
  <1>0. /\ DATypeOK /\ Unborn /\ OwnersCounted /\ NoOwnerLeft /\ EntriesApart /\ RefsRight
        /\ OrphansStay /\ EntriesFit /\ CallsKnown /\ Pending
        /\ SegmentsAccounted /\ SharedSegment /\ MappedWithinSegment
    BY DEF DAInv
  <1>1. /\ pc[q] = "idle" /\ given[q] = {} /\ DropManager(q, allocator[q]) /\ late' = late \ {q}
        /\ entry' = entry /\ lost' = lost /\ scanned' = scanned /\ linked' = linked /\ length' = length
        /\ local' = local /\ manager' = manager
        /\ given' = given /\ uncounted' = uncounted /\ orphans' = orphans /\ torn' = torn
    BY DEF DestroyAllocator, files, leaks
  <1>2. /\ allocator' \in [Procs -> Procs \cup {NoOne}] /\ allocator'[q] = NoOne
        /\ names' \in [Procs -> SUBSET Names] /\ names'[q] = {}
        /\ \A r \in Procs \ {q} : allocator'[r] = allocator[r] /\ names'[r] = names[r]
    BY <1>0 DEF DestroyAllocator, DATypeOK
  <1>3. /\ mapping' \in [Procs -> [Names -> [segment : Segments \cup {0, Failed},
                                             size : Sizes \cup {0}]]]
        /\ \A m \in Names : mapping'[q][m] = Nothing
        /\ \A r \in Procs \ {q} : mapping'[r] = mapping[r]
    BY <1>0 DEF DestroyAllocator, DATypeOK, Nothing
  <1>4. /\ OwnersCounted' /\ NoOwnerLeft' /\ (Destroyed' <=> Destroyed) /\ count' \in Nat
        /\ pc' \in [Procs -> {"unborn", "idle", "map", "remap", "unmap", "destroy", "ended", "dead"}]
        /\ pc'[q] \in {"idle", "destroy"} /\ \A r \in Procs \ {q} : pc'[r] = pc[r]
    BY <1>0, <1>1, <1>2, OwnerDropped
  <1>5. DATypeOK'
    BY <1>0, <1>1, <1>2, <1>3, <1>4 DEF DATypeOK
  <1>6. Unborn'
    BY <1>0, <1>1, <1>2, <1>4, DynamicProcessAssumption DEF Unborn
  <1>7. \A r \in Procs : KeepsTable(r)' => KeepsTable(r)
    BY <1>1, <1>2, DynamicProcessAssumption DEF KeepsTable
  <1>8. EntriesApart' /\ RefsRight' /\ OrphansStay' /\ EntriesFit' /\ SegmentsAccounted'
    <2>1. \A m \in Names : Holders(m)' = Holders(m)
      BY <1>1 DEF Holders
    <2> QED
      BY <1>0, <1>1, <1>4, <2>1, TableUntouched
  <1>9. CallsKnown'
    <2>1. CallKnown(q)'
      BY <1>1, <1>3, <1>4 DEF CallKnown
    <2>2. \A r \in Procs \ {q} : CallKnown(r)'
      BY <1>0, <1>1, <1>2, <1>3, <1>4, SameCall DEF CallsKnown
    <2> QED
      BY <2>1, <2>2 DEF CallsKnown
  <1>10. Pending'
    <2>1. Grown
      BY <1>0, <1>1, Typed DEF Grown
    <2>2. \A r \in Procs \ {q} : PendingCall(r)'
      BY <1>0, <1>1, <1>3, <1>4, <1>7, <2>1, SamePending DEF Pending
    <2> QED
      BY <1>4, <2>2, NothingPending DEF Pending
  <1>11. SharedSegment' /\ MappedWithinSegment'
    <2>1. SharedSegment'
      BY <1>0, <1>1, <1>2, <1>3, <1>4, <1>7 DEF SharedSegment
    <2>2. MappedWithinSegment'
      BY <1>0, <1>1, <1>3 DEF MappedWithinSegment
    <2> QED
      BY <2>1, <2>2
  <1> QED
    BY <1>4, <1>5, <1>6, <1>8, <1>9, <1>10, <1>11 DEF DAInv

(* A manager goes after the allocator made from it; only its owner counts. *)
LEMMA DestroyManagerDAInv ==
    ASSUME DAInv, NEW q \in Procs, DestroyManager(q)
    PROVE  DAInv'
  <1>0. /\ DATypeOK /\ Unborn /\ OwnersCounted /\ NoOwnerLeft /\ EntriesApart /\ RefsRight
        /\ OrphansStay /\ EntriesFit /\ CallsKnown /\ Pending
        /\ SegmentsAccounted /\ SharedSegment /\ MappedWithinSegment
    BY DEF DAInv
  <1>1. /\ pc[q] = "idle" /\ allocator[q] = NoOne /\ DropManager(q, manager[q]) /\ late' = late
        /\ entry' = entry /\ lost' = lost /\ scanned' = scanned /\ linked' = linked /\ length' = length
        /\ local' = local /\ allocator' = allocator /\ names' = names /\ mapping' = mapping
        /\ given' = given /\ uncounted' = uncounted /\ orphans' = orphans /\ torn' = torn
    BY DEF DestroyManager, files, private, leaks
  <1>2. /\ manager' \in [Procs -> Procs \cup {NoOne}] /\ manager'[q] = NoOne
        /\ \A r \in Procs \ {q} : manager'[r] = manager[r]
    BY <1>0 DEF DestroyManager, DATypeOK
  <1>3. /\ OwnersCounted' /\ NoOwnerLeft' /\ (Destroyed' <=> Destroyed) /\ count' \in Nat
        /\ pc' \in [Procs -> {"unborn", "idle", "map", "remap", "unmap", "destroy", "ended", "dead"}]
        /\ pc'[q] \in {"idle", "destroy"} /\ \A r \in Procs \ {q} : pc'[r] = pc[r]
    BY <1>0, <1>1, <1>2, OwnerDropped
  <1>4. DATypeOK'
    BY <1>0, <1>1, <1>2, <1>3 DEF DATypeOK
  <1>5. Unborn'
    BY <1>0, <1>1, <1>2, <1>3, DynamicProcessAssumption DEF Unborn
  <1>6. EntriesApart' /\ RefsRight' /\ OrphansStay' /\ EntriesFit' /\ SegmentsAccounted'
    <2>1. \A m \in Names : Holders(m)' = Holders(m)
      BY <1>1 DEF Holders
    <2> QED
      BY <1>0, <1>1, <1>3, <2>1, TableUntouched
  <1>7. CallsKnown'
    <2>1. CallKnown(q)'
      BY <1>0, <1>1, <1>3 DEF CallsKnown, CallKnown
    <2>2. \A r \in Procs \ {q} : CallKnown(r)'
      BY <1>0, <1>1, <1>3, SameCall DEF CallsKnown
    <2> QED
      BY <2>1, <2>2 DEF CallsKnown
  <1>8. \A r \in Procs : KeepsTable(r)' <=> KeepsTable(r)
    BY <1>1 DEF KeepsTable
  <1>9. Pending'
    <2>1. Grown
      BY <1>0, <1>1, Typed DEF Grown
    <2>2. \A r \in Procs \ {q} : PendingCall(r)'
      BY <1>0, <1>1, <1>3, <1>8, <2>1, SamePending DEF Pending
    <2> QED
      BY <1>3, <2>2, NothingPending DEF Pending
  <1>10. SharedSegment' /\ MappedWithinSegment'
    BY <1>0, <1>1, <1>3, <1>8 DEF SharedSegment, MappedWithinSegment
  <1> QED
    BY <1>3, <1>4, <1>5, <1>6, <1>7, <1>9, <1>10 DEF DAInv

(* Who destroys the table unlinks the names of the entries it gets to, and *)
(* no process is left that kept the table.                                 *)
LEMMA DestroyEntriesDAInv ==
    ASSUME DAInv, NEW q \in Procs, DestroyEntries(q)
    PROVE  DAInv'
  <1>0. /\ DATypeOK /\ Unborn /\ OwnersCounted /\ NoOwnerLeft /\ EntriesApart /\ RefsRight
        /\ OrphansStay /\ EntriesFit /\ CallsKnown /\ Pending
        /\ SegmentsAccounted /\ SharedSegment /\ MappedWithinSegment
    BY DEF DAInv
  <1>1. /\ pc[q] = "destroy" /\ ~lost /\ lost' = TRUE
        /\ entry' = entry /\ count' = count /\ length' = length /\ local' = local
        /\ manager' = manager /\ allocator' = allocator /\ late' = late /\ names' = names
        /\ mapping' = mapping /\ given' = given /\ uncounted' = uncounted
        /\ orphans' = orphans /\ torn' = torn
    BY DEF DestroyEntries, managers, private, leaks
  <1>2. /\ pc' \in [Procs -> {"unborn", "idle", "map", "remap", "unmap", "destroy", "ended", "dead"}]
        /\ pc'[q] = "ended" /\ \A r \in Procs \ {q} : pc'[r] = pc[r]
    BY <1>0 DEF DestroyEntries, DATypeOK
  <1>3. /\ linked' \in [Names -> Segments \cup {0}] /\ scanned' \in 0 .. entry_number
        /\ \A m \in Names :
              linked'[m] = IF \E i \in 1 .. scanned' : entry[i].name = m THEN 0 ELSE linked[m]
    BY <1>0 DEF DestroyEntries, DATypeOK
  <1>4. /\ ~Destroyed /\ Destroyed' /\ Destroying' = Destroying /\ q \in Destroying
        /\ \A r \in Procs : manager[r] # r /\ (allocator[r] = r => r \in late)
    <2>1. ~Destroyed /\ Destroyed'
      BY <1>0, <1>1, <1>2 DEF NoOwnerLeft, Destroyed
    <2>2. Destroying' = Destroying /\ q \in Destroying
      BY <1>1, <1>2 DEF Destroying
    <2> QED
      BY <1>0, <2>1, <2>2 DEF NoOwnerLeft
  <1>5. \A r \in Procs : ~KeepsTable(r)'
    BY <1>1, <1>4 DEF KeepsTable
  <1>6. DATypeOK' /\ Unborn'
    <2>1. DATypeOK'
      BY <1>0, <1>1, <1>2, <1>3 DEF DATypeOK
    <2>2. Unborn'
      BY <1>0, <1>1, <1>2 DEF Unborn
    <2> QED
      BY <2>1, <2>2
  <1>7. OwnersCounted' /\ NoOwnerLeft'
    <2>1. ManagerOwners' = ManagerOwners /\ AllocatorOwners' = AllocatorOwners
      BY <1>1 DEF ManagerOwners, AllocatorOwners
    <2> QED
      BY <1>0, <1>1, <1>4, <2>1 DEF OwnersCounted, NoOwnerLeft
  <1>8. EntriesApart' /\ RefsRight'
    BY <1>0, <1>1 DEF EntriesApart, RefsRight, Holders
  <1>9. OrphansStay'
    <2>1. 1 .. scanned' \subseteq Rows
      BY <1>3, DynamicSizesAssumption DEF Rows
    <2>2. \A m \in orphans : m \in Names /\ linked'[m] = linked[m]
      BY <1>0, <1>3, <2>1, Typed DEF OrphansStay
    <2> QED
      BY <1>0, <1>1, <2>2 DEF OrphansStay
  <1>10. EntriesFit'
    BY <1>1 DEF EntriesFit
  <1>11. SegmentsAccounted'
    <2> SUFFICES ASSUME NEW m \in Names \ uncounted
                 PROVE  linked'[m] # 0 <=>
                          \/ m \in orphans
                          \/ \E j \in Rows : j > scanned' /\ entry[j].name = m /\ entry[j].refs > 0
      BY <1>0, <1>1, <1>4, DynamicNameAssumption DEF SegmentsAccounted, Rows
    <2>1. linked[m] # 0 <=> m \in orphans \/ \E j \in Rows : entry[j].name = m /\ entry[j].refs > 0
      BY <1>0, <1>1, <1>4, DynamicNameAssumption DEF SegmentsAccounted, NoOwnerLeft, Rows
    <2>2. m \in orphans => linked[m] # 0 /\ \A j \in Rows : entry[j].name # m
      BY <1>0 DEF OrphansStay
    <2>3. scanned' \in Nat /\ 1 .. scanned' = {j \in Rows : j <= scanned'}
      BY <1>3, DynamicSizesAssumption DEF Rows
    <2>4. \A j, k \in Rows : entry[j].name = m /\ entry[k].name = m => j = k
      BY <1>0, DynamicNameAssumption DEF EntriesApart
    <2>5. CASE \E j \in 1 .. scanned' : entry[j].name = m
      <3>1. PICK j \in Rows : j <= scanned' /\ entry[j].name = m
        BY <2>3, <2>5
      <3>2. linked'[m] = 0 /\ m \notin orphans
        BY <1>3, <2>2, <2>5, <3>1
      <3>3. \A k \in Rows : entry[k].name = m => ~(k > scanned')
        BY <2>3, <2>4, <3>1 DEF Rows
      <3> QED
        BY <3>2, <3>3
    <2>6. CASE ~\E j \in 1 .. scanned' : entry[j].name = m
      <3>1. linked'[m] = linked[m]
        BY <1>3, <2>6
      <3>2. \A k \in Rows : entry[k].name = m => k > scanned'
        BY <2>3, <2>6 DEF Rows
      <3> QED
        BY <2>1, <3>1, <3>2
    <2> QED
      BY <2>5, <2>6
  <1>12. CallsKnown'
    <2>1. CallKnown(q)'
      BY <1>0, <1>1, <1>2 DEF CallsKnown, CallKnown
    <2>2. \A r \in Procs \ {q} : CallKnown(r)'
      BY <1>0, <1>1, <1>2, SameCall DEF CallsKnown
    <2> QED
      BY <2>1, <2>2 DEF CallsKnown
  <1>13. Pending'
    <2>1. Grown
      BY <1>0, <1>1, Typed DEF Grown
    <2>2. \A r \in Procs \ {q} : PendingCall(r)'
      BY <1>0, <1>1, <1>2, <1>4, <1>5, <2>1, SamePending DEF Pending
    <2> QED
      BY <1>2, <2>2, NothingPending DEF Pending
  <1>14. SharedSegment' /\ MappedWithinSegment'
    BY <1>0, <1>1, <1>4, <1>5 DEF SharedSegment, MappedWithinSegment
  <1> QED
    BY <1>6, <1>7, <1>8, <1>9, <1>10, <1>11, <1>12, <1>13, <1>14 DEF DAInv

(* What a process leaves when it dies outside of a section is counted as   *)
(* before.                                                                 *)
LEMMA DieDAInv ==
    ASSUME DAInv, NEW q \in Procs, Die(q)
    PROVE  DAInv'
  <1>0. /\ DATypeOK /\ Unborn /\ OwnersCounted /\ NoOwnerLeft /\ EntriesApart /\ RefsRight
        /\ OrphansStay /\ EntriesFit /\ CallsKnown /\ Pending
        /\ SegmentsAccounted /\ SharedSegment /\ MappedWithinSegment
    BY DEF DAInv
  <1>1. /\ pc[q] \notin {"unborn", "ended", "dead"} /\ lost' = lost
        /\ entry' = entry /\ count' = count /\ scanned' = scanned /\ linked' = linked /\ length' = length
        /\ manager' = manager /\ allocator' = allocator /\ late' = late
        /\ given' = given /\ uncounted' = uncounted /\ orphans' = orphans
        /\ torn' = torn
    BY DEF Die, table, files, managers, leaks
  <1>2. /\ pc' \in [Procs -> {"unborn", "idle", "map", "remap", "unmap", "destroy", "ended", "dead"}]
        /\ pc'[q] = "dead" /\ \A r \in Procs \ {q} : pc'[r] = pc[r]
    BY <1>0 DEF Die, Killed, DATypeOK
  <1>3. /\ local' \in [Procs -> [name : Names \cup {NoName}, size : Sizes \cup {0},
                                 segment : Segments \cup {0}]]
        /\ \A r \in Procs \ {q} : local'[r] = local[r]
    BY <1>0 DEF Die, Killed, DATypeOK, NoCall
  <1>4. /\ names' \in [Procs -> SUBSET Names] /\ names'[q] = {}
        /\ \A r \in Procs \ {q} : names'[r] = names[r]
    BY <1>0 DEF Die, Killed, DATypeOK
  <1>5. /\ mapping' \in [Procs -> [Names -> [segment : Segments \cup {0, Failed},
                                             size : Sizes \cup {0}]]]
        /\ \A m \in Names : mapping'[q][m] = Nothing
        /\ \A r \in Procs \ {q} : mapping'[r] = mapping[r]
    BY <1>0 DEF Die, Killed, DATypeOK, Nothing
  <1>6. DATypeOK' /\ Unborn'
    <2>1. DATypeOK'
      BY <1>0, <1>1, <1>2, <1>3, <1>4, <1>5 DEF DATypeOK
    <2>2. Unborn'
      BY <1>0, <1>1, <1>2 DEF Unborn
    <2> QED
      BY <2>1, <2>2
  <1>7. /\ OwnersCounted' /\ NoOwnerLeft' /\ (Destroyed' <=> Destroyed)
        /\ \A r \in Procs : KeepsTable(r)' <=> KeepsTable(r)
    <2>1. ManagerOwners' = ManagerOwners /\ AllocatorOwners' = AllocatorOwners
      BY <1>1 DEF ManagerOwners, AllocatorOwners
    <2>2. (Destroyed' <=> Destroyed) /\ Destroying' \subseteq Destroying
      BY <1>1, <1>2 DEF Destroyed, Destroying
    <2> QED
      BY <1>0, <1>1, <2>1, <2>2 DEF OwnersCounted, NoOwnerLeft, KeepsTable
  <1>8. EntriesApart' /\ RefsRight' /\ OrphansStay' /\ EntriesFit' /\ SegmentsAccounted'
    <2>1. \A m \in Names : Holders(m)' = Holders(m)
      BY <1>1 DEF Holders
    <2> QED
      BY <1>0, <1>1, <1>7, <2>1, TableUntouched
  <1>9. CallsKnown'
    <2>1. CallKnown(q)'
      BY <1>2, <1>5 DEF CallKnown
    <2>2. \A r \in Procs \ {q} : CallKnown(r)'
      BY <1>0, <1>1, <1>2, <1>3, <1>4, <1>5, SameCall DEF CallsKnown
    <2> QED
      BY <2>1, <2>2 DEF CallsKnown
  <1>10. Pending'
    <2>1. Grown
      BY <1>0, <1>1, Typed DEF Grown
    <2>2. \A r \in Procs \ {q} : PendingCall(r)'
      BY <1>0, <1>1, <1>2, <1>3, <1>5, <1>7, <2>1, SamePending DEF Pending
    <2> QED
      BY <1>2, <2>2, NothingPending DEF Pending
  <1>11. SharedSegment'
    BY <1>0, <1>1, <1>4, <1>5, <1>7 DEF SharedSegment
  <1>12. MappedWithinSegment'
    <2>1. \A m \in Names : mapping'[q][m].segment \notin Segments
      BY <1>5 DEF Nothing, Segments
    <2> QED
      BY <1>0, <1>1, <1>5, <2>1, Typed DEF MappedWithinSegment
  <1> QED
    BY <1>6, <1>7, <1>8, <1>9, <1>10, <1>11, <1>12 DEF DAInv

-----------------------------------------------------------------------------
(* Sections cut short before their last write *)

(* Killed with the lock and nothing done.                                  *)
LEMMA DieLockedDAInv ==
    ASSUME DAInv, NEW q \in Procs, DieLocked(q)
    PROVE  DAInv'
  <1>0. DATypeOK /\ EntriesApart /\ RefsRight /\ OrphansStay /\ EntriesFit /\ SegmentsAccounted
    BY DEF DAInv
  <1>1. /\ entry' = entry /\ linked' = linked /\ length' = length /\ given' = given
        /\ orphans' = orphans /\ torn' = torn
    BY DEF DieLocked, files, leaks
  <1>2. Aside(q) /\ Gone(q)
    BY <1>0, Cut DEF DieLocked
  <1>3. given' \in [Procs -> SUBSET Names] /\ Grown
    BY <1>0, <1>1, Typed DEF DATypeOK, Grown
  <1>4. Unborn' /\ OwnersCounted' /\ NoOwnerLeft' /\ ~Destroyed /\ ~Destroyed'
    BY <1>1, <1>2, <1>3, SectionKeeps DEF Gone
  <1>5. CallsKnown' /\ Pending' /\ SharedSegment' /\ MappedWithinSegment'
    BY <1>1, <1>2, <1>3, GoneKeeps
  <1>6. DATypeOK'
    BY <1>0, <1>1, <1>2 DEF DATypeOK, Aside, CallsTyped
  <1>7. EntriesApart' /\ RefsRight' /\ OrphansStay' /\ EntriesFit' /\ SegmentsAccounted'
    <2>1. \A m \in Names : Holders(m)' = Holders(m)
      BY <1>1 DEF Holders
    <2> QED
      BY <1>0, <1>1, <1>2, <1>4, <2>1, TableUntouched DEF Aside
  <1> QED
    BY <1>4, <1>5, <1>6, <1>7 DEF DAInv

(* The segment of the name is there with nobody counted; an entry that was *)
(* free, of this name or of an old one, still counts nobody.               *)
LEMMA DieMakingDAInv ==
    ASSUME DAInv, NEW q \in Procs, NEW n \in Names, NEW size \in Sizes, DieMaking(q, n, size)
    PROVE  DAInv'
  <1>0. /\ DATypeOK /\ EntriesApart /\ RefsRight /\ OrphansStay /\ EntriesFit /\ CallsKnown
        /\ SegmentsAccounted
    BY DEF DAInv
  <1>1. PICK g \in Unmade :
          /\ linked' = [linked EXCEPT ![n] = g]
          /\ length' = length \/ length' = [length EXCEPT ![g] = size]
          /\ \/ entry' = entry
             \/ \E i \in FreeCell : \E name \in {entry[i].name, n} :
                   entry' = [entry EXCEPT ![i] = [name |-> name, size |-> size, refs |-> 0]]
    BY DEF DieMaking
  <1>2. /\ torn' = n /\ given' = given /\ orphans' = orphans
        /\ g \in Segments /\ length[g] = 0
    BY Fresh DEF DieMaking
  <1>3. Aside(q) /\ Gone(q)
    BY <1>0, Cut DEF DieMaking
  <1>4. /\ linked[n] = 0 /\ (\A j \in Rows : entry[j].name # n)
        /\ n # NoName /\ n \notin orphans /\ size \in Nat /\ size > 0
    BY <1>0, CellIs, DynamicNameAssumption, DynamicSizesAssumption DEF DieMaking, OrphansStay
  <1>5. /\ linked' \in [Names -> Segments \cup {0}] /\ linked'[n] # 0
        /\ \A m \in Names \ {n} : linked'[m] = linked[m]
    BY <1>0, <1>1, <1>2 DEF DATypeOK, Segments
  <1>6. length' \in [Segments -> Sizes \cup {0}] /\ Grown
    <2>1. \A h \in Segments : length[h] \in Nat
      BY <1>0, Typed
    <2>2. CASE length' = length
      BY <1>0, <2>1, <2>2 DEF DATypeOK, Grown
    <2>3. CASE length' = [length EXCEPT ![g] = size]
      <3>1. /\ length' \in [Segments -> Sizes \cup {0}] /\ length'[g] = size
            /\ \A h \in Segments \ {g} : length'[h] = length[h]
        BY <1>0, <1>2, <2>3 DEF DATypeOK
      <3> QED
        BY <1>2, <1>4, <2>1, <3>1 DEF Grown
    <2> QED
      BY <1>1, <2>2, <2>3
  (* no entry that counts somebody is touched *)
  <1>7. /\ entry' \in [Rows -> [name : Names \cup {NoName}, size : Sizes \cup {0}, refs : Int]]
        /\ \A j \in Rows :
              \/ entry'[j] = entry[j]
              \/ /\ entry[j].refs = 0 /\ entry'[j].refs = 0 /\ entry'[j].size = size
                 /\ entry'[j].name \in {entry[j].name, n}
        /\ \A j, k \in Rows : entry'[j].name = n /\ entry'[k].name = n => j = k
    <2>1. CASE entry' = entry
      BY <1>0, <1>4, <2>1 DEF DATypeOK, Rows
    <2>2. ASSUME NEW i \in FreeCell, NEW name \in {entry[i].name, n},
                 entry' = [entry EXCEPT ![i] = [name |-> name, size |-> size, refs |-> 0]]
          PROVE  /\ entry' \in [Rows -> [name : Names \cup {NoName}, size : Sizes \cup {0}, refs : Int]]
                 /\ \A j \in Rows :
                       \/ entry'[j] = entry[j]
                       \/ /\ entry[j].refs = 0 /\ entry'[j].refs = 0 /\ entry'[j].size = size
                          /\ entry'[j].name \in {entry[j].name, n}
                 /\ \A j, k \in Rows : entry'[j].name = n /\ entry'[k].name = n => j = k
      <3> DEFINE e == [name |-> name, size |-> size, refs |-> 0]
      <3>1. i \in Rows /\ entry[i].refs = 0 /\ name \in Names \cup {NoName}
        BY <1>0, Fresh, Typed
      <3>2. /\ e \in [name : Names \cup {NoName}, size : Sizes \cup {0}, refs : Int]
            /\ e.name = name /\ e.size = size /\ e.refs = 0
        BY <3>1
      <3>3. entry' = [entry EXCEPT ![i] = e]
        BY <2>2
      <3> HIDE DEF e
      <3>4. /\ entry' \in [Rows -> [name : Names \cup {NoName}, size : Sizes \cup {0}, refs : Int]]
            /\ entry'[i] = e /\ \A j \in Rows \ {i} : entry'[j] = entry[j]
        BY <1>0, <3>1, <3>2, <3>3 DEF DATypeOK, Rows
      <3> QED
        BY <1>4, <3>1, <3>2, <3>4
    <2> QED
      BY <1>1, <2>1, <2>2
  <1>8. /\ Unborn' /\ OwnersCounted' /\ NoOwnerLeft' /\ ~Destroyed /\ ~Destroyed'
        /\ scanned = 0 /\ scanned' = 0 /\ torn = NoName
        /\ uncounted' = uncounted /\ lost'
    <2>1. given' \in [Procs -> SUBSET Names]
      BY <1>0, <1>2 DEF DATypeOK
    <2> QED
      BY <1>2, <1>3, <2>1, SectionKeeps DEF Aside, Gone
  <1>9. \A m \in Names : Holders(m)' = Holders(m)
    BY <1>2 DEF Holders
  <1>10. n \notin uncounted => Holders(n) = {}
    BY <1>0, <1>4 DEF RefsRight
  <1>11. CallsKnown' /\ Pending' /\ SharedSegment' /\ MappedWithinSegment'
    <2>1. \A r \in Procs : \A m \in given[r] \ uncounted : m \in Names \ {n}
      BY <1>0, <1>10, Typed DEF Holders
    <2>2. \A r \in Procs : \A m \in given[r] \ uncounted : linked'[m] = linked[m]
      BY <1>5, <2>1
    <2>3. given' \in [Procs -> SUBSET Names]
      BY <1>0, <1>2 DEF DATypeOK
    <2> QED
      BY <1>2, <1>3, <1>6, <2>2, <2>3, GoneKeeps
  <1>12. DATypeOK'
    BY <1>0, <1>2, <1>3, <1>5, <1>6, <1>7 DEF DATypeOK, Rows, Aside, CallsTyped
  <1>13. EntriesApart' /\ EntriesFit'
    <2>1. EntriesFit'
      BY <1>8 DEF EntriesFit
    <2>2. EntriesApart'
      <3>1. ASSUME NEW j \in Rows, NEW k \in Rows, entry'[j].name = entry'[k].name,
                   entry'[j].name # NoName
            PROVE  j = k
        <4>1. CASE entry'[j].name = n
          BY <1>7, <3>1, <4>1
        <4>2. CASE entry'[j].name # n
          <5>1. entry'[j].name = entry[j].name /\ entry'[k].name = entry[k].name
            BY <1>7, <3>1, <4>2
          <5> QED
            BY <1>0, <3>1, <5>1 DEF EntriesApart
        <4> QED
          BY <4>1, <4>2
      <3>2. \A j \in Rows : entry'[j].name # NoName => entry'[j].size > 0
        BY <1>0, <1>4, <1>7 DEF EntriesApart
      <3> QED
        BY <3>1, <3>2 DEF EntriesApart
    <2> QED
      BY <2>1, <2>2
  <1>14. RefsRight'
    <2> SUFFICES ASSUME NEW m \in Names \ uncounted
                 PROVE  /\ IsFiniteSet(Holders(m))
                        /\ \A j \in Rows : entry'[j].name = m => entry'[j].refs = Cardinality(Holders(m))
                        /\ Holders(m) # {} => \E j \in Rows : entry'[j].name = m
      BY <1>8, <1>9 DEF RefsRight
    <2>1. /\ IsFiniteSet(Holders(m))
          /\ \A j \in Rows : entry[j].name = m => entry[j].refs = Cardinality(Holders(m))
          /\ Holders(m) # {} => \E j \in Rows : entry[j].name = m
      BY <1>0 DEF RefsRight
    <2>2. Holders(m) = {} => Cardinality(Holders(m)) = 0
      BY FS_EmptySet
    <2>3. CASE m = n
      BY <1>4, <1>7, <1>10, <2>1, <2>2, <2>3
    <2>4. CASE m # n
      <3>1. \A j \in Rows : entry'[j].name = m => entry'[j].refs = entry[j].refs /\ entry[j].name = m
        BY <1>7, <2>4
      <3>2. Holders(m) # {} => Cardinality(Holders(m)) # 0
        BY <2>1, FS_EmptySet
      <3>3. \A j \in Rows : entry[j].name = m => Holders(m) = {} \/ entry'[j].name = m
        BY <1>7, <2>1, <3>2
      <3> QED
        BY <2>1, <3>1, <3>3
    <2> QED
      BY <2>3, <2>4
  <1>15. OrphansStay'
    <2> SUFFICES ASSUME NEW m \in orphans PROVE linked'[m] # 0 /\ \A j \in Rows : entry'[j].name # m
      BY <1>2 DEF OrphansStay
    <2>1. m \in Names \ {n} /\ linked[m] # 0 /\ \A j \in Rows : entry[j].name # m
      BY <1>0, <1>4, Typed DEF OrphansStay
    <2> QED
      BY <1>5, <1>7, <2>1
  <1>16. SegmentsAccounted'
    <2> SUFFICES ASSUME NEW m \in Names \ uncounted
                 PROVE  linked'[m] # 0 <=>
                          \/ m \in orphans \/ m = n
                          \/ \E j \in Rows : entry'[j].name = m /\ entry'[j].refs > 0
      BY <1>2, <1>8 DEF SegmentsAccounted, Rows
    <2>1. linked[m] # 0 <=> m \in orphans \/ \E j \in Rows : entry[j].name = m /\ entry[j].refs > 0
      BY <1>0, <1>8, DynamicNameAssumption DEF SegmentsAccounted, Rows
    <2>2. m # n => \A j \in Rows : (entry'[j].name = m /\ entry'[j].refs > 0)
                                     <=> (entry[j].name = m /\ entry[j].refs > 0)
      BY <1>7
    <2> QED
      BY <1>5, <2>1, <2>2
  <1> QED
    BY <1>8, <1>11, <1>12, <1>13, <1>14, <1>15, <1>16 DEF DAInv

(* The segment is longer, and its entry may say so, with nobody counted in.*)
LEMMA DieJoiningDAInv ==
    ASSUME DAInv, NEW q \in Procs, NEW n \in Names, NEW size \in Sizes, DieJoining(q, n, size)
    PROVE  DAInv'
  <1>0. DATypeOK /\ EntriesApart /\ RefsRight /\ OrphansStay /\ EntriesFit /\ SegmentsAccounted
    BY DEF DAInv
  <1>1. PICK i \in Cell(n) :
          /\ length' = [length EXCEPT ![linked[n]] = Larger(@, size)]
          /\ entry' = entry \/ entry' = [entry EXCEPT ![i].size = size]
    BY DEF DieJoining
  <1>2. /\ linked' = linked /\ given' = given /\ orphans' = orphans /\ torn' = torn
        /\ i \in Rows /\ entry[i].name = n /\ linked[n] \in Segments /\ size \in Nat /\ size > 0
    BY <1>0, CellIs, Typed, DynamicSizesAssumption DEF DieJoining, leaks
  <1>3. Aside(q) /\ Gone(q)
    BY <1>0, Cut DEF DieJoining
  <1>4. length' \in [Segments -> Sizes \cup {0}] /\ Grown
    <2> DEFINE g == linked[n]
    <2>1. /\ \A h \in Segments : length[h] \in Nat
          /\ length[g] \in Sizes \cup {0}
      BY <1>0, <1>2, Typed DEF DATypeOK
    <2>2. /\ Larger(length[g], size) \in Sizes \cup {0} /\ Larger(length[g], size) \in Nat
          /\ length[g] <= Larger(length[g], size)
      BY <1>2, <2>1 DEF Larger
    <2>3. /\ length' \in [Segments -> Sizes \cup {0}] /\ length'[g] = Larger(length[g], size)
          /\ \A h \in Segments \ {g} : length'[h] = length[h]
      BY <1>0, <1>1, <1>2, <2>2 DEF DATypeOK
    <2> HIDE DEF g
    <2> QED
      BY <2>1, <2>2, <2>3 DEF Grown
  <1>5. /\ entry' \in [Rows -> [name : Names \cup {NoName}, size : Sizes \cup {0}, refs : Int]]
        /\ \A j \in Rows : /\ entry'[j].name = entry[j].name /\ entry'[j].refs = entry[j].refs
                           /\ entry'[j].size \in {entry[j].size, size}
    <2>1. CASE entry' = entry
      BY <1>0, <2>1 DEF DATypeOK, Rows
    <2>2. CASE entry' = [entry EXCEPT ![i].size = size]
      <3> DEFINE e == [entry[i] EXCEPT !.size = size]
      <3>1. entry[i] \in [name : Names \cup {NoName}, size : Sizes \cup {0}, refs : Int]
        BY <1>0, <1>2 DEF DATypeOK, Rows
      <3>2. /\ e \in [name : Names \cup {NoName}, size : Sizes \cup {0}, refs : Int]
            /\ e.name = entry[i].name /\ e.size = size /\ e.refs = entry[i].refs
        BY <3>1
      <3>3. entry' = [entry EXCEPT ![i] = e]
        BY <2>2
      <3> HIDE DEF e
      <3>4. /\ entry' \in [Rows -> [name : Names \cup {NoName}, size : Sizes \cup {0}, refs : Int]]
            /\ entry'[i] = e /\ \A j \in Rows \ {i} : entry'[j] = entry[j]
        BY <1>0, <1>2, <3>2, <3>3 DEF DATypeOK, Rows
      <3> QED
        BY <3>2, <3>4
    <2> QED
      BY <1>1, <2>1, <2>2
  <1>6. /\ Unborn' /\ OwnersCounted' /\ NoOwnerLeft' /\ ~Destroyed /\ ~Destroyed'
        /\ scanned' = scanned /\ uncounted' = uncounted /\ lost'
        /\ CallsKnown' /\ Pending' /\ SharedSegment' /\ MappedWithinSegment'
    <2>1. given' \in [Procs -> SUBSET Names]
      BY <1>0, <1>2 DEF DATypeOK
    <2>2. Unborn' /\ OwnersCounted' /\ NoOwnerLeft' /\ ~Destroyed /\ ~Destroyed'
      BY <1>2, <1>3, <2>1, SectionKeeps DEF Gone
    <2>3. CallsKnown' /\ Pending' /\ SharedSegment' /\ MappedWithinSegment'
      BY <1>2, <1>3, <1>4, <2>1, GoneKeeps
    <2> QED
      BY <1>3, <2>2, <2>3 DEF Aside, Gone
  <1>7. DATypeOK'
    BY <1>0, <1>2, <1>3, <1>4, <1>5 DEF DATypeOK, Rows, Aside, CallsTyped
  <1>8. EntriesApart' /\ OrphansStay' /\ EntriesFit'
    BY <1>0, <1>2, <1>5, <1>6 DEF EntriesApart, OrphansStay, EntriesFit
  <1>9. RefsRight'
    <2>1. \A m \in Names : Holders(m)' = Holders(m)
      BY <1>2 DEF Holders
    <2> QED
      BY <1>0, <1>5, <1>6, <2>1 DEF RefsRight
  <1>10. SegmentsAccounted'
    <2>1. \A m \in Names \ uncounted :
            linked[m] # 0 <=>
              \/ m \in orphans \/ m = torn
              \/ \E j \in Rows : j > scanned /\ entry'[j].name = m /\ entry'[j].refs > 0
      BY <1>0, <1>5 DEF SegmentsAccounted, Rows
    <2> QED
      BY <1>0, <1>2, <1>6, <2>1 DEF SegmentsAccounted, Rows
  <1> QED
    BY <1>6, <1>7, <1>8, <1>9, <1>10 DEF DAInv

(* The last holder has gone from the count, and the segment is there.      *)
LEMMA DieLeavingDAInv ==
    ASSUME DAInv, NEW q \in Procs, NEW n \in Names, DieLeaving(q, n)
    PROVE  DAInv'
  <1>0. DATypeOK /\ EntriesApart /\ RefsRight /\ OrphansStay /\ EntriesFit /\ SegmentsAccounted
    BY DEF DAInv
  <1>1. PICK i \in Cell(n) : entry[i].refs <= 1 /\ entry' = [entry EXCEPT ![i].refs = @ - 1]
    BY DEF DieLeaving
  <1>2. /\ n \in given[q] /\ linked' = linked /\ length' = length /\ orphans' = orphans /\ torn' = n
        /\ i \in Rows /\ entry[i].name = n /\ n # NoName /\ entry[i].refs \in Int
    BY <1>0, CellIs, Typed, DynamicNameAssumption DEF DieLeaving, files
  <1>3. Aside(q) /\ Gone(q)
    BY <1>0, Cut DEF DieLeaving
  <1>4. /\ entry' \in [Rows -> [name : Names \cup {NoName}, size : Sizes \cup {0}, refs : Int]]
        /\ entry'[i].name = n /\ entry'[i].size = entry[i].size /\ entry'[i].refs = entry[i].refs - 1
        /\ \A j \in Rows \ {i} : entry'[j] = entry[j]
    <2> DEFINE e == [entry[i] EXCEPT !.refs = @ - 1]
    <2>1. entry[i] \in [name : Names \cup {NoName}, size : Sizes \cup {0}, refs : Int]
      BY <1>0, <1>2 DEF DATypeOK, Rows
    <2>2. /\ e \in [name : Names \cup {NoName}, size : Sizes \cup {0}, refs : Int]
          /\ e.name = n /\ e.size = entry[i].size /\ e.refs = entry[i].refs - 1
      BY <1>2, <2>1
    <2>3. entry' = [entry EXCEPT ![i] = e]
      BY <1>1
    <2> HIDE DEF e
    <2> QED
      BY <1>0, <1>2, <2>2, <2>3 DEF DATypeOK, Rows
  <1>5. /\ given' \in [Procs -> SUBSET Names] /\ given'[q] = given[q] \ {n}
        /\ \A r \in Procs \ {q} : given'[r] = given[r]
    BY <1>0 DEF DieLeaving, DATypeOK
  <1>6. /\ Unborn' /\ OwnersCounted' /\ NoOwnerLeft' /\ ~Destroyed /\ ~Destroyed'
        /\ scanned = 0 /\ scanned' = 0 /\ torn = NoName
        /\ uncounted' = uncounted /\ lost'
    BY <1>3, <1>5, SectionKeeps DEF Aside, Gone
  <1>7. CallsKnown' /\ Pending' /\ SharedSegment' /\ MappedWithinSegment'
    <2>1. Grown
      BY <1>0, <1>2, Typed DEF Grown
    <2> QED
      BY <1>2, <1>3, <1>5, <2>1, GoneKeeps
  <1>8. n \notin uncounted => /\ Holders(n)' = {} /\ entry[i].refs = 1 /\ linked[n] # 0
                              /\ Cardinality(Holders(n)') = 0 /\ IsFiniteSet(Holders(n)')
    <2> SUFFICES ASSUME n \notin uncounted
                 PROVE  /\ Holders(n)' = {} /\ entry[i].refs = 1 /\ linked[n] # 0
                        /\ Cardinality(Holders(n)') = 0 /\ IsFiniteSet(Holders(n)')
      OBVIOUS
    <2>1. IsFiniteSet(Holders(n)) /\ entry[i].refs = Cardinality(Holders(n)) /\ q \in Holders(n)
      BY <1>0, <1>2 DEF RefsRight, Holders
    <2>2. /\ Holders(n)' = Holders(n) \ {q} /\ IsFiniteSet(Holders(n) \ {q})
          /\ Cardinality(Holders(n) \ {q}) = Cardinality(Holders(n)) - 1
          /\ Cardinality(Holders(n)) \in Nat /\ Cardinality(Holders(n)) > 0
      BY <1>5, <2>1, HolderLeaves DEF Holders
    <2>3. entry[i].refs = 1 /\ Cardinality(Holders(n) \ {q}) = 0
      BY <1>1, <2>1, <2>2
    <2>4. Holders(n) \ {q} = {}
      BY <2>2, <2>3, FS_EmptySet
    <2>5. linked[n] # 0
      BY <1>0, <1>2, <1>6, <2>3 DEF SegmentsAccounted, Rows
    <2> QED
      BY <2>2, <2>3, <2>4, <2>5
  <1>9. DATypeOK'
    BY <1>0, <1>2, <1>3, <1>4, <1>5 DEF DATypeOK, Rows, Aside, CallsTyped
  <1>10. EntriesApart' /\ OrphansStay' /\ EntriesFit'
    <2>1. \A j \in Rows : entry'[j].name = entry[j].name /\ entry'[j].size = entry[j].size
      BY <1>2, <1>4
    <2> QED
      BY <1>0, <1>2, <1>6, <2>1 DEF EntriesApart, OrphansStay, EntriesFit
  <1>11. RefsRight'
    <2> SUFFICES ASSUME NEW m \in Names \ uncounted
                 PROVE  /\ IsFiniteSet(Holders(m)')
                        /\ \A j \in Rows : entry'[j].name = m => entry'[j].refs = Cardinality(Holders(m)')
                        /\ Holders(m)' # {} => \E j \in Rows : entry'[j].name = m
      BY <1>6 DEF RefsRight
    <2>1. CASE m = n
      <3>1. \A j \in Rows : entry'[j].name = n => j = i
        BY <1>0, <1>2, <1>4 DEF EntriesApart
      <3> QED
        BY <1>4, <1>8, <2>1, <3>1
    <2>2. CASE m # n
      <3>1. Holders(m)' = Holders(m)
        BY <1>5, <2>2 DEF Holders
      <3> QED
        BY <1>0, <1>2, <1>4, <2>2, <3>1 DEF RefsRight
    <2> QED
      BY <2>1, <2>2
  <1>12. SegmentsAccounted'
    <2> SUFFICES ASSUME NEW m \in Names \ uncounted
                 PROVE  linked[m] # 0 <=>
                          \/ m \in orphans \/ m = n
                          \/ \E j \in Rows : entry'[j].name = m /\ entry'[j].refs > 0
      BY <1>2, <1>6 DEF SegmentsAccounted, Rows
    <2>1. linked[m] # 0 <=> m \in orphans \/ \E j \in Rows : entry[j].name = m /\ entry[j].refs > 0
      BY <1>0, <1>6, DynamicNameAssumption DEF SegmentsAccounted, Rows
    <2>2. CASE m = n
      BY <1>8, <2>2
    <2>3. CASE m # n
      BY <1>2, <1>4, <2>1, <2>3
    <2> QED
      BY <2>2, <2>3
  <1> QED
    BY <1>6, <1>7, <1>9, <1>10, <1>11, <1>12 DEF DAInv

-----------------------------------------------------------------------------
(* The theorems about the dynamic allocator *)

(* At the start the maker owns its manager, and nothing has a name.        *)
LEMMA InitDAInv == DAInit => DAInv
  <1> SUFFICES ASSUME DAInit PROVE DAInv
    OBVIOUS
  <1>1. DATypeOK
    <2>1. entry \in [1 .. entry_number -> [name : Names \cup {NoName}, size : Sizes \cup {0}, refs : Int]]
      BY DEF DAInit, UnusedEntry
    <2>2. /\ lost \in BOOLEAN /\ count \in Nat
          /\ linked \in [Names -> Segments \cup {0}] /\ length \in [Segments -> Sizes \cup {0}]
          /\ pc \in [Procs -> {"unborn", "idle", "map", "remap", "unmap", "destroy", "ended", "dead"}]
          /\ manager \in [Procs -> Procs \cup {NoOne}] /\ allocator \in [Procs -> Procs \cup {NoOne}]
      BY DynamicProcessAssumption DEF DAInit
    <2>3. local \in [Procs -> [name : Names \cup {NoName}, size : Sizes \cup {0},
                               segment : Segments \cup {0}]]
      BY DEF DAInit, NoCall
    <2>4. mapping \in [Procs -> [Names -> [segment : Segments \cup {0, Failed}, size : Sizes \cup {0}]]]
      BY DEF DAInit, Nothing
    <2>5. /\ names \in [Procs -> SUBSET Names] /\ given \in [Procs -> SUBSET Names]
          /\ uncounted \in SUBSET Names /\ orphans \in SUBSET Names /\ late \in SUBSET Procs
          /\ torn \in Names \cup {NoName}
      BY DEF DAInit
    <2>6. scanned \in 0 .. entry_number
      BY DynamicSizesAssumption DEF DAInit
    <2> QED
      BY <2>1, <2>2, <2>3, <2>4, <2>5, <2>6 DEF DATypeOK
  <1>2. Unborn
    BY DynamicProcessAssumption DEF DAInit, Unborn
  <1>3. ~Destroyed /\ Destroying = {}
    BY DEF DAInit, Destroyed, Destroying
  <1>4. OwnersCounted
    <2>1. ManagerOwners = {Maker} /\ AllocatorOwners = {}
      BY DynamicProcessAssumption DEF DAInit, ManagerOwners, AllocatorOwners
    <2>2. /\ IsFiniteSet({Maker}) /\ Cardinality({Maker}) = 1
          /\ IsFiniteSet({}) /\ Cardinality({}) = 0
      BY FS_Singleton, FS_EmptySet
    <2> QED
      BY <2>1, <2>2 DEF DAInit, OwnersCounted
  <1>5. \A i \in Rows : entry[i].name = NoName
    BY DEF DAInit, UnusedEntry, Rows
  <1>6. NoOwnerLeft /\ EntriesApart /\ EntriesFit
    BY <1>3, <1>5 DEF DAInit, NoOwnerLeft, EntriesApart, EntriesFit
  <1>7. RefsRight
    <2>1. \A n \in Names : Holders(n) = {}
      BY DEF DAInit, Holders
    <2> QED
      BY <1>5, <2>1, FS_EmptySet, DynamicNameAssumption DEF RefsRight
  <1>8. OrphansStay /\ CallsKnown /\ Pending
    <2>1. OrphansStay
      BY DEF DAInit, OrphansStay
    <2>2. CallsKnown
      BY DEF DAInit, CallsKnown, CallKnown
    <2>3. Pending
      BY DEF DAInit, Pending, PendingCall
    <2> QED
      BY <2>1, <2>2, <2>3
  <1>9. SegmentsAccounted
    BY <1>5, DynamicNameAssumption DEF DAInit, SegmentsAccounted, Rows
  <1>10. SharedSegment /\ MappedWithinSegment
    BY DEF DAInit, SharedSegment, MappedWithinSegment
  <1> QED
    BY <1>1, <1>2, <1>4, <1>6, <1>7, <1>8, <1>9, <1>10 DEF DAInv

(* A call that only reports an error changes nothing.                      *)
LEMMA StutterDAInv == DAInv /\ UNCHANGED davars => DAInv'
  <1> SUFFICES ASSUME DAInv, UNCHANGED davars PROVE DAInv'
    OBVIOUS
  <1>0. /\ DATypeOK /\ Unborn /\ OwnersCounted /\ NoOwnerLeft /\ EntriesApart /\ RefsRight
        /\ OrphansStay /\ EntriesFit /\ CallsKnown /\ Pending
        /\ SegmentsAccounted /\ SharedSegment /\ MappedWithinSegment
    BY DEF DAInv
  <1>1. /\ entry' = entry /\ lost' = lost /\ count' = count /\ scanned' = scanned
        /\ linked' = linked /\ length' = length
        /\ pc' = pc /\ local' = local /\ manager' = manager /\ allocator' = allocator
        /\ late' = late /\ names' = names /\ mapping' = mapping /\ given' = given
        /\ uncounted' = uncounted /\ orphans' = orphans /\ torn' = torn
    BY DEF davars, table, files, managers, private, leaks
  <1>2. DATypeOK' /\ Unborn'
    BY <1>0, <1>1 DEF DATypeOK, Unborn
  <1>3. /\ Destroyed' = Destroyed /\ Destroying' = Destroying
        /\ ManagerOwners' = ManagerOwners /\ AllocatorOwners' = AllocatorOwners
        /\ \A r \in Procs : KeepsTable(r)' = KeepsTable(r)
        /\ \A m \in Names : Holders(m)' = Holders(m)
    BY <1>1 DEF Destroyed, Destroying, ManagerOwners, AllocatorOwners, KeepsTable, Holders
  <1>4. OwnersCounted' /\ NoOwnerLeft'
    BY <1>0, <1>1, <1>3 DEF OwnersCounted, NoOwnerLeft
  <1>5. EntriesApart' /\ RefsRight' /\ OrphansStay' /\ EntriesFit' /\ SegmentsAccounted'
    BY <1>0, <1>1, <1>3, TableUntouched
  <1>6. CallsKnown'
    BY <1>0, <1>1, SameCall DEF CallsKnown
  <1>7. Pending'
    <2>1. Grown
      BY <1>0, <1>1, Typed DEF Grown
    <2> QED
      BY <1>0, <1>1, <1>3, <2>1, SamePending DEF Pending
  <1>8. SharedSegment' /\ MappedWithinSegment'
    BY <1>0, <1>1, <1>3 DEF SharedSegment, MappedWithinSegment
  <1> QED
    BY <1>2, <1>4, <1>5, <1>6, <1>7, <1>8 DEF DAInv

(* Every step preserves the invariant, action by action.                   *)
LEMMA StepDAInv == DAInv /\ [DANext]_davars => DAInv'
  <1> SUFFICES ASSUME DAInv, [DANext]_davars PROVE DAInv'
    OBVIOUS
  <1>1. ASSUME NEW q \in Procs, NEW n \in Names,
               AllocateAgain(q, n) \/ CheckSize(q, n) \/ DeallocateKnown(q, n) \/ DeallocateUnknown(q, n)
        PROVE  DAInv'
    BY <1>1, AllocateAgainDAInv, CheckSizeDAInv, DeallocateKnownDAInv, DeallocateUnknownDAInv
  <1>2. ASSUME NEW q \in Procs, NEW n \in Names, NEW size \in Sizes,
               AllocateNew(q, n, size) \/ AllocateTableFull(q, n, size) \/ AllocateExisting(q, n, size)
        PROVE  DAInv'
    BY <1>2, AllocateNewDAInv, AllocateTableFullDAInv, AllocateExistingDAInv
  <1>3. ASSUME NEW q \in Procs, NEW b \in BOOLEAN, Map(q, b) \/ Remap(q, b)
        PROVE  DAInv'
    BY <1>3, MapDAInv, RemapDAInv
  <1>4. ASSUME NEW q \in Procs,
               \/ Unmap(q) \/ Die(q) \/ DieLocked(q) \/ (\E p \in Procs : ForkChild(p, q))
               \/ ConstructAllocator(q) \/ DestroyAllocator(q)
               \/ DestroyManager(q) \/ DestroyEntries(q)
        PROVE  DAInv'
    BY <1>4, UnmapDAInv, DieDAInv, DieLockedDAInv, ForkChildDAInv, ConstructAllocatorDAInv,
       DestroyAllocatorDAInv, DestroyManagerDAInv, DestroyEntriesDAInv
  <1>5. ASSUME NEW q \in Procs, NEW n \in Names, NEW size \in Sizes,
               DieMaking(q, n, size) \/ DieJoining(q, n, size)
        PROVE  DAInv'
    BY <1>5, DieMakingDAInv, DieJoiningDAInv
  <1>6. ASSUME NEW q \in Procs, NEW n \in Names, DieLeaving(q, n) PROVE DAInv'
    BY <1>6, DieLeavingDAInv
  <1>7. CASE UNCHANGED davars
    BY <1>7, StutterDAInv
  <1> QED
    BY <1>1, <1>2, <1>3, <1>4, <1>5, <1>6, <1>7 DEF DANext

(* DAInv holds of every behaviour: any number of processes, names, sizes,  *)
(* entries, deaths and segments.                                           *)
THEOREM DAInvariance == DASpec => []DAInv
  <1>1. DAInit => DAInv
    BY InitDAInv
  <1>2. DAInv /\ [DANext]_davars => DAInv'
    BY StepDAInv
  <1> QED
    BY <1>1, <1>2, PTL DEF DASpec

(* The type of the allocator's state; the table's count never drops below  *)
(* zero, whoever forks, dies or destroys what it has.                      *)
THEOREM DATypesRight == DASpec => []DATypeOK
  <1>1. DAInv => DATypeOK
    BY DEF DAInv
  <1> QED
    BY <1>1, DAInvariance, PTL

(* The count of an entry is the number of processes that hold its name,    *)
(* and a held name has its entry.                                          *)
THEOREM RefsRightAlways == DASpec => []RefsCountHolders
  <1>1. ASSUME DAInv PROVE RefsCountHolders
    <2>0. DATypeOK /\ EntriesApart /\ RefsRight
      BY <1>1 DEF DAInv
    <2> SUFFICES ASSUME NEW n \in Names \ uncounted
                 PROVE  /\ \A i \in Rows : entry[i].name = n => entry[i].refs = Cardinality(Holders(n))
                        /\ Cardinality(Holders(n)) > 0 => Cell(n) # {}
      BY DEF RefsCountHolders, Holders, Rows
    <2>1. Cardinality(Holders(n)) > 0 => Holders(n) # {}
      BY FS_EmptySet
    <2>2. Holders(n) # {} => Cell(n) # {}
      BY <2>0, CellIs DEF RefsRight
    <2> QED
      BY <2>0, <2>1, <2>2 DEF RefsRight
  <1> QED
    BY <1>1, DAInvariance, PTL

(* All who have a name given map one segment, the one a late comer opens.  *)
THEOREM SegmentShared == DASpec => []SharedSegment
  <1>1. DAInv => SharedSegment
    BY DEF DAInv
  <1> QED
    BY <1>1, DAInvariance, PTL

(* No mapping of a given name reaches beyond its segment.                  *)
THEOREM MappedWithin == DASpec => []MappedWithinSegment
  <1>1. DAInv => MappedWithinSegment
    BY DEF DAInv
  <1> QED
    BY <1>1, DAInvariance, PTL

(* A name can be opened exactly when somebody is counted for it in what    *)
(* the destruction of the table has not come to, but for the segments made *)
(* with the table full, and the one that a death between making a segment  *)
(* and counting its user, or between the last count and the unlinking,     *)
(* left for good: there is one such at most, and no destruction after it.  *)
THEOREM SegmentsNotLost == DASpec => []SegmentsAccounted
  <1>1. DAInv => SegmentsAccounted
    BY DEF DAInv
  <1> QED
    BY <1>1, DAInvariance, PTL

(* The table goes only after its last owner.                               *)
THEOREM TableKept == DASpec => []TableOutlivesOwners
  <1>1. DAInv => TableOutlivesOwners
    BY DEF DAInv, NoOwnerLeft, TableOutlivesOwners
  <1> QED
    BY <1>1, DAInvariance, PTL
=============================================================================
