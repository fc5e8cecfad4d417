-------------------------- MODULE RingOwnersProofs --------------------------
(***************************************************************************)
(* Proofs about RingOwners for every set of processes, variables and       *)
(* rings.  IInv is inductive; the invariants follow from it.  It speaks of *)
(* one process at a time, so that fork and exit keep it as they copy or    *)
(* clear what a process has, and each other operation is a lemma about     *)
(* the variables o of its process, the rings m mapped there, the counts c, *)
(* w and k of consumers, producers and copies, and the rings made.         *)
(***************************************************************************)
EXTENDS RingOwners, FiniteSetTheorems, TLAPS

-----------------------------------------------------------------------------
(* The inductive invariant *)

Typed(o, m, c, w, k) ==
    /\ o \in [Vars -> Owners \cup {NoOwner}] /\ m \in SUBSET Rings
    /\ c \in [Rings -> Nat] /\ w \in [Rings -> Nat] /\ k \in [Rings -> 0..MaxCopies]

(* A ring is held by one variable of a process, or by "init" owners.       *)
OneHolder(o) ==
    \A v1, v2 \in Vars : o[v1].ring = o[v2].ring /\ o[v1].ring # Null =>
        v1 = v2 \/ (o[v1].kind = "init" /\ o[v2].kind = "init")

(* Nobody holds a ring that was not made, handed it out or copied it.      *)
OnlyMade(o, c, w, k, rings) ==
    \A r \in Rings \ rings : c[r] = 0 /\ w[r] = 0 /\ k[r] = 0 /\ \A v \in Vars : o[v].ring # r

(* The mapped rings are those that mappers hold.                           *)
Mapping(o, m) ==
    \A r \in Rings : r \in m <=> \E v \in Vars : o[v].kind \in Mappers /\ o[v].ring = r

(* Both flags of an owner follow its ring; a copy made while the flag was  *)
(* unset, which only an "init" owner has, allows one consumer more.        *)
ReaderFlags(o, c, k) ==
    \A r \in Rings :
        /\ c[r] + Cardinality(Willing(o, r)) <= 1 + k[r]
        /\ \A v \in Vars : o[v].ring = r =>
              /\ k[r] > 0 => o[v].kind = "init"
              /\ o[v].reader_done => o[v].kind = "init" \/ c[r] > 0

WriterFlags(o, w) ==
    \A r \in Rings, v \in Vars : o[v].ring = r /\ o[v].kind = "scsp" =>
        w[r] <= 1 /\ (w[r] > 0 => o[v].writer_done)

Sound(o, m, c, w, k, rings) ==
    /\ Typed(o, m, c, w, k) /\ OneHolder(o) /\ OnlyMade(o, c, w, k, rings)
    /\ Mapping(o, m) /\ ReaderFlags(o, c, k) /\ WriterFlags(o, w)

IInv ==
    /\ TypeOK
    /\ \A p \in running : Sound(owner[p], mapped[p], consumers[p], producers[p], copies[p], made)

-----------------------------------------------------------------------------
(* The operations, on what one process has *)

(* How many owners would still give the consumer of a ring: they are       *)
(* finitely many,                                                          *)
LEMMA WillingCount ==
    ASSUME NEW o, NEW r
    PROVE  IsFiniteSet(Willing(o, r)) /\ Cardinality(Willing(o, r)) \in Nat
<1>1. Willing(o, r) \subseteq Vars
    BY DEF Willing
<1> QED BY <1>1, OwnersVarsAssumption, FS_Subset, FS_CardinalityType

(* no more of them if there is none that was not there before,             *)
LEMMA NoMoreWilling ==
    ASSUME NEW o, NEW o2, NEW r, Willing(o2, r) \subseteq Willing(o, r)
    PROVE  Cardinality(Willing(o2, r)) <= Cardinality(Willing(o, r))
BY WillingCount, FS_Subset

(* at most one more if only one was not,                                   *)
LEMMA OneMoreWilling ==
    ASSUME NEW o, NEW o2, NEW r, NEW v, Willing(o2, r) \subseteq Willing(o, r) \cup {v}
    PROVE  Cardinality(Willing(o2, r)) <= Cardinality(Willing(o, r)) + 1
<1> DEFINE S == Willing(o, r)
<1>1. IsFiniteSet(S) /\ Cardinality(S) \in Nat /\ Cardinality(Willing(o2, r)) \in Nat
    BY WillingCount
<1>2. IsFiniteSet(S \cup {v}) /\ Cardinality(S \cup {v}) <= Cardinality(S) + 1
    <2>1. IsFiniteSet(S \cup {v})
          /\ Cardinality(S \cup {v}) = IF v \in S THEN Cardinality(S) ELSE Cardinality(S) + 1
        BY <1>1, FS_AddElement
    <2> QED BY <1>1, <2>1
<1>3. Cardinality(Willing(o2, r)) <= Cardinality(S \cup {v})
    BY <1>2, FS_Subset
<1>4. Cardinality(S \cup {v}) \in Nat
    BY <1>2, FS_CardinalityType
<1> HIDE DEF S
<1> QED BY <1>1, <1>2, <1>3, <1>4 DEF S

(* one less when one of them stops,                                        *)
LEMMA OneLessWilling ==
    ASSUME NEW o, NEW o2, NEW r, NEW v \in Willing(o, r), Willing(o2, r) = Willing(o, r) \ {v}
    PROVE  Cardinality(Willing(o2, r)) = Cardinality(Willing(o, r)) - 1
BY WillingCount, FS_RemoveElement

(* and no more when one takes the place of another.                        *)
LEMMA ReplacedWilling ==
    ASSUME NEW o, NEW o2, NEW r, NEW v \in Willing(o, r), NEW u,
           Willing(o2, r) \subseteq (Willing(o, r) \ {v}) \cup {u}
    PROVE  Cardinality(Willing(o2, r)) <= Cardinality(Willing(o, r))
<1> DEFINE S == Willing(o, r)
           T == S \ {v}
<1>1. IsFiniteSet(S) /\ Cardinality(S) \in Nat /\ Cardinality(Willing(o2, r)) \in Nat
    BY WillingCount
<1>2. IsFiniteSet(T) /\ Cardinality(T) = Cardinality(S) - 1 /\ Cardinality(T) \in Nat
    BY <1>1, FS_RemoveElement, FS_CardinalityType
<1>3. IsFiniteSet(T \cup {u})
      /\ Cardinality(T \cup {u}) = IF u \in T THEN Cardinality(T) ELSE Cardinality(T) + 1
    BY <1>2, FS_AddElement
<1>4. Cardinality(Willing(o2, r)) <= Cardinality(T \cup {u})
    BY <1>3, FS_Subset
<1> HIDE DEF S, T
<1>5. Cardinality(T \cup {u}) <= Cardinality(S)
    BY <1>1, <1>2, <1>3
<1>6. Cardinality(T \cup {u}) \in Nat
    BY <1>3, FS_CardinalityType
<1> QED BY <1>1, <1>4, <1>5, <1>6 DEF S

(* A ring made elsewhere changes nothing.                                  *)
LEMMA SoundGrows ==
    ASSUME NEW o, NEW m, NEW c, NEW w, NEW k, NEW rings, NEW more,
           Sound(o, m, c, w, k, rings), rings \subseteq more
    PROVE  Sound(o, m, c, w, k, more)
BY DEF Sound, OnlyMade

(* The constructors and factories of the five kinds of owner.              *)
LEMMA SoundCreate ==
    ASSUME NEW o, NEW m, NEW c, NEW w, NEW k, NEW rings, Sound(o, m, c, w, k, rings),
           NEW v \in Vars, o[v] = NoOwner, NEW r \in Rings \ rings,
           NEW kind \in Kinds, NEW flag \in BOOLEAN, flag => kind = "init"
    PROVE  Sound([o EXCEPT ![v] = New(kind, r, flag)], IF kind \in Mappers THEN m \cup {r} ELSE m,
                 c, w, k, rings \cup {r})
<1> DEFINE o2 == [o EXCEPT ![v] = New(kind, r, flag)]
           m2 == IF kind \in Mappers THEN m \cup {r} ELSE m
<1> USE OwnersNullAssumption
<1>0. /\ Typed(o, m, c, w, k) /\ OneHolder(o) /\ OnlyMade(o, c, w, k, rings)
      /\ Mapping(o, m) /\ ReaderFlags(o, c, k) /\ WriterFlags(o, w)
    BY DEF Sound
<1>1. /\ o2[v].kind = kind /\ o2[v].ring = r /\ o2[v].reader_done = flag /\ o2[v].writer_done = FALSE
      /\ \A u \in Vars : u # v => o2[u] = o[u]
      /\ New(kind, r, flag) \in Owners
    BY <1>0 DEF New, Typed, Owners
<1>2. o[v].kind \notin Mappers /\ o[v].ring = Null /\ c[r] = 0 /\ w[r] = 0 /\ k[r] = 0
      /\ \A u \in Vars : o[u].ring # r
    BY <1>0 DEF NoOwner, Mappers, OnlyMade
<1>3. Typed(o2, m2, c, w, k)
    BY <1>0, <1>1 DEF Typed
<1> HIDE DEF o2
<1>4. OneHolder(o2)
    BY <1>0, <1>1, <1>2 DEF OneHolder
<1>5. OnlyMade(o2, c, w, k, rings \cup {r})
    BY <1>0, <1>1 DEF OnlyMade
<1>6. Mapping(o2, m2)
    <2> SUFFICES ASSUME NEW s \in Rings
                 PROVE  s \in m2 <=> \E u \in Vars : o2[u].kind \in Mappers /\ o2[u].ring = s
        BY DEF Mapping
    <2>1. CASE s = r
        BY <1>0, <1>1, <1>2, <2>1 DEF Mapping
    <2>2. CASE s # r
        BY <1>0, <1>1, <1>2, <2>2 DEF Mapping
    <2> QED BY <2>1, <2>2
<1>7. ReaderFlags(o2, c, k)
    <2>a. ASSUME NEW s \in Rings
          PROVE  c[s] + Cardinality(Willing(o2, s)) <= 1 + k[s]
        <3>0. /\ c[s] \in Nat /\ k[s] \in Nat /\ Cardinality(Willing(o, s)) \in Nat
              /\ Cardinality(Willing(o2, s)) \in Nat /\ c[s] + Cardinality(Willing(o, s)) <= 1 + k[s]
            BY <1>0, WillingCount DEF Typed, ReaderFlags
        <3>1. CASE s = r
            <4>1. Willing(o, s) = {}
                BY <1>2, <3>1 DEF Willing
            <4>2. Willing(o2, s) \subseteq Willing(o, s) \cup {v}
                BY <1>1, <3>1 DEF Willing
            <4>3. Cardinality(Willing(o, s)) = 0
                BY <4>1, FS_EmptySet
            <4>4. Cardinality(Willing(o2, s)) <= Cardinality(Willing(o, s)) + 1
                BY <4>2, OneMoreWilling
            <4> QED BY <1>2, <3>0, <3>1, <4>3, <4>4
        <3>2. CASE s # r
            <4>1. Willing(o2, s) \subseteq Willing(o, s)
                BY <1>1, <3>2 DEF Willing
            <4> QED BY <3>0, <4>1, NoMoreWilling
        <3> QED BY <3>1, <3>2
    <2> SUFFICES ASSUME NEW u \in Vars, o2[u].ring \in Rings
                 PROVE  /\ k[o2[u].ring] > 0 => o2[u].kind = "init"
                        /\ o2[u].reader_done => o2[u].kind = "init" \/ c[o2[u].ring] > 0
        BY <2>a DEF ReaderFlags
    <2>1. CASE u = v
        BY <1>1, <1>2, <2>1
    <2>2. CASE u # v
        BY <1>0, <1>1, <2>2 DEF ReaderFlags
    <2> QED BY <2>1, <2>2
<1>8. WriterFlags(o2, w)
    <2> SUFFICES ASSUME NEW u \in Vars, o2[u].ring \in Rings, o2[u].kind = "scsp"
                 PROVE  w[o2[u].ring] <= 1 /\ (w[o2[u].ring] > 0 => o2[u].writer_done)
        BY DEF WriterFlags
    <2>1. CASE u = v
        BY <1>1, <1>2, <2>1
    <2>2. CASE u # v
        BY <1>0, <1>1, <2>2 DEF WriterFlags
    <2> QED BY <2>1, <2>2
<1> QED BY <1>3, <1>4, <1>5, <1>6, <1>7, <1>8 DEF Sound, o2

(* create_consumer(): the flag is set and one consumer is counted, unless  *)
(* the owner was moved from.                                               *)
LEMMA SoundConsumer ==
    ASSUME NEW o, NEW m, NEW c, NEW w, NEW k, NEW rings, Sound(o, m, c, w, k, rings),
           NEW v \in Vars, o[v] # NoOwner, ~o[v].reader_done
    PROVE  Sound([o EXCEPT ![v] = [o[v] EXCEPT !.reader_done = TRUE]], m,
                 [r \in Rings |-> c[r] + IF r = o[v].ring THEN 1 ELSE 0], w, k, rings)
<1> DEFINE o2 == [o EXCEPT ![v] = [o[v] EXCEPT !.reader_done = TRUE]]
           c2 == [r \in Rings |-> c[r] + IF r = o[v].ring THEN 1 ELSE 0]
<1> USE OwnersNullAssumption
<1>0. /\ Typed(o, m, c, w, k) /\ OneHolder(o) /\ OnlyMade(o, c, w, k, rings)
      /\ Mapping(o, m) /\ ReaderFlags(o, c, k) /\ WriterFlags(o, w)
    BY DEF Sound
<1>1. o[v] \in Owners /\ [o[v] EXCEPT !.reader_done = TRUE] \in Owners
    BY <1>0 DEF Typed, Owners
<1>2. /\ o2[v].kind = o[v].kind /\ o2[v].ring = o[v].ring
      /\ o2[v].reader_done = TRUE /\ o2[v].writer_done = o[v].writer_done
      /\ \A u \in Vars : u # v => o2[u] = o[u]
    BY <1>0, <1>1 DEF Typed, Owners
<1>3. \A r \in Rings : /\ c[r] \in Nat
                       /\ r # o[v].ring => c2[r] = c[r]
                       /\ r = o[v].ring => c2[r] = c[r] + 1
    BY <1>0 DEF Typed
<1>4. Typed(o2, m, c2, w, k)
    BY <1>0, <1>1 DEF Typed
<1> HIDE DEF o2, c2
<1>5. OneHolder(o2)
    BY <1>0, <1>2 DEF OneHolder
<1>6. OnlyMade(o2, c2, w, k, rings)
    BY <1>0, <1>2, <1>3 DEF OnlyMade
<1>7. Mapping(o2, m)
    BY <1>0, <1>2 DEF Mapping
<1>8. ReaderFlags(o2, c2, k)
    <2>1. ASSUME NEW r \in Rings
          PROVE  c2[r] + Cardinality(Willing(o2, r)) <= 1 + k[r]
        <3>0. /\ c[r] \in Nat /\ k[r] \in Nat /\ Cardinality(Willing(o, r)) \in Nat
              /\ Cardinality(Willing(o2, r)) \in Nat /\ c[r] + Cardinality(Willing(o, r)) <= 1 + k[r]
            BY <1>0, WillingCount DEF Typed, ReaderFlags
        <3>1. CASE r = o[v].ring
            <4>1. v \in Willing(o, r) /\ Willing(o2, r) = Willing(o, r) \ {v}
                BY <1>2, <3>1 DEF Willing
            <4>2. Cardinality(Willing(o2, r)) = Cardinality(Willing(o, r)) - 1
                BY <4>1, OneLessWilling
            <4> QED BY <1>3, <3>0, <3>1, <4>2
        <3>2. CASE r # o[v].ring
            <4>1. Willing(o2, r) = Willing(o, r)
                BY <1>2, <3>2 DEF Willing
            <4> QED BY <1>3, <3>0, <3>2, <4>1
        <3> QED BY <3>1, <3>2
    <2>2. ASSUME NEW r \in Rings, NEW u \in Vars, o2[u].ring = r
          PROVE  /\ k[r] > 0 => o2[u].kind = "init"
                 /\ o2[u].reader_done => o2[u].kind = "init" \/ c2[r] > 0
        <3>1. CASE u = v
            BY <1>0, <1>2, <1>3, <2>2, <3>1 DEF ReaderFlags
        <3>2. CASE u # v
            BY <1>0, <1>2, <1>3, <2>2, <3>2 DEF ReaderFlags
        <3> QED BY <3>1, <3>2
    <2> QED BY <2>1, <2>2 DEF ReaderFlags
<1>9. WriterFlags(o2, w)
    <2> SUFFICES ASSUME NEW u \in Vars, o2[u].ring \in Rings, o2[u].kind = "scsp"
                 PROVE  w[o2[u].ring] <= 1 /\ (w[o2[u].ring] > 0 => o2[u].writer_done)
        BY DEF WriterFlags
    <2>1. CASE u = v
        BY <1>0, <1>2, <2>1 DEF WriterFlags
    <2>2. CASE u # v
        BY <1>0, <1>2, <2>2 DEF WriterFlags
    <2> QED BY <2>1, <2>2
<1> QED BY <1>4, <1>5, <1>6, <1>7, <1>8, <1>9 DEF Sound, o2, c2

(* ProducerFactory::create() of scsp: likewise.                            *)
LEMMA SoundProducer ==
    ASSUME NEW o, NEW m, NEW c, NEW w, NEW k, NEW rings, Sound(o, m, c, w, k, rings),
           NEW v \in Vars, o[v].kind = "scsp", o[v].ring # Null, ~o[v].writer_done
    PROVE  Sound([o EXCEPT ![v] = [o[v] EXCEPT !.writer_done = TRUE]], m,
                 c, [w EXCEPT ![o[v].ring] = @ + 1], k, rings)
<1> DEFINE o2 == [o EXCEPT ![v] = [o[v] EXCEPT !.writer_done = TRUE]]
           w2 == [w EXCEPT ![o[v].ring] = @ + 1]
<1> USE OwnersNullAssumption
<1>0. /\ Typed(o, m, c, w, k) /\ OneHolder(o) /\ OnlyMade(o, c, w, k, rings)
      /\ Mapping(o, m) /\ ReaderFlags(o, c, k) /\ WriterFlags(o, w)
    BY DEF Sound
<1>1. o[v] \in Owners /\ o[v].ring \in Rings /\ [o[v] EXCEPT !.writer_done = TRUE] \in Owners
    <2>1. o[v] # NoOwner /\ o[v] \in Owners \cup {NoOwner}
        BY <1>0 DEF Typed, NoOwner
    <2>2. o[v] \in Owners
        BY <2>1
    <2> QED BY <2>2 DEF Owners
<1>2. /\ o2[v].kind = o[v].kind /\ o2[v].ring = o[v].ring
      /\ o2[v].writer_done = TRUE /\ o2[v].reader_done = o[v].reader_done
      /\ \A u \in Vars : u # v => o2[u] = o[u]
    BY <1>0, <1>1 DEF Typed, Owners
<1>3. /\ w[o[v].ring] \in Nat /\ w2[o[v].ring] = w[o[v].ring] + 1
      /\ \A r \in Rings : r # o[v].ring => w2[r] = w[r]
    BY <1>0, <1>1 DEF Typed
<1>4. Typed(o2, m, c, w2, k)
    BY <1>0, <1>1, <1>3 DEF Typed
<1> HIDE DEF o2, w2
<1>5. OneHolder(o2)
    BY <1>0, <1>2 DEF OneHolder
<1>6. OnlyMade(o2, c, w2, k, rings)
    BY <1>0, <1>1, <1>2, <1>3 DEF OnlyMade
<1>7. Mapping(o2, m)
    BY <1>0, <1>2 DEF Mapping
<1>8. ReaderFlags(o2, c, k)
    <2>a. ASSUME NEW s \in Rings
          PROVE  c[s] + Cardinality(Willing(o2, s)) <= 1 + k[s]
        <3>1. Willing(o2, s) = Willing(o, s)
            BY <1>2 DEF Willing
        <3> QED BY <1>0, <3>1 DEF ReaderFlags
    <2> SUFFICES ASSUME NEW u \in Vars, o2[u].ring \in Rings
                 PROVE  /\ k[o2[u].ring] > 0 => o2[u].kind = "init"
                        /\ o2[u].reader_done => o2[u].kind = "init" \/ c[o2[u].ring] > 0
        BY <2>a DEF ReaderFlags
    <2>1. CASE u = v
        BY <1>0, <1>2, <2>1 DEF ReaderFlags
    <2>2. CASE u # v
        BY <1>0, <1>2, <2>2 DEF ReaderFlags
    <2> QED BY <2>1, <2>2
<1>9. WriterFlags(o2, w2)
    <2> SUFFICES ASSUME NEW u \in Vars, o2[u].ring \in Rings, o2[u].kind = "scsp"
                 PROVE  w2[o2[u].ring] <= 1 /\ (w2[o2[u].ring] > 0 => o2[u].writer_done)
        BY DEF WriterFlags
    <2>1. CASE u = v
        BY <1>0, <1>1, <1>2, <1>3, <2>1 DEF WriterFlags
    <2>2. CASE u # v
        <3>1. o[u].ring # o[v].ring /\ o[u].ring \in Rings
            BY <1>0, <1>1, <1>2, <2>2 DEF OneHolder
        <3> QED BY <1>0, <1>2, <1>3, <2>2, <3>1 DEF WriterFlags
    <2> QED BY <2>1, <2>2
<1> QED BY <1>4, <1>5, <1>6, <1>7, <1>8, <1>9 DEF Sound, o2, w2

(* Move construction and move assignment: the ring changes its variable    *)
(* and takes its flags along; what to had before was no mapper.            *)
LEMMA SoundMove ==
    ASSUME NEW o, NEW m, NEW c, NEW w, NEW k, NEW rings, Sound(o, m, c, w, k, rings),
           NEW v \in Vars, NEW to \in Vars, v # to, o[v] # NoOwner, o[to].kind \notin Mappers
    PROVE  Sound([o EXCEPT ![to] = o[v], ![v].ring = Null], m, c, w, k, rings)
<1> DEFINE o2 == [o EXCEPT ![to] = o[v], ![v].ring = Null]
<1> USE OwnersNullAssumption
<1>0. /\ Typed(o, m, c, w, k) /\ OneHolder(o) /\ OnlyMade(o, c, w, k, rings)
      /\ Mapping(o, m) /\ ReaderFlags(o, c, k) /\ WriterFlags(o, w)
    BY DEF Sound
<1>1. o[v] \in Owners /\ [o[v] EXCEPT !.ring = Null] \in Owners
    BY <1>0 DEF Typed, Owners
<1>2. o2 = [u \in Vars |-> IF u = v THEN [o[v] EXCEPT !.ring = Null]
                           ELSE IF u = to THEN o[v] ELSE o[u]]
    BY <1>0 DEF Typed
<1>3. Typed(o2, m, c, w, k)
    BY <1>0, <1>1, <1>2 DEF Typed
<1>4. /\ o2[v].ring = Null /\ o2[to] = o[v] /\ \A u \in Vars : u \notin {v, to} => o2[u] = o[u]
    BY <1>1, <1>2 DEF Owners
<1> HIDE DEF o2
<1>5. OneHolder(o2)
    BY <1>0, <1>4 DEF OneHolder
<1>6. \A r \in Rings, u \in Vars : o2[u].ring = r =>
          \E x \in Vars : o[x].ring = r /\ o2[u] = o[x]
    BY <1>4
<1>7. OnlyMade(o2, c, w, k, rings)
    BY <1>0, <1>6 DEF OnlyMade
<1>8. Mapping(o2, m)
    <2> SUFFICES ASSUME NEW r \in Rings
                 PROVE  (\E u \in Vars : o[u].kind \in Mappers /\ o[u].ring = r)
                            <=> \E u \in Vars : o2[u].kind \in Mappers /\ o2[u].ring = r
        BY <1>0 DEF Mapping
    <2>1. ASSUME NEW u \in Vars, o[u].kind \in Mappers, o[u].ring = r
          PROVE  \E x \in Vars : o2[x].kind \in Mappers /\ o2[x].ring = r
        <3>1. CASE u = v
            BY <1>4, <2>1, <3>1
        <3>2. CASE u # v
            BY <1>4, <2>1, <3>2
        <3> QED BY <3>1, <3>2
    <2> QED BY <1>6, <2>1
<1>9. ReaderFlags(o2, c, k)
    <2>1. ASSUME NEW r \in Rings
          PROVE  c[r] + Cardinality(Willing(o2, r)) <= 1 + k[r]
        <3>0. /\ c[r] \in Nat /\ k[r] \in Nat /\ Cardinality(Willing(o, r)) \in Nat
              /\ Cardinality(Willing(o2, r)) \in Nat /\ c[r] + Cardinality(Willing(o, r)) <= 1 + k[r]
            BY <1>0, WillingCount DEF Typed, ReaderFlags
        <3>1. CASE v \in Willing(o, r)
            <4>1. Willing(o2, r) \subseteq (Willing(o, r) \ {v}) \cup {to}
                BY <1>4, <3>1 DEF Willing
            <4>2. Cardinality(Willing(o2, r)) <= Cardinality(Willing(o, r))
                BY <3>1, <4>1, ReplacedWilling
            <4> QED BY <3>0, <4>2
        <3>2. CASE v \notin Willing(o, r)
            <4>1. Willing(o2, r) \subseteq Willing(o, r)
                BY <1>4, <3>2 DEF Willing
            <4> QED BY <3>0, <4>1, NoMoreWilling
        <3> QED BY <3>1, <3>2
    <2>2. ASSUME NEW r \in Rings, NEW u \in Vars, o2[u].ring = r
          PROVE  /\ k[r] > 0 => o2[u].kind = "init"
                 /\ o2[u].reader_done => o2[u].kind = "init" \/ c[r] > 0
        BY <1>0, <1>6, <2>2 DEF ReaderFlags
    <2> QED BY <2>1, <2>2 DEF ReaderFlags
<1>10. WriterFlags(o2, w)
    BY <1>0, <1>6 DEF WriterFlags
<1> QED BY <1>3, <1>5, <1>7, <1>8, <1>9, <1>10 DEF Sound, o2

(* Copies of an "init" owner: the ring has one holder more, and if that    *)
(* one would give a consumer, a copy is counted.                           *)
LEMMA SoundCopy ==
    ASSUME NEW o, NEW m, NEW c, NEW w, NEW k, NEW rings, Sound(o, m, c, w, k, rings),
           NEW v \in Vars, NEW to \in Vars, v # to, o[v].kind = "init",
           o[to].kind \in {"none", "init"},
           NEW k2 \in [Rings -> 0..MaxCopies],
           k2 = IF o[v].reader_done THEN k ELSE [k EXCEPT ![o[v].ring] = @ + 1]
    PROVE  Sound([o EXCEPT ![to] = o[v]], m, c, w, k2, rings)
<1> DEFINE o2 == [o EXCEPT ![to] = o[v]]
<1> USE OwnersNullAssumption
<1>0. /\ Typed(o, m, c, w, k) /\ OneHolder(o) /\ OnlyMade(o, c, w, k, rings)
      /\ Mapping(o, m) /\ ReaderFlags(o, c, k) /\ WriterFlags(o, w)
    BY DEF Sound
<1>1. o[v] \in Owners
    BY <1>0 DEF Typed, NoOwner
<1>2. Typed(o2, m, c, w, k2)
    BY <1>0, <1>1 DEF Typed
<1>3. o2[to] = o[v] /\ \A u \in Vars : u # to => o2[u] = o[u]
    BY <1>0 DEF Typed
<1>4. \A r \in Rings : /\ k[r] \in Nat /\ k2[r] \in Nat /\ k[r] <= k2[r]
                       /\ r # o[v].ring \/ o[v].reader_done => k2[r] = k[r]
                       /\ r = o[v].ring /\ ~o[v].reader_done => k2[r] = k[r] + 1
    BY <1>0 DEF Typed
<1> HIDE DEF o2
<1>6. OneHolder(o2)
    <2> SUFFICES ASSUME NEW x \in Vars, NEW y \in Vars, x # y,
                        o2[x].ring = o2[y].ring, o2[x].ring # Null
                 PROVE  o2[x].kind = "init" /\ o2[y].kind = "init"
        BY DEF OneHolder
    <2>1. CASE x = to
        BY <1>0, <1>3, <2>1 DEF OneHolder
    <2>2. CASE y = to
        BY <1>0, <1>3, <2>2 DEF OneHolder
    <2>3. CASE x # to /\ y # to
        BY <1>0, <1>3, <2>3 DEF OneHolder
    <2> QED BY <2>1, <2>2, <2>3
<1>7. OnlyMade(o2, c, w, k2, rings)
    BY <1>0, <1>3, <1>4 DEF OnlyMade
<1>8. Mapping(o2, m)
    <2>1. o2[to].kind \notin Mappers /\ o[to].kind \notin Mappers
        BY <1>3 DEF Mappers
    <2> QED BY <1>0, <1>3, <2>1 DEF Mapping
<1>9. ReaderFlags(o2, c, k2)
    <2>1. ASSUME NEW r \in Rings
          PROVE  c[r] + Cardinality(Willing(o2, r)) <= 1 + k2[r]
        <3>0. /\ c[r] \in Nat /\ Cardinality(Willing(o, r)) \in Nat
              /\ Cardinality(Willing(o2, r)) \in Nat /\ c[r] + Cardinality(Willing(o, r)) <= 1 + k[r]
            BY <1>0, WillingCount DEF Typed, ReaderFlags
        <3>1. CASE r = o[v].ring /\ ~o[v].reader_done
            <4>1. Willing(o2, r) \subseteq Willing(o, r) \cup {to}
                BY <1>3 DEF Willing
            <4>2. Cardinality(Willing(o2, r)) <= Cardinality(Willing(o, r)) + 1
                BY <4>1, OneMoreWilling
            <4> QED BY <1>4, <3>0, <3>1, <4>2
        <3>2. CASE r # o[v].ring \/ o[v].reader_done
            <4>1. Willing(o2, r) \subseteq Willing(o, r)
                BY <1>3, <3>2 DEF Willing
            <4> QED BY <1>4, <3>0, <3>2, <4>1, NoMoreWilling
        <3> QED BY <3>1, <3>2
    <2>2. ASSUME NEW r \in Rings, NEW u \in Vars, o2[u].ring = r
          PROVE  /\ k2[r] > 0 => o2[u].kind = "init"
                 /\ o2[u].reader_done => o2[u].kind = "init" \/ c[r] > 0
        <3>1. CASE u = to
            BY <1>3, <3>1
        <3>2. CASE u # to /\ r = o[v].ring
            BY <1>0, <1>3, <2>2, <3>2 DEF OneHolder
        <3>3. CASE u # to /\ r # o[v].ring
            BY <1>0, <1>3, <1>4, <2>2, <3>3 DEF ReaderFlags
        <3> QED BY <3>1, <3>2, <3>3
    <2> QED BY <2>1, <2>2 DEF ReaderFlags
<1>10. WriterFlags(o2, w)
    BY <1>0, <1>3 DEF WriterFlags
<1> QED BY <1>2, <1>6, <1>7, <1>8, <1>9, <1>10 DEF Sound, o2

(* The destructors: a mapper unmaps the ring it holds.                     *)
LEMMA SoundDestroy ==
    ASSUME NEW o, NEW m, NEW c, NEW w, NEW k, NEW rings, Sound(o, m, c, w, k, rings), NEW v \in Vars
    PROVE  Sound([o EXCEPT ![v] = NoOwner], IF o[v].kind \in Mappers THEN m \ {o[v].ring} ELSE m,
                 c, w, k, rings)
<1> DEFINE o2 == [o EXCEPT ![v] = NoOwner]
           m2 == IF o[v].kind \in Mappers THEN m \ {o[v].ring} ELSE m
<1> USE OwnersNullAssumption
<1>0. /\ Typed(o, m, c, w, k) /\ OneHolder(o) /\ OnlyMade(o, c, w, k, rings)
      /\ Mapping(o, m) /\ ReaderFlags(o, c, k) /\ WriterFlags(o, w)
    BY DEF Sound
<1>1. Typed(o2, m2, c, w, k)
    BY <1>0 DEF Typed
<1>2. o2[v].ring = Null /\ \A u \in Vars : u # v => o2[u] = o[u]
    BY <1>0 DEF Typed, NoOwner
<1> HIDE DEF o2
<1>3. \A r \in Rings, u \in Vars : o2[u].ring = r => u # v /\ o[u].ring = r /\ o2[u] = o[u]
    BY <1>2
<1>4. OneHolder(o2)
    BY <1>0, <1>2 DEF OneHolder
<1>5. OnlyMade(o2, c, w, k, rings)
    BY <1>0, <1>3 DEF OnlyMade
<1>6. Mapping(o2, m2)
    <2> SUFFICES ASSUME NEW r \in Rings
                 PROVE  r \in m2 <=> \E u \in Vars : o2[u].kind \in Mappers /\ o2[u].ring = r
        BY DEF Mapping
    <2>1. CASE o[v].ring = r
        <3>1. CASE o[v].kind \in Mappers
            <4>1. \A u \in Vars : o2[u].ring # r
                BY <1>0, <1>3, <2>1, <3>1 DEF OneHolder, Mappers
            <4>2. r \notin m2
                BY <2>1, <3>1
            <4> QED BY <4>1, <4>2
        <3>2. CASE o[v].kind \notin Mappers
            <4>1. \A u \in Vars : o[u].kind \in Mappers /\ o[u].ring = r => u # v
                BY <3>2
            <4> QED BY <1>0, <1>2, <1>3, <3>2, <4>1 DEF Mapping
        <3> QED BY <3>1, <3>2
    <2>2. CASE o[v].ring # r
        <3>1. r \in m2 <=> r \in m
            BY <2>2
        <3> QED BY <1>0, <1>2, <1>3, <2>2, <3>1 DEF Mapping
    <2> QED BY <2>1, <2>2
<1>7. ReaderFlags(o2, c, k)
    <2>1. ASSUME NEW r \in Rings
          PROVE  c[r] + Cardinality(Willing(o2, r)) <= 1 + k[r]
        <3>0. /\ c[r] \in Nat /\ k[r] \in Nat /\ Cardinality(Willing(o, r)) \in Nat
              /\ Cardinality(Willing(o2, r)) \in Nat /\ c[r] + Cardinality(Willing(o, r)) <= 1 + k[r]
            BY <1>0, WillingCount DEF Typed, ReaderFlags
        <3>1. Willing(o2, r) \subseteq Willing(o, r)
            BY <1>3 DEF Willing
        <3> QED BY <3>0, <3>1, NoMoreWilling
    <2> QED BY <1>0, <1>3, <2>1 DEF ReaderFlags
<1>8. WriterFlags(o2, w)
    BY <1>0, <1>3 DEF WriterFlags
<1> QED BY <1>1, <1>4, <1>5, <1>6, <1>7, <1>8 DEF Sound, o2

-----------------------------------------------------------------------------
(* The invariant *)

(* f with the entry of p replaced *)
With(f, p, x) == [f EXCEPT ![p] = x]

(* A step of one process leaves the others as they are.                    *)
LEMMA OneProcess ==
    ASSUME IInv, NEW p \in running, NEW o, NEW m, NEW c, NEW w, NEW k,
           owner' = With(owner, p, o), mapped' = With(mapped, p, m),
           consumers' = With(consumers, p, c), producers' = With(producers, p, w),
           copies' = With(copies, p, k),
           running' = running, made \subseteq made', made' \subseteq Rings,
           Sound(o, m, c, w, k, made'),
           \A v \in Vars : o[v].writer_done => o[v].kind = "scsp"
    PROVE  IInv'
<1>0. TypeOK /\ p \in Procs
    BY DEF IInv, TypeOK
<1>1. m \subseteq made'
    BY DEF Sound, Typed, Mapping, OnlyMade
<1>2. /\ o \in [Vars -> Owners \cup {NoOwner}]
      /\ c \in [Rings -> Nat] /\ w \in [Rings -> Nat] /\ k \in [Rings -> 0..MaxCopies]
    BY DEF Sound, Typed
<1>3. /\ owner'[p] = o /\ mapped'[p] = m /\ consumers'[p] = c /\ producers'[p] = w /\ copies'[p] = k
      /\ \A q \in Procs : q # p => /\ owner'[q] = owner[q] /\ mapped'[q] = mapped[q]
                                   /\ consumers'[q] = consumers[q] /\ producers'[q] = producers[q]
                                   /\ copies'[q] = copies[q]
    BY <1>0 DEF TypeOK, With
<1>4. TypeOK'
    <2>1. owner' \in [Procs -> [Vars -> Owners \cup {NoOwner}]]
        BY <1>0, <1>2 DEF TypeOK, With
    <2>2. \A q \in Procs, v \in Vars : owner'[q][v].writer_done => owner'[q][v].kind = "scsp"
        BY <1>0, <1>3 DEF TypeOK
    <2>3. mapped' \in [Procs -> SUBSET made']
        BY <1>0, <1>1 DEF TypeOK, With
    <2>4. /\ consumers' \in [Procs -> [Rings -> Nat]] /\ producers' \in [Procs -> [Rings -> Nat]]
          /\ copies' \in [Procs -> [Rings -> 0..MaxCopies]]
        BY <1>0, <1>2 DEF TypeOK, With
    <2> QED BY <1>0, <2>1, <2>2, <2>3, <2>4 DEF TypeOK
<1>5. ASSUME NEW q \in running
      PROVE  Sound(owner'[q], mapped'[q], consumers'[q], producers'[q], copies'[q], made')
    <2>1. CASE q = p
        BY <1>3, <2>1
    <2>2. CASE q # p
        <3>1. Sound(owner[q], mapped[q], consumers[q], producers[q], copies[q], made')
            BY SoundGrows DEF IInv
        <3> QED BY <1>0, <1>3, <2>2, <3>1 DEF TypeOK
    <2> QED BY <2>1, <2>2
<1> QED BY <1>4, <1>5 DEF IInv

(* Nothing is owned, mapped or made.                                       *)
LEMMA InitIInv == Init => IInv
<1> SUFFICES ASSUME Init PROVE IInv
    OBVIOUS
<1> USE OwnersFirstAssumption, OwnersNullAssumption, OwnersCopiesAssumption DEF Init
<1>1. TypeOK
    BY DEF TypeOK, NoOwner
<1>2. ASSUME NEW p \in running PROVE Sound(owner[p], mapped[p], consumers[p], producers[p], copies[p], made)
    <2>1. Typed(owner[p], mapped[p], consumers[p], producers[p], copies[p])
        BY DEF Typed
    <2>2. \A v \in Vars : owner[p][v].ring = Null /\ owner[p][v].kind \notin Mappers
        BY DEF NoOwner, Mappers
    <2>3. \A r \in Rings : /\ consumers[p][r] = 0 /\ producers[p][r] = 0 /\ copies[p][r] = 0
                       /\ r \notin mapped[p]
        OBVIOUS
    <2>4. \A r \in Rings : Cardinality(Willing(owner[p], r)) = 0
        <3>1. \A r \in Rings : Willing(owner[p], r) = {}
            BY <2>2 DEF Willing
        <3> QED BY <3>1, FS_EmptySet
    <2> QED BY <2>1, <2>2, <2>3, <2>4
            DEF Sound, OneHolder, OnlyMade, Mapping, ReaderFlags, WriterFlags
<1> QED BY <1>1, <1>2 DEF IInv

(* No step leaves the inductive invariant.                                 *)
LEMMA StepIInv == IInv /\ [Next]_vars => IInv'
<1> SUFFICES ASSUME IInv, [Next]_vars PROVE IInv'
    OBVIOUS
<1> USE OwnersFirstAssumption, OwnersNullAssumption
<1> USE DEF Live, Put, ends
<1>0. /\ TypeOK /\ running \subseteq Procs
      /\ \A p \in running : Sound(owner[p], mapped[p], consumers[p], producers[p], copies[p], made)
    BY DEF IInv, TypeOK
<1>a. ASSUME NEW p \in running
      PROVE  /\ mapped = With(mapped, p, mapped[p])
             /\ consumers = With(consumers, p, consumers[p])
             /\ producers = With(producers, p, producers[p])
             /\ copies = With(copies, p, copies[p])
    BY <1>0 DEF TypeOK, With
<1>b. ASSUME NEW p \in running, NEW v \in Vars
      PROVE  owner[p][v].writer_done => owner[p][v].kind = "scsp"
    BY <1>0 DEF TypeOK
<1>c. \A p \in running : owner[p] \in [Vars -> Owners \cup {NoOwner}]
    BY <1>0 DEF Sound, Typed
<1>1. ASSUME NEW p \in Procs, NEW v \in Vars, Create(p, v) PROVE IInv'
    <2>1. PICK r \in Rings \ made, kind \in Kinds, flag \in BOOLEAN :
              /\ flag => kind = "init"
              /\ made' = made \cup {r} /\ Put(p, v, New(kind, r, flag))
              /\ mapped' = IF kind \in Mappers THEN [mapped EXCEPT ![p] = @ \cup {r}] ELSE mapped
        <3>1. PICK r \in Rings \ made :
                  /\ made' = made \cup {r}
                  /\ \/ CreateMemInit(p, v, r) \/ CreateLowCas(p, v, r)
                     \/ ConstructInit(p, v, r) \/ ConstructBuffer(p, v, r)
            BY <1>1 DEF Create
        <3>2. CASE CreateMemInit(p, v, r)
            BY <3>1, <3>2 DEF CreateMemInit, Kinds, Mappers
        <3>3. CASE CreateLowCas(p, v, r)
            BY <3>1, <3>3 DEF CreateLowCas, Kinds, Mappers
        <3>4. CASE ConstructInit(p, v, r)
            <4>1. PICK flag \in BOOLEAN : Put(p, v, New("init", r, flag))
                BY <3>4 DEF ConstructInit
            <4>2. mapped' = mapped /\ "init" \in Kinds /\ "init" \notin Mappers
                BY <3>4 DEF ConstructInit, Kinds, Mappers
            <4> QED BY <3>1, <4>1, <4>2
        <3>5. CASE ConstructBuffer(p, v, r)
            BY <3>1, <3>5 DEF ConstructBuffer, Kinds, Mappers, Buffers
        <3> QED BY <3>1, <3>2, <3>3, <3>4, <3>5
    <2> DEFINE o == [owner[p] EXCEPT ![v] = New(kind, r, flag)]
               m == IF kind \in Mappers THEN mapped[p] \cup {r} ELSE mapped[p]
    <2>2. p \in running /\ owner[p][v] = NoOwner /\ running' = running
          /\ consumers' = consumers /\ producers' = producers /\ copies' = copies
        BY <1>1 DEF Create
    <2>3. Sound(o, m, consumers[p], producers[p], copies[p], made')
        BY <1>0, <2>1, <2>2, SoundCreate
    <2>4. \A u \in Vars : o[u].writer_done => o[u].kind = "scsp"
        BY <1>b, <1>c, <2>2 DEF New
    <2>5. owner' = With(owner, p, o) /\ mapped' = With(mapped, p, m)
        BY <1>a, <2>1, <2>2 DEF With
    <2>6. made \subseteq made' /\ made' \subseteq Rings
        BY <1>0, <2>1 DEF TypeOK
    <2> HIDE DEF o, m
    <2> QED BY <1>a, <2>2, <2>3, <2>4, <2>5, <2>6, OneProcess
<1>2. ASSUME NEW p \in Procs, NEW v \in Vars, CreateConsumer(p, v) \/ CreateFromFactory(p, v)
      PROVE  IInv'
    <2> DEFINE o == [owner[p] EXCEPT ![v] = [owner[p][v] EXCEPT !.reader_done = TRUE]]
               c == [r \in Rings |-> consumers[p][r] + IF r = owner[p][v].ring THEN 1 ELSE 0]
    <2>1. /\ p \in running /\ owner[p][v] # NoOwner /\ ~owner[p][v].reader_done
          /\ owner' = [owner EXCEPT ![p][v] = [owner[p][v] EXCEPT !.reader_done = TRUE]]
          /\ consumers' = [consumers EXCEPT ![p] =
                             [r \in Rings |-> @[r] + IF r = owner[p][v].ring THEN 1 ELSE 0]]
          /\ running' = running /\ mapped' = mapped /\ producers' = producers /\ copies' = copies
          /\ made' = made
        BY <1>2 DEF CreateConsumer, CreateFromFactory, GiveConsumer
    <2>2. Sound(o, mapped[p], c, producers[p], copies[p], made)
        BY <1>0, <2>1, SoundConsumer
    <2>3. owner[p][v] \in Owners
        BY <1>c, <2>1
    <2>4. \A u \in Vars : o[u].writer_done => o[u].kind = "scsp"
        <3> SUFFICES ASSUME NEW u \in Vars PROVE o[u].writer_done => o[u].kind = "scsp"
            OBVIOUS
        <3>1. CASE u = v
            <4>1. o[u] = [owner[p][v] EXCEPT !.reader_done = TRUE]
                BY <1>c, <2>1, <3>1
            <4>2. o[u].writer_done = owner[p][v].writer_done /\ o[u].kind = owner[p][v].kind
                BY <2>3, <4>1 DEF Owners
            <4> QED BY <1>b, <2>1, <4>2
        <3>2. CASE u # v
            BY <1>b, <1>c, <2>1, <3>2
        <3> QED BY <3>1, <3>2
    <2>5. owner' = With(owner, p, o) /\ consumers' = With(consumers, p, c)
        BY <2>1 DEF With
    <2>6. made' \subseteq Rings
        BY <1>0, <2>1 DEF TypeOK
    <2> HIDE DEF o, c
    <2> QED BY <1>a, <2>1, <2>2, <2>4, <2>5, <2>6, OneProcess
<1>3. ASSUME NEW p \in Procs, NEW v \in Vars, CreateProducer(p, v) PROVE IInv'
    <2> DEFINE o == [owner[p] EXCEPT ![v] = [owner[p][v] EXCEPT !.writer_done = TRUE]]
               w == [producers[p] EXCEPT ![owner[p][v].ring] = @ + 1]
    <2>1. /\ p \in running /\ owner[p][v].kind = "scsp" /\ owner[p][v].ring # Null
          /\ owner[p][v] # NoOwner /\ ~owner[p][v].writer_done
          /\ owner' = [owner EXCEPT ![p][v] = [owner[p][v] EXCEPT !.writer_done = TRUE]]
          /\ producers' = [producers EXCEPT ![p][owner[p][v].ring] = @ + 1]
          /\ running' = running /\ mapped' = mapped /\ consumers' = consumers /\ copies' = copies
          /\ made' = made
        BY <1>3 DEF CreateProducer
    <2>2. Sound(o, mapped[p], consumers[p], w, copies[p], made)
        BY <1>0, <2>1, SoundProducer
    <2>3. owner[p][v] \in Owners
        BY <1>c, <2>1
    <2>4. \A u \in Vars : o[u].writer_done => o[u].kind = "scsp"
        <3> SUFFICES ASSUME NEW u \in Vars PROVE o[u].writer_done => o[u].kind = "scsp"
            OBVIOUS
        <3>1. CASE u = v
            <4>1. o[u] = [owner[p][v] EXCEPT !.writer_done = TRUE]
                BY <1>c, <2>1, <3>1
            <4> QED BY <2>1, <2>3, <4>1 DEF Owners
        <3>2. CASE u # v
            BY <1>b, <1>c, <2>1, <3>2
        <3> QED BY <3>1, <3>2
    <2>5. owner' = With(owner, p, o) /\ producers' = With(producers, p, w)
        BY <2>1 DEF With
    <2>6. made' \subseteq Rings
        BY <1>0, <2>1 DEF TypeOK
    <2> HIDE DEF o, w
    <2> QED BY <1>a, <2>1, <2>2, <2>4, <2>5, <2>6, OneProcess
<1>4. ASSUME NEW p \in Procs, NEW v \in Vars, Destroy(p, v) PROVE IInv'
    <2> DEFINE o == [owner[p] EXCEPT ![v] = NoOwner]
               m == IF owner[p][v].kind \in Mappers THEN mapped[p] \ {owner[p][v].ring} ELSE mapped[p]
    <2>1. /\ p \in running /\ running' = running /\ made' = made
          /\ consumers' = consumers /\ producers' = producers /\ copies' = copies
          /\ owner' = With(owner, p, o) /\ mapped' = With(mapped, p, m)
        BY <1>4 DEF Destroy, With
    <2>2. Sound(o, m, consumers[p], producers[p], copies[p], made)
        BY <1>0, <2>1, SoundDestroy
    <2>3. \A u \in Vars : o[u].writer_done => o[u].kind = "scsp"
        BY <1>b, <1>c, <2>1 DEF NoOwner
    <2>4. made' \subseteq Rings
        BY <1>0, <2>1 DEF TypeOK
    <2> HIDE DEF o, m
    <2> QED BY <1>a, <2>1, <2>2, <2>3, <2>4, OneProcess
<1>5. ASSUME NEW p \in Procs, NEW v \in Vars, NEW to \in Vars, Move(p, v, to) \/ MoveAssign(p, v, to)
      PROVE  IInv'
    <2> DEFINE o == [owner[p] EXCEPT ![to] = owner[p][v], ![v].ring = Null]
    <2>1. /\ p \in running /\ running' = running /\ made' = made
          /\ mapped' = mapped /\ consumers' = consumers /\ producers' = producers /\ copies' = copies
          /\ owner' = [owner EXCEPT ![p][to] = owner[p][v], ![p][v].ring = Null]
          /\ owner[p][v] # NoOwner
        BY <1>5 DEF Move, MoveAssign
    <2>2. v # to /\ owner[p][to].kind \notin Mappers
        BY <1>5 DEF Move, MoveAssign, NoOwner, Mappers, Buffers
    <2>3. Sound(o, mapped[p], consumers[p], producers[p], copies[p], made)
        BY <1>0, <2>1, <2>2, SoundMove
    <2>4. owner[p][v] \in Owners
        BY <1>c, <2>1
    <2>5. \A u \in Vars : o[u].writer_done => o[u].kind = "scsp"
        <3> SUFFICES ASSUME NEW u \in Vars PROVE o[u].writer_done => o[u].kind = "scsp"
            OBVIOUS
        <3>1. CASE u = v
            <4>1. o[u] = [owner[p][v] EXCEPT !.ring = Null]
                BY <1>c, <2>1, <2>2, <3>1
            <4>2. o[u].writer_done = owner[p][v].writer_done /\ o[u].kind = owner[p][v].kind
                BY <2>4, <4>1 DEF Owners
            <4> QED BY <1>b, <2>1, <4>2
        <3>2. CASE u # v
            <4>1. o[u] = IF u = to THEN owner[p][v] ELSE owner[p][u]
                BY <1>c, <2>1, <3>2
            <4> QED BY <1>b, <2>1, <4>1
        <3> QED BY <3>1, <3>2
    <2>6. owner' = With(owner, p, o)
        BY <1>0, <1>c, <2>1, <2>2 DEF TypeOK, With
    <2>7. made' \subseteq Rings
        BY <1>0, <2>1 DEF TypeOK
    <2> HIDE DEF o
    <2> QED BY <1>a, <2>1, <2>3, <2>5, <2>6, <2>7, OneProcess
<1>6. ASSUME NEW p \in Procs, NEW v \in Vars, NEW to \in Vars, Copy(p, v, to) PROVE IInv'
    <2> DEFINE o == [owner[p] EXCEPT ![to] = owner[p][v]]
               k == IF owner[p][v].reader_done THEN copies[p]
                    ELSE [copies[p] EXCEPT ![owner[p][v].ring] = @ + 1]
    <2>1. /\ p \in running /\ running' = running /\ made' = made
          /\ mapped' = mapped /\ consumers' = consumers /\ producers' = producers
          /\ owner[p][v].kind = "init" /\ v # to /\ owner[p][to].kind \in {"none", "init"}
          /\ owner' = With(owner, p, o)
        BY <1>6 DEF Copy, With
    <2>2. copies[p] \in [Rings -> 0..MaxCopies]
        BY <1>0, <2>1 DEF TypeOK
    <2>3. copies' = With(copies, p, k) /\ k \in [Rings -> 0..MaxCopies]
        <3>1. CASE owner[p][v].reader_done
            BY <1>6, <1>a, <2>1, <2>2, <3>1 DEF Copy
        <3>2. CASE ~owner[p][v].reader_done
            <4>1. /\ copies[p][owner[p][v].ring] < MaxCopies
                  /\ copies' = [copies EXCEPT ![p][owner[p][v].ring] = @ + 1]
                BY <1>6, <3>2 DEF Copy
            <4>2. k = [copies[p] EXCEPT ![owner[p][v].ring] = @ + 1]
                BY <3>2
            <4>3. copies' = With(copies, p, k)
                BY <4>1, <4>2 DEF With
            <4>4. k \in [Rings -> 0..MaxCopies]
                <5>1. CASE owner[p][v].ring \in Rings
                    <6>1. copies[p][owner[p][v].ring] + 1 \in 0..MaxCopies
                        BY <2>2, <4>1, <5>1, OwnersCopiesAssumption
                    <6> QED BY <2>2, <4>2, <6>1
                <5>2. CASE owner[p][v].ring \notin Rings
                    BY <2>2, <4>2, <5>2
                <5> QED BY <5>1, <5>2
            <4> QED BY <4>3, <4>4
        <3> QED BY <3>1, <3>2
    <2>4. Sound(o, mapped[p], consumers[p], producers[p], k, made)
        BY <1>0, <2>1, <2>3, SoundCopy
    <2>5. \A u \in Vars : o[u].writer_done => o[u].kind = "scsp"
        BY <1>b, <1>c, <2>1
    <2>6. made' \subseteq Rings
        BY <1>0, <2>1 DEF TypeOK
    <2> HIDE DEF o, k
    <2> QED BY <1>a, <2>1, <2>3, <2>4, <2>5, <2>6, OneProcess
<1>7. ASSUME NEW p \in Procs, NEW q \in Procs, Fork(p, q) PROVE IInv'
    <2>1. TypeOK'
        BY <1>0, <1>7 DEF Fork, TypeOK
    <2>2. ASSUME NEW x \in running'
          PROVE  Sound(owner[x], mapped[x], consumers[x], producers[x], copies[x], made)'
        <3>1. CASE x = q
            <4>1. /\ owner'[x] = owner[p] /\ mapped'[x] = mapped[p]
                  /\ consumers'[x] = consumers[p] /\ producers'[x] = producers[p]
                  /\ copies'[x] = copies[p]
                BY <1>0, <1>7, <3>1 DEF Fork, TypeOK
            <4>2. Sound(owner[p], mapped[p], consumers[p], producers[p], copies[p], made) /\ made' = made
                BY <1>0, <1>7 DEF Fork
            <4> QED BY <4>1, <4>2
        <3>2. CASE x # q
            <4>1. /\ x \in running /\ owner'[x] = owner[x] /\ mapped'[x] = mapped[x]
                  /\ consumers'[x] = consumers[x] /\ producers'[x] = producers[x]
                  /\ copies'[x] = copies[x]
                BY <1>0, <1>7, <3>2 DEF Fork, TypeOK
            <4>2. Sound(owner[x], mapped[x], consumers[x], producers[x], copies[x], made) /\ made' = made
                BY <1>0, <1>7, <4>1 DEF Fork
            <4> QED BY <4>1, <4>2
        <3> QED BY <3>1, <3>2
    <2> QED BY <2>1, <2>2 DEF IInv
<1>8. ASSUME NEW p \in Procs, Exit(p) PROVE IInv'
    <2>1. TypeOK'
        BY <1>0, <1>8, OwnersCopiesAssumption DEF Exit, TypeOK, NoOwner
    <2>2. ASSUME NEW x \in running'
          PROVE  Sound(owner[x], mapped[x], consumers[x], producers[x], copies[x], made)'
        <3>1. /\ x \in running /\ owner'[x] = owner[x] /\ mapped'[x] = mapped[x]
              /\ consumers'[x] = consumers[x] /\ producers'[x] = producers[x]
              /\ copies'[x] = copies[x]
            BY <1>0, <1>8 DEF Exit, TypeOK
        <3>2. Sound(owner[x], mapped[x], consumers[x], producers[x], copies[x], made) /\ made' = made
            BY <1>0, <1>8, <3>1 DEF Exit
        <3> QED BY <3>1, <3>2
    <2> QED BY <2>1, <2>2 DEF IInv
<1>9. CASE UNCHANGED vars
    BY <1>9 DEF vars, IInv, TypeOK
<1> QED BY <1>1, <1>2, <1>3, <1>4, <1>5, <1>6, <1>7, <1>8, <1>9 DEF Next

(* The inductive invariant holds in every reachable state, for every set   *)
(* of processes, variables and rings.                                      *)
THEOREM Invariance == Spec => []IInv
<1>1. Init => IInv
    BY InitIInv
<1>2. IInv /\ [Next]_vars => IInv'
    BY StepIInv
<1> QED BY <1>1, <1>2, PTL DEF Spec

(* Type correctness: only rings that were made are mapped or handed out,   *)
(* and only scsp limits its producers.                                     *)
THEOREM TypeCorrect == Spec => []TypeOK
<1>1. IInv => TypeOK
    BY DEF IInv
<1> QED BY <1>1, Invariance, PTL

(* However often an owner was moved, assigned or copied by fork, it        *)
(* refuses a consumer exactly if its process knows of one already.  Only   *)
(* an "init" owner may refuse the first one, for the flag its constructor  *)
(* leaves unset, or give another, when it was copied before it gave one.   *)
THEOREM FlagIsRight == Spec => []FlagFollowsRing
<1>1. IInv => FlagFollowsRing
    <2> SUFFICES ASSUME IInv, NEW p \in running, NEW v \in Vars, owner[p][v].ring # Null
                 PROVE  /\ consumers[p][owner[p][v].ring] > 0 /\ ~owner[p][v].reader_done
                              => owner[p][v].kind = "init" /\ copies[p][owner[p][v].ring] > 0
                        /\ owner[p][v].reader_done =>
                              owner[p][v].kind = "init" \/ consumers[p][owner[p][v].ring] > 0
        BY DEF FlagFollowsRing
    <2> DEFINE r == owner[p][v].ring
               S == Willing(owner[p], r)
    <2>1. Sound(owner[p], mapped[p], consumers[p], producers[p], copies[p], made)
        BY DEF IInv
    <2>2. r \in Rings
        BY <2>1 DEF Sound, Typed, Owners, NoOwner
    <2>3. /\ consumers[p][r] \in Nat /\ copies[p][r] \in Nat
          /\ consumers[p][r] + Cardinality(S) <= 1 + copies[p][r]
          /\ copies[p][r] > 0 => owner[p][v].kind = "init"
          /\ owner[p][v].reader_done => owner[p][v].kind = "init" \/ consumers[p][r] > 0
        BY <2>1, <2>2 DEF Sound, Typed, ReaderFlags
    <2>4. ASSUME ~owner[p][v].reader_done PROVE Cardinality(S) \in Nat /\ Cardinality(S) # 0
        <3>1. v \in S
            BY <2>4 DEF Willing
        <3> QED BY <3>1, WillingCount, FS_EmptySet
    <2> HIDE DEF S, r
    <2>5. consumers[p][r] > 0 /\ ~owner[p][v].reader_done => copies[p][r] > 0
        BY <2>3, <2>4
    <2> QED BY <2>3, <2>5 DEF r
<1> QED BY <1>1, Invariance, PTL

(* No process gets a second consumer of a ring, nor a second producer of   *)
(* one of scsp, nor either of them if it inherited one; but for one more   *)
(* consumer per copy of an "init" owner that had not given its own.        *)
THEOREM OneEndEach == Spec => []NoSecondEnd
<1>1. IInv => NoSecondEnd
    <2> SUFFICES ASSUME IInv, NEW p \in running
                 PROVE  /\ \A r \in Rings :
                               consumers[p][r] + Cardinality(Willing(owner[p], r)) <= 1 + copies[p][r]
                        /\ \A v \in Vars :
                            owner[p][v].kind = "scsp" /\ owner[p][v].ring # Null
                                => producers[p][owner[p][v].ring] <= 1
        BY DEF NoSecondEnd
    <2>1. Sound(owner[p], mapped[p], consumers[p], producers[p], copies[p], made)
        BY DEF IInv
    <2>2. \A v \in Vars : owner[p][v].ring \in Rings \cup {Null}
        BY <2>1 DEF Sound, Typed, Owners, NoOwner
    <2> QED BY <2>1, <2>2 DEF Sound, ReaderFlags, WriterFlags
<1> QED BY <1>1, Invariance, PTL

(* In every process a ring is mapped exactly as long as one owner there    *)
(* will unmap it: it is unmapped once, and not under its owner.            *)
THEOREM UnmappedOnce == Spec => []MappedByOneOwner
<1>1. IInv => MappedByOneOwner
    <2> SUFFICES ASSUME IInv, NEW p \in running, NEW r \in Rings
                 PROVE  Cardinality(OwnersOf(p, r)) = IF r \in mapped[p] THEN 1 ELSE 0
        BY DEF MappedByOneOwner
    <2>1. Sound(owner[p], mapped[p], consumers[p], producers[p], copies[p], made)
        BY DEF IInv
    <2>2. CASE r \in mapped[p]
        <3>1. PICK v \in Vars : owner[p][v].kind \in Mappers /\ owner[p][v].ring = r
            BY <2>1, <2>2 DEF Sound, Mapping
        <3>2. OwnersOf(p, r) = {v}
            BY <2>1, <3>1, OwnersNullAssumption DEF Sound, OneHolder, OwnersOf, Mappers
        <3> QED BY <2>2, <3>2, FS_Singleton
    <2>3. CASE r \notin mapped[p]
        <3>1. OwnersOf(p, r) = {}
            BY <2>1, <2>3 DEF Sound, Mapping, OwnersOf
        <3> QED BY <2>3, <3>1, FS_EmptySet
    <2> QED BY <2>2, <2>3
<1> QED BY <1>1, Invariance, PTL
=============================================================================
