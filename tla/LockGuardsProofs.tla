-------------------------- MODULE LockGuardsProofs --------------------------
(***************************************************************************)
(* Proofs about LockGuards, for any threads, variables, cells and entries, *)
(* and about CacheLine, for every element and header.                      *)
(*                                                                         *)
(* A guard is in a spot: a variable of a thread, or the thread's hand,     *)
(* while it is made or destroyed.  What the spots point to is one          *)
(* function, and every step changes it at one, two or three spots.         *)
(***************************************************************************)
EXTENDS LockGuards, CacheLine, FiniteSetTheorems, TLAPS

-----------------------------------------------------------------------------
(* The inductive invariant *)

Vars == Threads \X Places
Spots == Vars \cup {<<t>> : t \in Threads}

(* What thread t has at hand to give back *)
InHand(t) == IF pc[t] = "restore" THEN Null ELSE temp[t].on

(* What is guarded from each spot *)
At == [x \in Spots |-> IF x \in Vars THEN place[x[1]][x[2]].on ELSE InHand(x[1])]

(* at guards every lock from one spot, and from none when it is free or    *)
(* its guard was assigned to; the loose cells excepted.                    *)
Lone(at, held, leak, loose) ==
    \A r \in Locks \ loose :
        /\ \A x, y \in Spots : at[x] = r /\ at[y] = r => x = y
        /\ (\E x \in Spots : at[x] = r) <=> r \in held \ leak

Points == {"idle", "check", "clear", "undo", "unlock", "advance", "restore"}
Guards == [kind : Kinds \cup {"none", "moved"}, on : Locks \cup {Null}]

(* Guards point to what their kind is for.                                 *)
Fits(g) ==
    \/ g = NoGuard
    \/ g = MovedFrom
    \/ g \in [kind : {"reader", "writer", "wrapper"}, on : Cells]
    \/ g \in [kind : {"entry"}, on : Entries]

(* What is at hand at each point of the code, with the loose cells         *)
HandFits(p, g, loose) ==
    \/ p = "idle" /\ g = NoGuard
    \/ p = "check" /\ g \in [kind : {"reader", "writer"}, on : Cells]
    \/ p = "clear" /\ g \in [kind : {"reader", "wrapper"}, on : Cells]
    \/ p = "undo" /\ g \in [kind : {"reader"}, on : Cells]
    \/ p = "unlock" /\ g \notin {NoGuard, MovedFrom} /\ Fits(g)
    \/ p = "advance" /\ g = Guard("wrapper", Null)
    \/ p = "restore" /\ g \in [kind : {"writer"}, on : loose]

Types ==
    /\ locked \in SUBSET Locks /\ full \in SUBSET Cells
    /\ place \in [Threads -> [Places -> Guards]]
    /\ \A t \in Threads, v \in Places : Fits(place[t][v])
    /\ pc \in [Threads -> Points]
    /\ temp \in [Threads -> Guards]
    /\ \A t \in Threads : HandFits(pc[t], temp[t], loosened)
    /\ wrapped \in Nat /\ read_head \in Nat
    /\ loosened \in SUBSET Cells /\ leaked \in SUBSET Entries

Owned ==
    /\ leaked \subseteq locked
    /\ Lone(At, locked, leaked, loosened)

Wraps ==
    /\ IsFiniteSet(Wrappers) /\ IsFiniteSet(Unwrapping)
    /\ read_head + Cardinality(Wrappers) + Cardinality(Unwrapping) = wrapped

IInv == Types /\ Owned /\ FindingsStayTrue /\ Wraps

-----------------------------------------------------------------------------
(* Spots *)

(* A spot is a variable or a hand, and these differ.                       *)
LEMMA SpotsAre ==
    /\ \A t \in Threads, v \in Places : <<t, v>> \in Spots /\ <<t, v>> \in Vars
    /\ \A t \in Threads : <<t>> \in Spots /\ <<t>> \notin Vars
    /\ \A x \in Spots : \/ \E t \in Threads, v \in Places : x = <<t, v>>
                        \/ \E t \in Threads : x = <<t>>
  <1>1. \A t, u, v : <<t>> # <<u, v>>
    OBVIOUS
  <1> QED
    BY <1>1 DEF Spots, Vars

(* At is the function of what the places and the hands say.                *)
LEMMA AtIs ==
    ASSUME Types
    PROVE  /\ At \in [Spots -> Locks \cup {Null}]
           /\ \A t \in Threads, v \in Places : At[<<t, v>>] = place[t][v].on
           /\ \A t \in Threads : At[<<t>>] = InHand(t)
  <1>1. \A t \in Threads, v \in Places : At[<<t, v>>] = place[t][v].on
    BY SpotsAre DEF At
  <1>2. \A t \in Threads : At[<<t>>] = InHand(t)
    BY SpotsAre DEF At
  <1>3. \A t \in Threads, v \in Places : place[t][v].on \in Locks \cup {Null}
    BY DEF Types, Guards
  <1>4. \A t \in Threads : InHand(t) \in Locks \cup {Null}
    BY DEF Types, Guards, InHand
  <1>5. \A x \in Spots : At[x] \in Locks \cup {Null}
    BY <1>1, <1>2, <1>3, <1>4, SpotsAre
  <1> QED
    BY <1>1, <1>2, <1>5 DEF At

(* A function that says what they say after a step is At after it.         *)
LEMMA AtBecomes ==
    ASSUME NEW f, f = [x \in Spots |-> f[x]],
           \A t \in Threads, v \in Places : f[<<t, v>>] = place'[t][v].on,
           \A t \in Threads : f[<<t>>] = InHand(t)'
    PROVE  At' = f
  <1>1. \A t \in Threads, v \in Places : At'[<<t, v>>] = place'[t][v].on
    BY SpotsAre DEF At
  <1>2. \A t \in Threads : At'[<<t>>] = InHand(t)'
    BY SpotsAre DEF At
  <1>3. \A x \in Spots : At'[x] = f[x]
    BY <1>1, <1>2, SpotsAre
  <1>4. At' = [x \in Spots |-> At'[x]]
    BY DEF At
  <1> QED
    BY <1>3, <1>4

(* Where a guard is, its lock is set, and no other spot guards it.         *)
LEMMA Alone ==
    ASSUME NEW at, NEW held, NEW leak, NEW loose, Lone(at, held, leak, loose),
           NEW x \in Spots, at[x] \in Locks \ loose
    PROVE  /\ at[x] \in held \ leak
           /\ \A y \in Spots : at[y] = at[x] => y = x
  BY DEF Lone

(* Taking a free lock into an empty spot.                                  *)
LEMMA LoneTake ==
    ASSUME NEW at \in [Spots -> Locks \cup {Null}], NEW held, NEW leak, NEW loose,
           Lone(at, held, leak, loose), leak \subseteq held,
           NEW x \in Spots, at[x] = Null, NEW r \in Locks, r \notin held
    PROVE  Lone([at EXCEPT ![x] = r], held \cup {r}, leak, loose)
  <1>1. Null \notin Locks
    BY GuardKindsAssumption DEF Locks, Cells
  <1> QED
    BY <1>1 DEF Lone

(* Giving a lock back.                                                     *)
LEMMA LoneDrop ==
    ASSUME NEW at \in [Spots -> Locks \cup {Null}], NEW held, NEW leak, NEW loose,
           Lone(at, held, leak, loose), NEW x \in Spots
    PROVE  Lone([at EXCEPT ![x] = Null], held \ {at[x]}, leak, loose)
  <1>1. Null \notin Locks
    BY GuardKindsAssumption DEF Locks, Cells
  <1> QED
    BY <1>1 DEF Lone

(* Handing a guard over to an empty spot.                                  *)
LEMMA LoneHand ==
    ASSUME NEW at \in [Spots -> Locks \cup {Null}], NEW held, NEW leak, NEW loose,
           Lone(at, held, leak, loose),
           NEW x \in Spots, NEW y \in Spots, x # y, at[y] = Null
    PROVE  Lone([at EXCEPT ![y] = at[x], ![x] = Null], held, leak, loose)
  <1>1. Null \notin Locks
    BY GuardKindsAssumption DEF Locks, Cells
  <1> QED
    BY <1>1 DEF Lone

(* Forgetting a guard.                                                     *)
LEMMA LoneLeak ==
    ASSUME NEW at \in [Spots -> Locks \cup {Null}], NEW held, NEW leak, NEW loose,
           Lone(at, held, leak, loose), NEW x \in Spots
    PROVE  Lone([at EXCEPT ![x] = Null], held, leak \cup {at[x]}, loose)
  <1>1. Null \notin Locks
    BY GuardKindsAssumption DEF Locks, Cells
  <1> QED
    BY <1>1 DEF Lone

(* Writing over the lock of a cell, which is loose from then on.           *)
LEMMA LoneLoosen ==
    ASSUME NEW at, NEW held, NEW leak, NEW loose, Lone(at, held, leak, loose),
           NEW now, NEW looser, loose \subseteq looser,
           \A r \in Locks \ looser : r \in now <=> r \in held
    PROVE  Lone(at, now, leak, looser)
  BY DEF Lone

-----------------------------------------------------------------------------
(* What steps do to the threads, and to the wrappers *)

(* Step moves one thread.                                                  *)
LEMMA StepAt ==
    ASSUME Types, NEW t \in Threads, NEW from, NEW to \in Points, NEW g \in Guards,
           Step(t, from, to, g)
    PROVE  /\ pc' \in [Threads -> Points] /\ temp' \in [Threads -> Guards]
           /\ pc[t] = from /\ pc'[t] = to /\ temp'[t] = g
           /\ \A u \in Threads \ {t} : pc'[u] = pc[u] /\ temp'[u] = temp[u]
  BY DEF Types, Step

(* What guards are made of.                                                *)
LEMMA GuardsAre ==
    /\ NoGuard \in Guards /\ MovedFrom \in Guards
    /\ \A kind \in Kinds, on \in Locks \cup {Null} :
          Guard(kind, on) \in Guards /\ Guard(kind, on).kind = kind /\ Guard(kind, on).on = on
    /\ NoGuard.kind = "none" /\ NoGuard.on = Null
    /\ MovedFrom.kind = "moved" /\ MovedFrom.on = Null
    /\ Cells \subseteq Locks /\ Entries \subseteq Locks /\ Null \notin Locks /\ Cells \cap Entries = {}
  BY GuardKindsAssumption DEF Guards, Guard, NoGuard, MovedFrom, Kinds, Locks, Cells

(* What a guard of each kind points to.                                    *)
LEMMA FitsKinds ==
    ASSUME NEW g, Fits(g)
    PROVE  /\ g \in Guards
           /\ g.kind \in {"reader", "writer", "wrapper"} => g.on \in Cells
           /\ g.kind = "entry" => g.on \in Entries
           /\ g.kind = "none" => g = NoGuard
           /\ g.kind = "moved" => g = MovedFrom
           /\ g.on = Null <=> g \in {NoGuard, MovedFrom}
           /\ \A k \in {"reader", "writer", "wrapper"} : g.kind = k => g \in [kind : {k}, on : Cells]
  BY GuardsAre DEF Fits, Guards, Kinds, Guard, NoGuard, MovedFrom

(* The wrappers in the variables, after a step.                            *)
LEMMA WrappersAre ==
    /\ \A t \in Threads, v \in Places : <<t, v>> \in Wrappers <=> place[t][v].kind = "wrapper"
    /\ \A t \in Threads, v \in Places : <<t, v>> \in Wrappers' <=> place'[t][v].kind = "wrapper"
    /\ \A x \in Wrappers \cup Wrappers' : \E t \in Threads, v \in Places : x = <<t, v>>
  BY DEF Wrappers

(* A step that neither makes, moves nor ends a wrapper.                    *)
LEMMA SameWrappers ==
    ASSUME \A t \in Threads, v \in Places : place'[t][v].kind = "wrapper" <=> place[t][v].kind = "wrapper"
    PROVE  Wrappers' = Wrappers
  BY WrappersAre

(* Nor the hands.                                                          *)
LEMMA SameUnwrapping ==
    ASSUME \A t \in Threads : temp'[t].kind = "wrapper" <=> temp[t].kind = "wrapper"
    PROVE  Unwrapping' = Unwrapping
  BY DEF Unwrapping

(* Then the count of the wraps stays right.                                *)
LEMMA WrapsSame ==
    ASSUME Wraps, Wrappers' = Wrappers, Unwrapping' = Unwrapping,
           wrapped' = wrapped, read_head' = read_head
    PROVE  Wraps'
  BY DEF Wraps

(* A wrapper that goes from one variable to another.                       *)
LEMMA WrapsMove ==
    ASSUME Wraps, NEW x \in Wrappers, NEW y, y \notin Wrappers,
           Wrappers' = (Wrappers \ {x}) \cup {y}, Unwrapping' = Unwrapping,
           wrapped' = wrapped, read_head' = read_head
    PROVE  Wraps'
  <1>1. PICK S : S = Wrappers
    OBVIOUS
  <1>2. IsFiniteSet(S \ {x}) /\ Cardinality(S \ {x}) = Cardinality(S) - 1
    BY <1>1, FS_RemoveElement DEF Wraps
  <1>3. y \notin S \ {x}
    BY <1>1
  <1>4. /\ IsFiniteSet((S \ {x}) \cup {y})
        /\ Cardinality((S \ {x}) \cup {y}) = Cardinality(S \ {x}) + 1
    BY <1>2, <1>3, FS_AddElement
  <1>5. Cardinality(S) \in Nat
    BY <1>1, FS_CardinalityType DEF Wraps
  <1>6. Cardinality((S \ {x}) \cup {y}) = Cardinality(S)
    BY <1>2, <1>4, <1>5
  <1> QED
    BY <1>1, <1>4, <1>6 DEF Wraps

(* A wrapper that is made.                                                 *)
LEMMA WrapsMade ==
    ASSUME Types, Wraps, NEW x, x \notin Wrappers,
           Wrappers' = Wrappers \cup {x}, Unwrapping' = Unwrapping,
           wrapped' = wrapped + 1, read_head' = read_head
    PROVE  Wraps'
  <1>1. PICK S, h, n : S = Wrappers /\ h = read_head /\ n = wrapped
    OBVIOUS
  <1>2. IsFiniteSet(S \cup {x}) /\ Cardinality(S \cup {x}) = Cardinality(S) + 1
    BY <1>1, FS_AddElement DEF Wraps
  <1>3. Cardinality(S) \in Nat /\ Cardinality(Unwrapping) \in Nat
    BY <1>1, FS_CardinalityType DEF Wraps
  <1>4. h \in Nat /\ n \in Nat /\ h + Cardinality(S) + Cardinality(Unwrapping) = n
    BY <1>1 DEF Types, Wraps
  <1>5. h + (Cardinality(S) + 1) + Cardinality(Unwrapping) = n + 1
    BY <1>3, <1>4
  <1> QED
    BY <1>1, <1>2, <1>5 DEF Wraps

(* A wrapper that goes from its variable to the hand.                      *)
LEMMA WrapsHand ==
    ASSUME Types, Wraps, NEW x \in Wrappers, NEW t, t \notin Unwrapping,
           Wrappers' = Wrappers \ {x}, Unwrapping' = Unwrapping \cup {t},
           wrapped' = wrapped, read_head' = read_head
    PROVE  Wraps'
  <1>1. PICK S, T, h, n : S = Wrappers /\ T = Unwrapping /\ h = read_head /\ n = wrapped
    OBVIOUS
  <1>2. IsFiniteSet(S \ {x}) /\ Cardinality(S \ {x}) = Cardinality(S) - 1
    BY <1>1, FS_RemoveElement DEF Wraps
  <1>3. IsFiniteSet(T \cup {t}) /\ Cardinality(T \cup {t}) = Cardinality(T) + 1
    BY <1>1, FS_AddElement DEF Wraps
  <1>4. Cardinality(S) \in Nat /\ Cardinality(T) \in Nat
    BY <1>1, FS_CardinalityType DEF Wraps
  <1>5. h \in Nat /\ n \in Nat /\ h + Cardinality(S) + Cardinality(T) = n
    BY <1>1 DEF Types, Wraps
  <1>6. h + (Cardinality(S) - 1) + (Cardinality(T) + 1) = n
    BY <1>4, <1>5
  <1> QED
    BY <1>1, <1>2, <1>3, <1>6 DEF Wraps

(* A wrapper at hand that advances read_head.                              *)
LEMMA WrapsDone ==
    ASSUME Types, Wraps, NEW t \in Unwrapping,
           Wrappers' = Wrappers, Unwrapping' = Unwrapping \ {t},
           wrapped' = wrapped, read_head' = read_head + 1
    PROVE  Wraps'
  <1>1. PICK T, h, n : T = Unwrapping /\ h = read_head /\ n = wrapped
    OBVIOUS
  <1>2. IsFiniteSet(T \ {t}) /\ Cardinality(T \ {t}) = Cardinality(T) - 1
    BY <1>1, FS_RemoveElement DEF Wraps
  <1>3. Cardinality(Wrappers) \in Nat /\ Cardinality(T) \in Nat
    BY <1>1, FS_CardinalityType DEF Wraps
  <1>4. h \in Nat /\ n \in Nat /\ h + Cardinality(Wrappers) + Cardinality(T) = n
    BY <1>1 DEF Types, Wraps
  <1>5. (h + 1) + Cardinality(Wrappers) + (Cardinality(T) - 1) = n
    BY <1>3, <1>4
  <1> QED
    BY <1>1, <1>2, <1>5 DEF Wraps

-----------------------------------------------------------------------------
(* The invariant, action by action *)

(* Initially there is no guard.                                            *)
LEMMA InitIInv == Init => IInv
  <1> SUFFICES ASSUME Init PROVE IInv
    OBVIOUS
  <1>1. Types
    BY GuardsAre DEF Init, Types, Fits, HandFits, Points
  <1>2. \A x \in Spots : At[x] \notin Locks
    BY <1>1, AtIs, SpotsAre, GuardsAre DEF Init, InHand
  <1>3. Owned
    BY <1>2 DEF Init, Owned, Lone
  <1>4. FindingsStayTrue
    BY GuardsAre DEF Init, FindingsStayTrue
  <1>5. Wrappers = {} /\ Unwrapping = {}
    BY GuardsAre DEF Init, Wrappers, Unwrapping
  <1>6. Wraps
    BY <1>5, FS_EmptySet DEF Init, Wraps
  <1> QED
    BY <1>1, <1>3, <1>4, <1>6 DEF IInv

(* try_read_lock, try_write_lock: a free cell is taken into the hand.      *)
LEMMA LockCellIInv ==
    ASSUME IInv, NEW t \in Threads, NEW c \in Cells, NEW kind \in {"reader", "writer"},
           LockCell(t, kind, c)
    PROVE  IInv'
  <1>1. Types /\ Owned /\ FindingsStayTrue /\ Wraps
    BY DEF IInv
  <1>2. /\ Step(t, "idle", "check", Guard(kind, c))
        /\ c \notin locked /\ locked' = locked \cup {c}
        /\ full' = full /\ place' = place /\ read_head' = read_head
        /\ wrapped' = wrapped /\ loosened' = loosened /\ leaked' = leaked
    BY DEF LockCell, TryLock, history
  <1>3. Guard(kind, c) \in Guards /\ "check" \in Points /\ kind \in Kinds /\ c \in Locks
    BY GuardsAre DEF Kinds, Points
  <1>4. /\ pc' \in [Threads -> Points] /\ temp' \in [Threads -> Guards]
        /\ pc[t] = "idle" /\ pc'[t] = "check" /\ temp'[t] = Guard(kind, c)
        /\ \A u \in Threads \ {t} : pc'[u] = pc[u] /\ temp'[u] = temp[u]
    BY <1>1, <1>2, <1>3, StepAt
  <1>5. temp[t] = NoGuard
    BY <1>1, <1>4 DEF Types, HandFits
  <1>6. Types'
    <2>1. HandFits(pc'[t], temp'[t], loosened')
      BY <1>4 DEF HandFits, Guard
    <2>2. \A u \in Threads \ {t} : HandFits(pc'[u], temp'[u], loosened')
      BY <1>1, <1>2, <1>4 DEF Types
    <2> QED
      BY <1>1, <1>2, <1>3, <1>4, <2>1, <2>2 DEF Types
  <1>7. Owned'
    <2>1. At[<<t>>] = Null
      BY <1>1, <1>4, <1>5, AtIs, GuardsAre DEF InHand
    <2> DEFINE f == [At EXCEPT ![<<t>>] = c]
    <2>2. At' = f
      <3>1. \A u \in Threads, v \in Places : f[<<u, v>>] = place'[u][v].on
        BY <1>1, <1>2, AtIs, SpotsAre
      <3>2. \A u \in Threads : f[<<u>>] = InHand(u)'
        <4>1. TAKE u \in Threads
        <4>2. CASE u = t
          BY <1>1, <1>3, <1>4, <4>2, AtIs, SpotsAre, GuardsAre DEF InHand
        <4>3. CASE u # t
          BY <1>1, <1>4, <4>3, AtIs, SpotsAre DEF InHand
        <4> QED
          BY <4>2, <4>3
      <3>3. f = [x \in Spots |-> f[x]]
        BY <1>1, AtIs
      <3> HIDE DEF f
      <3> QED
        BY <3>1, <3>2, <3>3, AtBecomes
    <2>3. Lone(f, locked \cup {c}, leaked, loosened)
      BY <1>1, <1>2, <1>3, <2>1, AtIs, SpotsAre, LoneTake DEF Owned
    <2> QED
      BY <1>1, <1>2, <2>2, <2>3 DEF Owned
  <1>8. FindingsStayTrue'
    BY <1>1, <1>2, <1>4 DEF FindingsStayTrue
  <1>9. Wraps'
    <2>1. Wrappers' = Wrappers
      BY <1>2, SameWrappers
    <2>2. Unwrapping' = Unwrapping
      BY <1>3, <1>4, <1>5, GuardsAre, SameUnwrapping
    <2> QED
      BY <1>1, <1>2, <2>1, <2>2, WrapsSame
  <1> QED
    BY <1>6, <1>7, <1>8, <1>9 DEF IInv

(* ... and given to the caller, when it holds what was asked for.          *)
LEMMA ReturnGuardIInv ==
    ASSUME IInv, NEW t \in Threads, NEW v \in Places, ReturnGuard(t, v)
    PROVE  IInv'
  <1>1. Types /\ Owned /\ FindingsStayTrue /\ Wraps
    BY DEF IInv
  <1>2. /\ Step(t, "check", "idle", NoGuard)
        /\ temp[t].kind = "reader" => temp[t].on \in full
        /\ place[t][v] = NoGuard
        /\ place' = [place EXCEPT ![t][v] = temp[t]]
        /\ locked' = locked /\ full' = full /\ read_head' = read_head
        /\ wrapped' = wrapped /\ loosened' = loosened /\ leaked' = leaked
    BY DEF ReturnGuard, history
  <1>3. NoGuard \in Guards /\ "idle" \in Points
    BY GuardsAre DEF Points
  <1>4. /\ pc' \in [Threads -> Points] /\ temp' \in [Threads -> Guards]
        /\ pc[t] = "check" /\ pc'[t] = "idle" /\ temp'[t] = NoGuard
        /\ \A u \in Threads \ {t} : pc'[u] = pc[u] /\ temp'[u] = temp[u]
    <2>1. Step(t, "check", "idle", NoGuard)
      BY <1>2
    <2> QED
      BY <1>1, <1>3, <2>1, StepAt
  <1>5. temp[t] \in [kind : {"reader", "writer"}, on : Cells] /\ Fits(temp[t]) /\ temp[t] \in Guards
    BY <1>1, <1>4 DEF Types, HandFits, Fits
  <1>6. /\ place' \in [Threads -> [Places -> Guards]] /\ place'[t][v] = temp[t]
        /\ \A u \in Threads, w \in Places : u # t \/ w # v => place'[u][w] = place[u][w]
    BY <1>1, <1>2, <1>5 DEF Types
  <1>7. Types'
    <2>1. \A u \in Threads : HandFits(pc'[u], temp'[u], loosened')
      BY <1>1, <1>2, <1>4 DEF Types, HandFits
    <2>2. \A u \in Threads, w \in Places : Fits(place'[u][w])
      BY <1>1, <1>5, <1>6 DEF Types
    <2> QED
      BY <1>1, <1>2, <1>4, <1>6, <2>1, <2>2 DEF Types
  <1>8. Owned'
    <2>1. At[<<t, v>>] = Null /\ At[<<t>>] = temp[t].on
      BY <1>1, <1>2, <1>4, AtIs, GuardsAre DEF InHand
    <2>2. <<t>> # <<t, v>> /\ <<t>> \in Spots /\ <<t, v>> \in Spots
      BY SpotsAre
    <2> DEFINE f == [At EXCEPT ![<<t, v>>] = At[<<t>>], ![<<t>>] = Null]
    <2>3. At' = f
      <3>1. \A u \in Threads, w \in Places : f[<<u, w>>] = place'[u][w].on
        <4>1. TAKE u \in Threads, w \in Places
        <4>2. <<u, w>> # <<t>> /\ <<u, w>> \in Spots
          BY SpotsAre
        <4>3. CASE u = t /\ w = v
          BY <1>1, <1>6, <2>1, <4>2, <4>3, AtIs
        <4>4. CASE u # t \/ w # v
          BY <1>1, <1>6, <4>2, <4>4, AtIs
        <4> QED
          BY <4>3, <4>4
      <3>2. \A u \in Threads : f[<<u>>] = InHand(u)'
        <4>1. TAKE u \in Threads
        <4>2. InHand(u)' = IF u = t THEN Null ELSE InHand(u)
          BY <1>4, GuardsAre DEF InHand
        <4>3. /\ <<u>> \in Spots /\ <<u>> # <<t, v>> /\ (<<u>> = <<t>> => u = t)
              /\ At[<<u>>] = InHand(u)
          BY <1>1, AtIs, SpotsAre
        <4>4. f[<<u>>] = IF u = t THEN Null ELSE At[<<u>>]
          BY <1>1, <2>2, <4>3, AtIs
        <4> QED
          BY <4>2, <4>3, <4>4
      <3>3. f = [x \in Spots |-> f[x]]
        BY <1>1, AtIs
      <3> HIDE DEF f
      <3> QED
        BY <3>1, <3>2, <3>3, AtBecomes
    <2>4. Lone(f, locked, leaked, loosened)
      BY <1>1, <2>1, <2>2, AtIs, LoneHand DEF Owned
    <2> QED
      BY <1>1, <1>2, <2>3, <2>4 DEF Owned
  <1>9. FindingsStayTrue'
    <2>1. \A u \in Threads, w \in Places :
             place'[u][w].kind \in {"reader", "wrapper"} => place'[u][w].on \in full \cup loosened
      BY <1>1, <1>2, <1>5, <1>6 DEF FindingsStayTrue
    <2> QED
      BY <1>1, <1>2, <1>4, <2>1 DEF FindingsStayTrue
  <1>10. Wraps'
    <2>1. Wrappers' = Wrappers
      BY <1>2, <1>5, <1>6, GuardsAre, SameWrappers
    <2>2. Unwrapping' = Unwrapping
      BY <1>4, <1>5, GuardsAre, SameUnwrapping
    <2> QED
      BY <1>1, <1>2, <2>1, <2>2, WrapsSame
  <1> QED
    BY <1>7, <1>8, <1>9, <1>10 DEF IInv

(* ... or to be destroyed, when it does not: a reader then knows that the  *)
(* cell is empty.                                                          *)
LEMMA ReturnNothingIInv ==
    ASSUME IInv, NEW t \in Threads, ReturnNothing(t)
    PROVE  IInv'
  <1> DEFINE to == IF temp[t].kind = "reader" THEN "undo" ELSE "unlock"
  <1>1. Types /\ Owned /\ FindingsStayTrue /\ Wraps
    BY DEF IInv
  <1>2. /\ Step(t, "check", to, temp[t])
        /\ temp[t].kind = "reader" => temp[t].on \notin full
        /\ locked' = locked /\ full' = full /\ place' = place /\ read_head' = read_head
        /\ wrapped' = wrapped /\ loosened' = loosened /\ leaked' = leaked
    BY DEF ReturnNothing, history
  <1>3. temp[t] \in Guards /\ to \in Points
    BY <1>1 DEF Types, Points
  <1>4. /\ pc' \in [Threads -> Points] /\ temp' \in [Threads -> Guards]
        /\ pc[t] = "check" /\ pc'[t] = to /\ temp'[t] = temp[t]
        /\ \A u \in Threads \ {t} : pc'[u] = pc[u] /\ temp'[u] = temp[u]
    <2> HIDE DEF to
    <2> QED
      BY <1>1, <1>2, <1>3, StepAt
  <1>5. temp[t] \in [kind : {"reader", "writer"}, on : Cells]
    BY <1>1, <1>4 DEF Types, HandFits
  <1>6. Types'
    <2>1. HandFits(pc'[t], temp'[t], loosened')
      <3>1. CASE temp[t].kind = "reader"
        BY <1>4, <1>5, <3>1 DEF HandFits
      <3>2. CASE temp[t].kind # "reader"
        <4>1. Fits(temp[t]) /\ temp[t] \notin {NoGuard, MovedFrom}
          BY <1>5 DEF Fits, NoGuard, MovedFrom, Guard
        <4> QED
          BY <1>4, <3>2, <4>1 DEF HandFits
      <3> QED
        BY <3>1, <3>2
    <2>2. \A u \in Threads \ {t} : HandFits(pc'[u], temp'[u], loosened')
      BY <1>1, <1>2, <1>4 DEF Types
    <2> QED
      BY <1>1, <1>2, <1>4, <2>1, <2>2 DEF Types
  <1>7. Owned'
    <2>1. At' = At
      <3>1. \A u \in Threads, w \in Places : At[<<u, w>>] = place'[u][w].on
        BY <1>1, <1>2, AtIs
      <3>2. \A u \in Threads : At[<<u>>] = InHand(u)'
        BY <1>1, <1>4, AtIs DEF InHand
      <3>3. At = [x \in Spots |-> At[x]]
        BY <1>1, AtIs
      <3> QED
        BY <3>1, <3>2, <3>3, AtBecomes
    <2> QED
      BY <1>1, <1>2, <2>1 DEF Owned
  <1>8. FindingsStayTrue'
    <2>1. pc'[t] = "undo" => temp'[t].on \notin full
      BY <1>2, <1>4
    <2>2. \A u \in Threads \ {t} : pc'[u] = "undo" => temp'[u].on \notin full \ loosened
      BY <1>1, <1>4 DEF FindingsStayTrue
    <2> QED
      BY <1>1, <1>2, <2>1, <2>2 DEF FindingsStayTrue
  <1>9. Wraps'
    <2>1. Wrappers' = Wrappers
      BY <1>2, SameWrappers
    <2>2. Unwrapping' = Unwrapping
      BY <1>4, SameUnwrapping
    <2> QED
      BY <1>1, <1>2, <2>1, <2>2, WrapsSame
  <1> QED
    BY <1>6, <1>7, <1>8, <1>9 DEF IInv

(* TemplateLockedLockGuard locks a free entry for a variable.              *)
LEMMA LockEntryIInv ==
    ASSUME IInv, NEW t \in Threads, NEW e \in Entries, NEW v \in Places, LockEntry(t, e, v)
    PROVE  IInv'
  <1>1. Types /\ Owned /\ FindingsStayTrue /\ Wraps
    BY DEF IInv
  <1>2. /\ place[t][v] = NoGuard
        /\ e \notin locked /\ locked' = locked \cup {e}
        /\ place' = [place EXCEPT ![t][v] = Guard("entry", e)]
        /\ full' = full /\ pc' = pc /\ temp' = temp /\ read_head' = read_head
        /\ wrapped' = wrapped /\ loosened' = loosened /\ leaked' = leaked
    BY DEF LockEntry, TryLock, history
  <1>3. /\ Guard("entry", e) \in Guards /\ Fits(Guard("entry", e)) /\ e \in Locks
        /\ Guard("entry", e).kind = "entry" /\ Guard("entry", e).on = e
    BY GuardsAre DEF Kinds, Fits, Guard
  <1>4. /\ place' \in [Threads -> [Places -> Guards]] /\ place'[t][v] = Guard("entry", e)
        /\ \A u \in Threads, w \in Places : u # t \/ w # v => place'[u][w] = place[u][w]
    BY <1>1, <1>2, <1>3 DEF Types
  <1>5. Types'
    BY <1>1, <1>2, <1>3, <1>4 DEF Types
  <1>6. Owned'
    <2>1. At[<<t, v>>] = Null /\ <<t, v>> \in Spots
      BY <1>1, <1>2, AtIs, SpotsAre, GuardsAre
    <2> DEFINE f == [At EXCEPT ![<<t, v>>] = e]
    <2>2. At' = f
      <3>1. \A u \in Threads, w \in Places : f[<<u, w>>] = place'[u][w].on
        <4>1. TAKE u \in Threads, w \in Places
        <4>2. <<u, w>> \in Spots /\ \A z \in Threads : <<z>> # <<u, w>>
          BY SpotsAre
        <4>3. CASE u = t /\ w = v
          BY <1>1, <1>3, <1>4, <4>2, <4>3, AtIs
        <4>4. CASE u # t \/ w # v
          BY <1>1, <1>4, <4>2, <4>4, AtIs
        <4> QED
          BY <4>3, <4>4
      <3>2. \A u \in Threads : f[<<u>>] = InHand(u)'
        BY <1>1, <1>2, AtIs, SpotsAre DEF InHand
      <3>3. f = [x \in Spots |-> f[x]]
        BY <1>1, <1>2, AtIs
      <3> HIDE DEF f
      <3> QED
        BY <3>1, <3>2, <3>3, AtBecomes
    <2>3. Lone(f, locked \cup {e}, leaked, loosened)
      BY <1>1, <1>2, <1>3, <2>1, AtIs, LoneTake DEF Owned
    <2> QED
      BY <1>1, <1>2, <2>2, <2>3 DEF Owned
  <1>7. FindingsStayTrue'
    <2>1. \A u \in Threads, w \in Places :
             place'[u][w].kind \in {"reader", "wrapper"} => place'[u][w].on \in full \cup loosened
      BY <1>1, <1>3, <1>4 DEF FindingsStayTrue
    <2> QED
      BY <1>1, <1>2, <2>1 DEF FindingsStayTrue
  <1>8. Wraps'
    <2>1. Wrappers' = Wrappers
      BY <1>2, <1>3, <1>4, GuardsAre, SameWrappers
    <2>2. Unwrapping' = Unwrapping
      BY <1>2, SameUnwrapping
    <2> QED
      BY <1>1, <1>2, <2>1, <2>2, WrapsSame
  <1> QED
    BY <1>5, <1>6, <1>7, <1>8 DEF IInv

(* A destructor takes the guard out of its variable, and in hand if there  *)
(* is a lock to give back.                                                 *)
LEMMA DestroyIInv ==
    ASSUME IInv, NEW t \in Threads, NEW v \in Places, Destroy(t, v)
    PROVE  IInv'
  <1>1. Types /\ Owned /\ FindingsStayTrue /\ Wraps
    BY DEF IInv
  <1>2. /\ pc[t] = "idle" /\ place[t][v] # NoGuard
        /\ place' = [place EXCEPT ![t][v] = NoGuard]
        /\ locked' = locked /\ full' = full /\ read_head' = read_head
        /\ wrapped' = wrapped /\ loosened' = loosened /\ leaked' = leaked
    BY DEF Destroy, history
  <1>3. temp[t] = NoGuard
    BY <1>1, <1>2 DEF Types, HandFits
  <1>4. /\ place' \in [Threads -> [Places -> Guards]] /\ place'[t][v] = NoGuard
        /\ \A u \in Threads, w \in Places : u # t \/ w # v => place'[u][w] = place[u][w]
    BY <1>1, <1>2, GuardsAre DEF Types
  <1>5. \A u \in Threads, w \in Places : Fits(place'[u][w])
    BY <1>1, <1>4 DEF Types, Fits
  <1>6. \A u \in Threads, w \in Places :
           place'[u][w].kind \in {"reader", "wrapper"} => place'[u][w].on \in full \cup loosened
    BY <1>1, <1>4, GuardsAre DEF FindingsStayTrue
  <1>7. PICK g \in Guards : g = place[t][v] /\ Fits(g) /\ g # NoGuard
    BY <1>1, <1>2 DEF Types
  <1>8. CASE g.on = Null
    <2>1. pc' = pc /\ temp' = temp
      BY <1>7, <1>8 DEF Destroy
    <2>2. g = MovedFrom
      BY <1>7, <1>8, FitsKinds
    <2>3. Types'
      BY <1>1, <1>2, <1>4, <1>5, <2>1 DEF Types
    <2>4. Owned'
      <3> DEFINE f == At
      <3>1. At' = f
        <4>1. \A u \in Threads, w \in Places : f[<<u, w>>] = place'[u][w].on
          <5>1. TAKE u \in Threads, w \in Places
          <5>2. <<u, w>> \in Spots /\ \A z \in Threads : <<z>> # <<u, w>>
            BY SpotsAre
          <5>3. CASE u = t /\ w = v
            <6>1. f[<<t, v>>] = Null
              BY <1>1, <1>7, <1>8, AtIs
            <6>2. place'[t][v].on = Null
              BY <1>4, GuardsAre
            <6> QED
              BY <5>3, <6>1, <6>2
          <5>4. CASE u # t \/ w # v
            BY <1>1, <1>4, <5>2, <5>4, AtIs
          <5> QED
            BY <5>3, <5>4
        <4>2. \A u \in Threads : f[<<u>>] = InHand(u)'
          BY <1>1, <2>1, AtIs, SpotsAre DEF InHand
        <4>3. f = [x \in Spots |-> f[x]]
          BY <1>1, <2>1, AtIs
        <4> HIDE DEF f
        <4> QED
          BY <4>1, <4>2, <4>3, AtBecomes
      <3> QED
        BY <1>1, <1>2, <3>1 DEF Owned
    <2>5. FindingsStayTrue'
      BY <1>1, <1>2, <1>6, <2>1 DEF FindingsStayTrue
    <2>6. Wraps'
      <3>1. Wrappers' = Wrappers
        BY <1>4, <1>7, <2>2, GuardsAre, SameWrappers
      <3>2. Unwrapping' = Unwrapping
        BY <2>1, SameUnwrapping
      <3> QED
        BY <1>1, <1>2, <3>1, <3>2, WrapsSame
    <2> QED
      BY <2>3, <2>4, <2>5, <2>6 DEF IInv
  <1>9. CASE g.on # Null
    <2>1. Step(t, "idle", UnlockBegins(g), g)
      BY <1>7, <1>9 DEF Destroy
    <2>2. UnlockBegins(g) \in {"clear", "unlock"} /\ UnlockBegins(g) \in Points
      BY DEF UnlockBegins, Points
    <2>3. /\ pc' \in [Threads -> Points] /\ temp' \in [Threads -> Guards]
          /\ pc'[t] = UnlockBegins(g) /\ temp'[t] = g
          /\ \A u \in Threads \ {t} : pc'[u] = pc[u] /\ temp'[u] = temp[u]
      <3>1. PICK to : to = UnlockBegins(g)
        OBVIOUS
      <3>2. to \in Points /\ Step(t, "idle", to, g)
        BY <2>1, <2>2, <3>1
      <3>3. Types /\ g \in Guards
        BY <1>1, <1>7
      <3>4. /\ pc' \in [Threads -> Points] /\ temp' \in [Threads -> Guards]
            /\ pc'[t] = to /\ temp'[t] = g
            /\ \A u \in Threads \ {t} : pc'[u] = pc[u] /\ temp'[u] = temp[u]
        BY <3>2, <3>3, StepAt
      <3> QED
        BY <3>1, <3>4
    <2>4. HandFits(pc'[t], temp'[t], loosened')
      <3>1. CASE g.kind \in {"reader", "wrapper"}
        BY <1>7, <2>3, <3>1, FitsKinds DEF UnlockBegins, HandFits
      <3>2. CASE g.kind \notin {"reader", "wrapper"}
        <4>1. g \notin {NoGuard, MovedFrom}
          BY <1>9, GuardsAre
        <4> QED
          BY <1>7, <2>3, <3>2, <4>1 DEF UnlockBegins, HandFits
      <3> QED
        BY <3>1, <3>2
    <2>5. Types'
      <3>1. \A u \in Threads \ {t} : HandFits(pc'[u], temp'[u], loosened')
        BY <1>1, <1>2, <2>3 DEF Types
      <3> QED
        BY <1>1, <1>2, <1>4, <1>5, <2>3, <2>4, <3>1 DEF Types
    <2>6. Owned'
      <3>1. At[<<t>>] = Null /\ At[<<t, v>>] = g.on
        BY <1>1, <1>2, <1>3, <1>7, AtIs, GuardsAre DEF InHand
      <3>2. <<t>> # <<t, v>> /\ <<t>> \in Spots /\ <<t, v>> \in Spots
        BY SpotsAre
      <3> DEFINE f == [At EXCEPT ![<<t>>] = At[<<t, v>>], ![<<t, v>>] = Null]
      <3>3. At' = f
        <4>1. \A u \in Threads, w \in Places : f[<<u, w>>] = place'[u][w].on
          <5>1. TAKE u \in Threads, w \in Places
          <5>2. <<u, w>> \in Spots /\ \A z \in Threads : <<z>> # <<u, w>>
            BY SpotsAre
          <5>3. CASE u = t /\ w = v
            BY <1>1, <1>4, GuardsAre, <5>2, <5>3, AtIs
          <5>4. CASE u # t \/ w # v
            BY <1>1, <1>4, <5>2, <5>4, AtIs
          <5> QED
            BY <5>3, <5>4
        <4>2. \A u \in Threads : f[<<u>>] = InHand(u)'
          <5>1. TAKE u \in Threads
          <5>2. <<u>> \in Spots /\ \A z \in Threads, y \in Places : <<u>> # <<z, y>>
            BY SpotsAre
          <5>3. CASE u = t
            BY <1>1, <2>2, <2>3, <3>1, <5>2, <5>3, AtIs DEF InHand
          <5>4. CASE u # t
            BY <1>1, <2>3, <5>2, <5>4, AtIs DEF InHand
          <5> QED
            BY <5>3, <5>4
        <4>3. f = [x \in Spots |-> f[x]]
          BY <1>1, AtIs
        <4> HIDE DEF f
        <4> QED
          BY <4>1, <4>2, <4>3, AtBecomes
      <3>4. Lone(f, locked, leaked, loosened)
        BY <1>1, <3>1, <3>2, AtIs, LoneHand DEF Owned
      <3> QED
        BY <1>1, <1>2, <3>3, <3>4 DEF Owned
    <2>7. FindingsStayTrue'
      <3>1. \A u \in Threads : pc'[u] = "undo" => temp'[u].on \notin full \ loosened
        BY <1>1, <2>2, <2>3 DEF FindingsStayTrue
      <3> QED
        BY <1>2, <1>6, <3>1 DEF FindingsStayTrue
    <2>8. Wraps'
      <3>1. CASE g.kind = "wrapper"
        <4>1. PICK x : x = <<t, v>>
          OBVIOUS
        <4>2. x \in Wrappers
          BY <1>7, <3>1, <4>1, WrappersAre
        <4>3. Wrappers' = Wrappers \ {x}
          <5>1. \A u \in Threads, w \in Places :
                   <<u, w>> \in Wrappers' <=> <<u, w>> \in Wrappers /\ <<u, w>> # x
            <6>1. TAKE u \in Threads, w \in Places
            <6>2. CASE u = t /\ w = v
              BY <1>4, <4>1, <6>2, GuardsAre, WrappersAre
            <6>3. CASE u # t \/ w # v
              BY <1>4, <4>1, <6>3, WrappersAre
            <6> QED
              BY <6>2, <6>3
          <5> QED
            BY <5>1, WrappersAre
        <4>4. t \notin Unwrapping
          BY <1>3, GuardsAre DEF Unwrapping
        <4>5. Unwrapping' = Unwrapping \cup {t}
          BY <2>3, <3>1 DEF Unwrapping
        <4> QED
          BY <1>1, <1>2, <4>2, <4>3, <4>4, <4>5, WrapsHand
      <3>2. CASE g.kind # "wrapper"
        <4>1. Wrappers' = Wrappers
          BY <1>4, <1>7, <3>2, GuardsAre, SameWrappers
        <4>2. Unwrapping' = Unwrapping
          BY <1>3, <2>3, <3>2, GuardsAre, SameUnwrapping
        <4> QED
          BY <1>1, <1>2, <4>1, <4>2, WrapsSame
      <3> QED
        BY <3>1, <3>2
    <2> QED
      BY <2>5, <2>6, <2>7, <2>8 DEF IInv
  <1> QED
    BY <1>8, <1>9

(* clear_data under the lock: nobody else has a guard on the cell, so that *)
(* nobody is deprived of an item.                                          *)
LEMMA ClearDataIInv ==
    ASSUME IInv, NEW t \in Threads, ClearData(t)
    PROVE  IInv'
  <1>1. Types /\ Owned /\ FindingsStayTrue /\ Wraps
    BY DEF IInv
  <1>2. PICK from \in {"clear", "undo"} : Step(t, from, "unlock", temp[t])
    BY DEF ClearData
  <1>3. /\ full' = full \ {temp[t].on}
        /\ locked' = locked /\ place' = place /\ read_head' = read_head
        /\ wrapped' = wrapped /\ loosened' = loosened /\ leaked' = leaked
    BY DEF ClearData, history
  <1>4. temp[t] \in Guards /\ "unlock" \in Points
    BY <1>1 DEF Types, Points
  <1>5. /\ pc' \in [Threads -> Points] /\ temp' \in [Threads -> Guards]
        /\ pc[t] = from /\ pc'[t] = "unlock" /\ temp'[t] = temp[t]
        /\ \A u \in Threads \ {t} : pc'[u] = pc[u] /\ temp'[u] = temp[u]
    <2>1. Step(t, from, "unlock", temp[t])
      BY <1>2
    <2> QED
      BY <1>1, <1>4, <2>1, StepAt
  <1>6. /\ temp[t] \in [kind : {"reader", "wrapper"}, on : Cells]
        /\ Fits(temp[t]) /\ temp[t] \notin {NoGuard, MovedFrom}
    <2>1. temp[t] \in [kind : {"reader", "wrapper"}, on : Cells]
      BY <1>1, <1>2, <1>5 DEF Types, HandFits
    <2>2. temp[t] \notin {NoGuard, MovedFrom}
      BY <2>1 DEF NoGuard, MovedFrom, Guard
    <2> QED
      BY <2>1, <2>2 DEF Fits
  <1>7. Types'
    <2>1. HandFits(pc'[t], temp'[t], loosened')
      BY <1>5, <1>6 DEF HandFits
    <2>2. \A u \in Threads \ {t} : HandFits(pc'[u], temp'[u], loosened')
      BY <1>1, <1>3, <1>5 DEF Types
    <2> QED
      BY <1>1, <1>3, <1>5, <2>1, <2>2 DEF Types
  <1>8. Owned'
    <2> DEFINE f == At
    <2>1. At' = f
      <3>1. \A u \in Threads, w \in Places : f[<<u, w>>] = place'[u][w].on
        BY <1>1, <1>3, AtIs, SpotsAre
      <3>2. \A u \in Threads : f[<<u>>] = InHand(u)'
        <4>1. TAKE u \in Threads
        <4>2. <<u>> \in Spots /\ \A z \in Threads, y \in Places : <<u>> # <<z, y>>
          BY SpotsAre
        <4>3. CASE u = t
          BY <1>1, <1>2, <1>5, <4>2, <4>3, AtIs DEF InHand
        <4>4. CASE u # t
          BY <1>1, <1>5, <4>2, <4>4, AtIs DEF InHand
        <4> QED
          BY <4>3, <4>4
      <3>3. f = [x \in Spots |-> f[x]]
        BY <1>1, AtIs
      <3> HIDE DEF f
      <3> QED
        BY <3>1, <3>2, <3>3, AtBecomes
    <2> QED
      BY <1>1, <1>3, <2>1 DEF Owned
  <1>9. FindingsStayTrue'
    <2>1. ASSUME NEW u \in Threads, NEW w \in Places, place'[u][w].kind \in {"reader", "wrapper"}
          PROVE  place'[u][w].on \in full' \cup loosened'
      <3>1. place[u][w].kind \in {"reader", "wrapper"} /\ place[u][w].on \in full \cup loosened
        BY <1>1, <1>3, <2>1 DEF FindingsStayTrue
      <3>2. CASE place[u][w].on # temp[t].on
        BY <1>3, <3>1, <3>2
      <3>3. CASE place[u][w].on = temp[t].on
        <4>1. At[<<u, w>>] = At[<<t>>] /\ <<u, w>> # <<t>> /\ At[<<t>>] = temp[t].on
          BY <1>1, <1>2, <1>5, <3>3, AtIs, SpotsAre DEF InHand
        <4>2. temp[t].on \in loosened
          BY <1>1, <1>6, <4>1, SpotsAre, GuardsAre, Alone DEF Owned
        <4> QED
          BY <1>3, <3>3, <4>2
      <3> QED
        BY <3>2, <3>3
    <2>2. \A u \in Threads : pc'[u] = "undo" => temp'[u].on \notin full' \ loosened'
      BY <1>1, <1>3, <1>5 DEF FindingsStayTrue
    <2> QED
      BY <2>1, <2>2 DEF FindingsStayTrue
  <1>10. Wraps'
    <2>1. Wrappers' = Wrappers
      BY <1>3, SameWrappers
    <2>2. Unwrapping' = Unwrapping
      BY <1>5, SameUnwrapping
    <2> QED
      BY <1>1, <1>3, <2>1, <2>2, WrapsSame
  <1> QED
    BY <1>7, <1>8, <1>9, <1>10 DEF IInv

(* unlock: the lock and its guard go together.                             *)
LEMMA UnlockResourceIInv ==
    ASSUME IInv, NEW t \in Threads, UnlockResource(t)
    PROVE  IInv'
  <1> DEFINE to == IF temp[t].kind = "wrapper" THEN "advance" ELSE "idle"
             g == IF temp[t].kind = "wrapper" THEN Guard("wrapper", Null) ELSE NoGuard
  <1>1. Types /\ Owned /\ FindingsStayTrue /\ Wraps
    BY DEF IInv
  <1>2. /\ locked' = locked \ {temp[t].on}
        /\ full' = full /\ place' = place /\ read_head' = read_head
        /\ wrapped' = wrapped /\ loosened' = loosened /\ leaked' = leaked
    BY DEF UnlockResource, Unlock, history
  <1>3. pc[t] = "unlock"
    BY DEF UnlockResource, Step
  <1>4. /\ temp[t] \in Guards /\ Fits(temp[t]) /\ temp[t] \notin {NoGuard, MovedFrom}
        /\ temp[t].on \in Locks /\ g \in Guards /\ to \in Points
        /\ g.on = Null /\ (g.kind = "wrapper" <=> temp[t].kind = "wrapper")
        /\ to \in {"advance", "idle"}
    BY <1>1, <1>3, FitsKinds, GuardsAre DEF Types, HandFits, Points, Kinds, Guards
  <1>5. Step(t, "unlock", to, g)
    <2>1. temp[t].kind = "wrapper" => [temp[t] EXCEPT !.on = Null] = Guard("wrapper", Null)
      BY <1>4 DEF Guards, Guard
    <2> QED
      BY <2>1 DEF UnlockResource
  <1>6. /\ pc' \in [Threads -> Points] /\ temp' \in [Threads -> Guards]
        /\ pc'[t] = to /\ temp'[t] = g
        /\ \A u \in Threads \ {t} : pc'[u] = pc[u] /\ temp'[u] = temp[u]
    <2> HIDE DEF to, g
    <2>1. Types /\ to \in Points /\ g \in Guards
      BY <1>1, <1>4
    <2> QED
      BY <1>5, <2>1, StepAt
  <1>7. Types'
    <2>1. HandFits(pc'[t], temp'[t], loosened')
      BY <1>6 DEF HandFits
    <2>2. \A u \in Threads \ {t} : HandFits(pc'[u], temp'[u], loosened')
      BY <1>1, <1>2, <1>6 DEF Types
    <2> HIDE DEF to, g
    <2> QED
      BY <1>1, <1>2, <1>6, <2>1, <2>2 DEF Types
  <1> HIDE DEF to, g
  <1>8. Owned'
    <2>1. At[<<t>>] = temp[t].on /\ <<t>> \in Spots
      BY <1>1, <1>3, AtIs, SpotsAre DEF InHand
    <2> DEFINE f == [At EXCEPT ![<<t>>] = Null]
    <2>2. At' = f
      <3>1. \A u \in Threads, w \in Places : f[<<u, w>>] = place'[u][w].on
        <4>1. TAKE u \in Threads, w \in Places
        <4>2. <<u, w>> \in Spots /\ \A z \in Threads : <<z>> # <<u, w>>
          BY SpotsAre
        <4>3. CASE TRUE
          BY <1>1, <1>2, <4>2, <4>3, AtIs
        <4> QED
          BY <4>3
      <3>2. \A u \in Threads : f[<<u>>] = InHand(u)'
        <4>1. TAKE u \in Threads
        <4>2. <<u>> \in Spots /\ \A z \in Threads, y \in Places : <<u>> # <<z, y>>
          BY SpotsAre
        <4>3. CASE u = t
          BY <1>1, <1>4, <1>6, <4>2, <4>3, AtIs DEF InHand
        <4>4. CASE u # t
          BY <1>1, <1>6, <4>2, <4>4, AtIs DEF InHand
        <4> QED
          BY <4>3, <4>4
      <3>3. f = [x \in Spots |-> f[x]]
        BY <1>1, AtIs
      <3> HIDE DEF f
      <3> QED
        BY <3>1, <3>2, <3>3, AtBecomes
    <2>3. Lone(f, locked \ {temp[t].on}, leaked, loosened)
      BY <1>1, <2>1, AtIs, LoneDrop DEF Owned
    <2>4. temp[t].on \notin leaked
      <3>1. CASE temp[t].on \in loosened
        BY <1>1, <3>1, GuardsAre DEF Types
      <3>2. CASE temp[t].on \notin loosened
        BY <1>1, <1>4, <2>1, <3>2, Alone DEF Owned
      <3> QED
        BY <3>1, <3>2
    <2> QED
      BY <1>1, <1>2, <2>2, <2>3, <2>4 DEF Owned
  <1>9. FindingsStayTrue'
    <2>1. \A u \in Threads : pc'[u] = "undo" => temp'[u].on \notin full \ loosened
      BY <1>1, <1>4, <1>6 DEF FindingsStayTrue
    <2> QED
      BY <1>1, <1>2, <2>1 DEF FindingsStayTrue
  <1>10. Wraps'
    <2>1. Wrappers' = Wrappers
      BY <1>2, SameWrappers
    <2>2. Unwrapping' = Unwrapping
      BY <1>4, <1>6, SameUnwrapping
    <2> QED
      BY <1>1, <1>2, <2>1, <2>2, WrapsSame
  <1> QED
    BY <1>7, <1>8, <1>9, <1>10 DEF IInv

(* ReaderDataGuard advances read_head for the wrapper it ends.             *)
LEMMA AdvanceReadHeadIInv ==
    ASSUME IInv, NEW t \in Threads, AdvanceReadHead(t)
    PROVE  IInv'
  <1>1. Types /\ Owned /\ FindingsStayTrue /\ Wraps
    BY DEF IInv
  <1>2. /\ Step(t, "advance", "idle", NoGuard)
        /\ read_head' = read_head + 1
        /\ locked' = locked /\ full' = full /\ place' = place
        /\ wrapped' = wrapped /\ loosened' = loosened /\ leaked' = leaked
    BY DEF AdvanceReadHead, history
  <1>3. NoGuard \in Guards /\ "idle" \in Points
    BY GuardsAre DEF Points
  <1>4. /\ pc' \in [Threads -> Points] /\ temp' \in [Threads -> Guards]
        /\ pc[t] = "advance" /\ pc'[t] = "idle" /\ temp'[t] = NoGuard
        /\ \A u \in Threads \ {t} : pc'[u] = pc[u] /\ temp'[u] = temp[u]
    <2>1. Step(t, "advance", "idle", NoGuard)
      BY <1>2
    <2> QED
      BY <1>1, <1>3, <2>1, StepAt
  <1>5. temp[t] = Guard("wrapper", Null) /\ temp[t].kind = "wrapper" /\ temp[t].on = Null
    BY <1>1, <1>4, GuardsAre DEF Types, HandFits, Kinds
  <1>6. Types'
    <2>1. \A u \in Threads : HandFits(pc'[u], temp'[u], loosened')
      BY <1>1, <1>2, <1>4 DEF Types, HandFits
    <2> QED
      BY <1>1, <1>2, <1>4, <2>1 DEF Types
  <1>7. Owned'
    <2> DEFINE f == At
    <2>1. At' = f
      <3>1. \A u \in Threads, w \in Places : f[<<u, w>>] = place'[u][w].on
        BY <1>1, <1>2, AtIs, SpotsAre
      <3>2. \A u \in Threads : f[<<u>>] = InHand(u)'
        <4>1. TAKE u \in Threads
        <4>2. <<u>> \in Spots /\ \A z \in Threads, y \in Places : <<u>> # <<z, y>>
          BY SpotsAre
        <4>3. CASE u = t
          BY <1>1, <1>4, <1>5, GuardsAre, <4>2, <4>3, AtIs DEF InHand
        <4>4. CASE u # t
          BY <1>1, <1>4, <4>2, <4>4, AtIs DEF InHand
        <4> QED
          BY <4>3, <4>4
      <3>3. f = [x \in Spots |-> f[x]]
        BY <1>1, AtIs
      <3> HIDE DEF f
      <3> QED
        BY <3>1, <3>2, <3>3, AtBecomes
    <2> QED
      BY <1>1, <1>2, <2>1 DEF Owned
  <1>8. FindingsStayTrue'
    <2>1. \A u \in Threads : pc'[u] = "undo" => temp'[u].on \notin full \ loosened
      BY <1>1, <1>4 DEF FindingsStayTrue
    <2> QED
      BY <1>1, <1>2, <2>1 DEF FindingsStayTrue
  <1>9. Wraps'
    <2>1. Wrappers' = Wrappers
      BY <1>2, SameWrappers
    <2>2. t \in Unwrapping /\ Unwrapping' = Unwrapping \ {t}
      BY <1>4, <1>5, GuardsAre DEF Unwrapping
    <2> QED
      BY <1>1, <1>2, <2>1, <2>2, WrapsDone
  <1> QED
    BY <1>6, <1>7, <1>8, <1>9 DEF IInv

(* A guard that goes from variable v to the empty variable w, itself or    *)
(* wrapped.                                                                *)
LEMMA HandedOn ==
    ASSUME IInv, NEW t \in Threads, NEW v \in Places, NEW w \in Places, v # w,
           place[t][w] = NoGuard, place'[t][w].on = place[t][v].on, place'[t][v] = MovedFrom,
           \A u \in Threads, z \in Places :
              u # t \/ (z # v /\ z # w) => place'[u][z] = place[u][z],
           pc' = pc, temp' = temp, locked' = locked, loosened' = loosened, leaked' = leaked
    PROVE  Owned'
  <1>1. Types /\ Owned
    BY DEF IInv
  <1>2. <<t, v>> # <<t, w>> /\ <<t, v>> \in Spots /\ <<t, w>> \in Spots
    BY SpotsAre
  <1>3. At[<<t, w>>] = Null /\ At[<<t, v>>] = place[t][v].on
    BY <1>1, AtIs, GuardsAre
  <1> DEFINE f == [At EXCEPT ![<<t, w>>] = At[<<t, v>>], ![<<t, v>>] = Null]
  <1>4. At' = f
    <2>1. \A u \in Threads, z \in Places : f[<<u, z>>] = place'[u][z].on
      <3>1. TAKE u \in Threads, z \in Places
      <3>2. <<u, z>> \in Spots /\ \A y \in Threads : <<y>> # <<u, z>>
        BY SpotsAre
      <3>3. CASE u = t /\ z = v
        BY <1>1, GuardsAre, <3>2, <3>3, AtIs
      <3>4. CASE u = t /\ z = w
        BY <1>1, <1>3, <3>2, <3>4, AtIs
      <3>5. CASE u # t \/ (z # v /\ z # w)
        BY <1>1, <3>2, <3>5, AtIs
      <3> QED
        BY <3>3, <3>4, <3>5
    <2>2. \A u \in Threads : f[<<u>>] = InHand(u)'
      BY <1>1, AtIs, SpotsAre DEF InHand
    <2>3. f = [x \in Spots |-> f[x]]
      BY <1>1, AtIs
    <2> HIDE DEF f
    <2> QED
      BY <2>1, <2>2, <2>3, AtBecomes
  <1>5. Lone(f, locked, leaked, loosened)
    BY <1>1, <1>2, <1>3, AtIs, LoneHand DEF Owned
  <1> QED
    BY <1>1, <1>4, <1>5 DEF Owned

(* The move constructors.                                                  *)
LEMMA MoveConstructIInv ==
    ASSUME IInv, NEW t \in Threads, NEW v \in Places, NEW w \in Places, MoveConstruct(t, v, w)
    PROVE  IInv'
  <1>1. Types /\ Owned /\ FindingsStayTrue /\ Wraps
    BY DEF IInv
  <1>2. /\ place[t][v].on # Null /\ place[t][w] = NoGuard
        /\ place' = [place EXCEPT ![t][w] = place[t][v], ![t][v] = MovedFrom]
        /\ locked' = locked /\ full' = full /\ pc' = pc /\ temp' = temp /\ read_head' = read_head
        /\ wrapped' = wrapped /\ loosened' = loosened /\ leaked' = leaked
    BY DEF MoveConstruct, history
  <1>3. v # w
    BY <1>2, GuardsAre
  <1>4. /\ place' \in [Threads -> [Places -> Guards]]
        /\ place'[t][w] = place[t][v] /\ place'[t][v] = MovedFrom
        /\ \A u \in Threads, z \in Places :
              u # t \/ (z # v /\ z # w) => place'[u][z] = place[u][z]
    BY <1>1, <1>2, <1>3, GuardsAre DEF Types
  <1>5. Types'
    <2>1. Fits(MovedFrom)
      BY DEF Fits
    <2>2. \A u \in Threads, z \in Places : Fits(place'[u][z])
      BY <1>1, <1>4, <2>1 DEF Types
    <2> QED
      BY <1>1, <1>2, <1>4, <2>2 DEF Types
  <1>6. Owned'
    BY <1>2, <1>3, <1>4, HandedOn
  <1>7. FindingsStayTrue'
    <2>1. \A u \in Threads, z \in Places :
             place'[u][z].kind \in {"reader", "wrapper"} => place'[u][z].on \in full \cup loosened
      BY <1>1, <1>4, GuardsAre DEF FindingsStayTrue
    <2> QED
      BY <1>1, <1>2, <2>1 DEF FindingsStayTrue
  <1>8. Wraps'
    <2>1. Unwrapping' = Unwrapping
      BY <1>2, SameUnwrapping
    <2>2. CASE place[t][v].kind = "wrapper"
      <3>1. PICK x, y : x = <<t, v>> /\ y = <<t, w>>
        OBVIOUS
      <3>2. x \in Wrappers /\ y \notin Wrappers
        BY <1>2, <2>2, <3>1, GuardsAre, WrappersAre
      <3>3. Wrappers' = (Wrappers \ {x}) \cup {y}
        <4>1. ASSUME NEW u \in Threads, NEW z \in Places
              PROVE  <<u, z>> \in Wrappers' <=> <<u, z>> \in (Wrappers \ {x}) \cup {y}
          <5>1. CASE u = t /\ z = v
            BY <1>3, <1>4, <3>1, <5>1, GuardsAre, WrappersAre
          <5>2. CASE u = t /\ z = w
            BY <1>4, <2>2, <3>1, <5>2, WrappersAre
          <5>3. CASE u # t \/ (z # v /\ z # w)
            BY <1>4, <3>1, <5>3, WrappersAre
          <5> QED
            BY <5>1, <5>2, <5>3
        <4>2. \E u \in Threads, z \in Places : y = <<u, z>>
          BY <3>1
        <4> QED
          BY <4>1, <4>2, WrappersAre
      <3> QED
        BY <1>1, <1>2, <2>1, <3>2, <3>3, WrapsMove
    <2>3. CASE place[t][v].kind # "wrapper"
      <3>1. Wrappers' = Wrappers
        BY <1>2, <1>4, <2>3, GuardsAre, SameWrappers
      <3> QED
        BY <1>1, <1>2, <2>1, <3>1, WrapsSame
    <2> QED
      BY <2>2, <2>3
  <1> QED
    BY <1>5, <1>6, <1>7, <1>8 DEF IInv

(* read_lock makes a wrapper of a reader.                                  *)
LEMMA WrapIInv ==
    ASSUME IInv, NEW t \in Threads, NEW v \in Places, NEW w \in Places, Wrap(t, v, w)
    PROVE  IInv'
  <1>1. Types /\ Owned /\ FindingsStayTrue /\ Wraps
    BY DEF IInv
  <1> DEFINE g == Guard("wrapper", place[t][v].on)
  <1>2. /\ place[t][v].kind = "reader" /\ place[t][w] = NoGuard
        /\ place' = [place EXCEPT ![t][w] = g, ![t][v] = MovedFrom]
        /\ wrapped' = wrapped + 1
        /\ locked' = locked /\ full' = full /\ pc' = pc /\ temp' = temp /\ read_head' = read_head
        /\ loosened' = loosened /\ leaked' = leaked
    BY DEF Wrap
  <1>3. v # w
    BY <1>2, GuardsAre
  <1>4. place[t][v].on \in Cells
    BY <1>1, <1>2, FitsKinds DEF Types
  <1>5. /\ g \in Guards /\ Fits(g) /\ g.kind = "wrapper" /\ g.on = place[t][v].on
    BY <1>4, GuardsAre DEF Kinds, Fits, Guard
  <1> HIDE DEF g
  <1>6. /\ place' \in [Threads -> [Places -> Guards]]
        /\ place'[t][w] = g /\ place'[t][v] = MovedFrom
        /\ \A u \in Threads, z \in Places :
              u # t \/ (z # v /\ z # w) => place'[u][z] = place[u][z]
    BY <1>1, <1>2, <1>3, <1>5, GuardsAre DEF Types
  <1>7. Types'
    <2>1. Fits(MovedFrom)
      BY DEF Fits
    <2>2. \A u \in Threads, z \in Places : Fits(place'[u][z])
      BY <1>1, <1>5, <1>6, <2>1 DEF Types
    <2> QED
      BY <1>1, <1>2, <1>6, <2>2 DEF Types
  <1>8. Owned'
    BY <1>2, <1>3, <1>5, <1>6, HandedOn
  <1>9. FindingsStayTrue'
    <2>1. \A u \in Threads, z \in Places :
             place'[u][z].kind \in {"reader", "wrapper"} => place'[u][z].on \in full \cup loosened
      BY <1>1, <1>2, <1>5, <1>6, GuardsAre DEF FindingsStayTrue
    <2> QED
      BY <1>1, <1>2, <2>1 DEF FindingsStayTrue
  <1>10. Wraps'
    <2>1. Unwrapping' = Unwrapping
      BY <1>2, SameUnwrapping
    <2>2. PICK y : y = <<t, w>>
      OBVIOUS
    <2>3. y \notin Wrappers
      BY <1>2, <2>2, GuardsAre, WrappersAre
    <2>4. Wrappers' = Wrappers \cup {y}
      <3>1. ASSUME NEW u \in Threads, NEW z \in Places
            PROVE  <<u, z>> \in Wrappers' <=> <<u, z>> \in Wrappers \cup {y}
        <4>1. CASE u = t /\ z = v
          BY <1>2, <1>3, <1>6, <2>2, <4>1, GuardsAre, WrappersAre
        <4>2. CASE u = t /\ z = w
          BY <1>5, <1>6, <2>2, <4>2, WrappersAre
        <4>3. CASE u # t \/ (z # v /\ z # w)
          BY <1>6, <2>2, <4>3, WrappersAre
        <4> QED
          BY <4>1, <4>2, <4>3
      <3>2. \E u \in Threads, z \in Places : y = <<u, z>>
        BY <2>2
      <3> QED
        BY <3>1, <3>2, WrappersAre
    <2> QED
      BY <1>1, <1>2, <2>1, <2>3, <2>4, WrapsMade
  <1> QED
    BY <1>7, <1>8, <1>9, <1>10 DEF IInv

(* Move assignment: what w has goes to the hand, what v has to w.          *)
LEMMA MoveAssignIInv ==
    ASSUME IInv, NEW t \in Threads, NEW v \in Places, NEW w \in Places, MoveAssign(t, v, w)
    PROVE  IInv'
  <1>1. Types /\ Owned /\ FindingsStayTrue /\ Wraps
    BY DEF IInv
  <1>2. /\ place[t][v].kind \in {"reader", "writer"} /\ place[t][w].kind = place[t][v].kind
        /\ place' = [place EXCEPT ![t][w] = place[t][v], ![t][v] = MovedFrom]
        /\ locked' = locked /\ full' = full /\ read_head' = read_head
        /\ wrapped' = wrapped /\ loosened' = loosened /\ leaked' = leaked
    BY DEF MoveAssign, history
  <1>3. PICK g, to : g = place[t][w] /\ to = UnlockBegins(g)
    OBVIOUS
  <1>4. /\ g \in Guards /\ Fits(g) /\ g.kind \in {"reader", "writer"} /\ g.on \in Cells
        /\ to \in Points /\ to = IF g.kind = "reader" THEN "clear" ELSE "unlock"
    <2>1. g \in Guards /\ Fits(g) /\ g.kind \in {"reader", "writer"}
      BY <1>1, <1>2, <1>3 DEF Types
    <2>2. g.on \in Cells
      BY <2>1, FitsKinds
    <2>3. to = IF g.kind = "reader" THEN "clear" ELSE "unlock"
      BY <1>3, <2>1 DEF UnlockBegins
    <2> QED
      BY <2>1, <2>2, <2>3 DEF Points
  <1>5. Step(t, "idle", to, g)
    BY <1>3 DEF MoveAssign
  <1>6. /\ pc' \in [Threads -> Points] /\ temp' \in [Threads -> Guards]
        /\ pc[t] = "idle" /\ pc'[t] = to /\ temp'[t] = g
        /\ \A u \in Threads \ {t} : pc'[u] = pc[u] /\ temp'[u] = temp[u]
    <2>1. g \in Guards /\ to \in Points
      BY <1>4
    <2> QED
      BY <1>1, <1>5, <2>1, StepAt
  <1>7. temp[t] = NoGuard
    BY <1>1, <1>6 DEF Types, HandFits
  <1>8. /\ place' \in [Threads -> [Places -> Guards]]
        /\ place'[t][v] = MovedFrom
        /\ v # w => place'[t][w] = place[t][v]
        /\ \A u \in Threads, z \in Places :
              u # t \/ (z # v /\ z # w) => place'[u][z] = place[u][z]
    BY <1>1, <1>2, GuardsAre DEF Types
  <1>9. Types'
    <2>1. HandFits(pc'[t], temp'[t], loosened')
      <3>1. CASE g.kind = "reader"
        <4>1. g \in [kind : {"reader"}, on : Cells]
          BY <1>4, <3>1, FitsKinds
        <4> QED
          BY <1>4, <1>6, <3>1, <4>1 DEF HandFits
      <3>2. CASE g.kind # "reader"
        <4>1. g \notin {NoGuard, MovedFrom}
          BY <1>4, GuardsAre
        <4> QED
          BY <1>4, <1>6, <3>2, <4>1 DEF HandFits
      <3> QED
        BY <3>1, <3>2
    <2>2. \A u \in Threads \ {t} : HandFits(pc'[u], temp'[u], loosened')
      BY <1>1, <1>2, <1>6 DEF Types
    <2>3. Fits(MovedFrom)
      BY DEF Fits
    <2>4. ASSUME NEW u \in Threads, NEW z \in Places PROVE Fits(place'[u][z])
      <3>1. CASE u = t /\ z = v
        BY <1>8, <2>3, <3>1
      <3>2. CASE u = t /\ z = w /\ v # w
        BY <1>1, <1>8, <3>2 DEF Types
      <3>3. CASE u # t \/ (z # v /\ z # w)
        BY <1>1, <1>8, <3>3 DEF Types
      <3> QED
        BY <3>1, <3>2, <3>3
    <2> QED
      BY <1>1, <1>2, <1>6, <1>8, <2>1, <2>2, <2>4 DEF Types
  <1>10. Owned'
    <2>1. At[<<t>>] = Null /\ At[<<t, w>>] = g.on
      BY <1>1, <1>3, <1>6, <1>7, AtIs, GuardsAre DEF InHand
    <2>2. /\ <<t>> # <<t, v>> /\ <<t>> # <<t, w>>
          /\ <<t>> \in Spots /\ <<t, v>> \in Spots /\ <<t, w>> \in Spots
      BY SpotsAre
    <2> DEFINE h == [At EXCEPT ![<<t>>] = At[<<t, w>>], ![<<t, w>>] = Null]
    <2>3. /\ h \in [Spots -> Locks \cup {Null}]
          /\ h[<<t>>] = g.on /\ h[<<t, w>>] = Null
          /\ \A x \in Spots : x # <<t>> /\ x # <<t, w>> => h[x] = At[x]
      BY <1>1, <2>1, <2>2, AtIs
    <2>4. Lone(h, locked, leaked, loosened)
      BY <1>1, <2>1, <2>2, AtIs, LoneHand DEF Owned
    <2> HIDE DEF h
    <2>5. \A u \in Threads : u # t => /\ InHand(u)' = InHand(u)
                                     /\ h[<<u>>] = InHand(u)
      BY <1>1, <1>6, <2>3, AtIs, SpotsAre DEF InHand
    <2>6. InHand(t)' = g.on
      BY <1>4, <1>6 DEF InHand
    <2>7. CASE v = w
      <3> DEFINE f == h
      <3>1. At' = f
        <4>1. \A u \in Threads, z \in Places : f[<<u, z>>] = place'[u][z].on
          <5>1. TAKE u \in Threads, z \in Places
          <5>2. <<u, z>> \in Spots /\ <<u, z>> # <<t>>
            BY SpotsAre
          <5>3. CASE u = t /\ z = v
            BY <1>8, <2>3, <2>7, <5>3, GuardsAre
          <5>4. CASE u # t \/ z # v
            BY <1>1, <1>8, <2>3, <2>7, <5>2, <5>4, AtIs
          <5> QED
            BY <5>3, <5>4
        <4>2. \A u \in Threads : f[<<u>>] = InHand(u)'
          BY <2>3, <2>5, <2>6
        <4>3. f = [x \in Spots |-> f[x]]
          BY <2>3
        <4> QED
          BY <4>1, <4>2, <4>3, AtBecomes
      <3> QED
        BY <1>1, <1>2, <2>4, <3>1 DEF Owned
    <2>8. CASE v # w
      <3>1. <<t, v>> # <<t, w>>
        BY <2>8
      <3>2. h[<<t, v>>] = place[t][v].on
        BY <1>1, <2>2, <2>3, <3>1, AtIs
      <3> DEFINE f == [h EXCEPT ![<<t, w>>] = h[<<t, v>>], ![<<t, v>>] = Null]
      <3>3. At' = f
        <4>1. \A u \in Threads, z \in Places : f[<<u, z>>] = place'[u][z].on
          <5>1. TAKE u \in Threads, z \in Places
          <5>2. <<u, z>> \in Spots /\ <<u, z>> # <<t>>
            BY SpotsAre
          <5>3. CASE u = t /\ z = v
            BY <1>8, <2>2, <2>3, <3>1, <5>3, GuardsAre
          <5>4. CASE u = t /\ z = w
            BY <1>8, <2>2, <2>3, <2>8, <3>1, <3>2, <5>4
          <5>5. CASE u # t \/ (z # v /\ z # w)
            BY <1>1, <1>8, <2>3, <5>2, <5>5, AtIs
          <5> QED
            BY <5>3, <5>4, <5>5
        <4>2. \A u \in Threads : f[<<u>>] = InHand(u)'
          BY <2>2, <2>3, <2>5, <2>6, SpotsAre
        <4>3. f = [x \in Spots |-> f[x]]
          BY <2>3
        <4> HIDE DEF f
        <4> QED
          BY <4>1, <4>2, <4>3, AtBecomes
      <3>4. Lone(f, locked, leaked, loosened)
        BY <2>2, <2>3, <2>4, <3>1, LoneHand
      <3> QED
        BY <1>1, <1>2, <3>3, <3>4 DEF Owned
    <2> QED
      BY <2>7, <2>8
  <1>11. FindingsStayTrue'
    <2>1. ASSUME NEW u \in Threads, NEW z \in Places, place'[u][z].kind \in {"reader", "wrapper"}
          PROVE  place'[u][z].on \in full \cup loosened
      <3>1. CASE u = t /\ z = v
        BY <1>8, <2>1, <3>1, GuardsAre
      <3>2. CASE u = t /\ z = w /\ v # w
        BY <1>1, <1>8, <2>1, <3>2 DEF FindingsStayTrue
      <3>3. CASE u # t \/ (z # v /\ z # w)
        BY <1>1, <1>8, <2>1, <3>3 DEF FindingsStayTrue
      <3> QED
        BY <3>1, <3>2, <3>3
    <2>2. \A u \in Threads : pc'[u] = "undo" => temp'[u].on \notin full \ loosened
      BY <1>1, <1>4, <1>6 DEF FindingsStayTrue
    <2> QED
      BY <1>2, <2>1, <2>2 DEF FindingsStayTrue
  <1>12. Wraps'
    <2>1. ASSUME NEW u \in Threads, NEW z \in Places
          PROVE  place'[u][z].kind = "wrapper" <=> place[u][z].kind = "wrapper"
      <3>1. CASE u = t /\ z = v
        BY <1>2, <1>8, <3>1, GuardsAre
      <3>2. CASE u = t /\ z = w /\ v # w
        BY <1>2, <1>8, <3>2
      <3>3. CASE u # t \/ (z # v /\ z # w)
        BY <1>8, <3>3
      <3> QED
        BY <3>1, <3>2, <3>3
    <2>2. Wrappers' = Wrappers
      BY <2>1, SameWrappers
    <2>3. Unwrapping' = Unwrapping
      BY <1>4, <1>6, <1>7, GuardsAre, SameUnwrapping
    <2> QED
      BY <1>1, <1>2, <2>2, <2>3, WrapsSame
  <1> QED
    BY <1>9, <1>10, <1>11, <1>12 DEF IInv

(* ... but of an entry guard, what w has is forgotten.                     *)
LEMMA MoveAssignEntryIInv ==
    ASSUME IInv, NEW t \in Threads, NEW v \in Places, NEW w \in Places, MoveAssignEntry(t, v, w)
    PROVE  IInv'
  <1>1. Types /\ Owned /\ FindingsStayTrue /\ Wraps
    BY DEF IInv
  <1>2. /\ v # w /\ place[t][v].kind = "entry" /\ place[t][w].kind = "entry"
        /\ place' = [place EXCEPT ![t][w] = place[t][v], ![t][v] = MovedFrom]
        /\ leaked' = leaked \cup {place[t][w].on}
        /\ locked' = locked /\ full' = full /\ pc' = pc /\ temp' = temp /\ read_head' = read_head
        /\ wrapped' = wrapped /\ loosened' = loosened
    BY DEF MoveAssignEntry
  <1>3. place[t][w].on \in Entries
    BY <1>1, <1>2, FitsKinds DEF Types
  <1>4. /\ place' \in [Threads -> [Places -> Guards]]
        /\ place'[t][w] = place[t][v] /\ place'[t][v] = MovedFrom
        /\ \A u \in Threads, z \in Places :
              u # t \/ (z # v /\ z # w) => place'[u][z] = place[u][z]
    BY <1>1, <1>2, GuardsAre DEF Types
  <1>5. Types'
    <2>1. Fits(MovedFrom)
      BY DEF Fits
    <2>2. \A u \in Threads, z \in Places : Fits(place'[u][z])
      BY <1>1, <1>4, <2>1 DEF Types
    <2> QED
      BY <1>1, <1>2, <1>3, <1>4, <2>2 DEF Types
  <1>6. Owned'
    <2>1. /\ <<t, v>> # <<t, w>> /\ <<t, v>> \in Spots /\ <<t, w>> \in Spots
          /\ At[<<t, w>>] = place[t][w].on /\ At[<<t, v>>] = place[t][v].on
      BY <1>1, <1>2, AtIs, SpotsAre
    <2> DEFINE h == [At EXCEPT ![<<t, w>>] = Null]
    <2>2. /\ h \in [Spots -> Locks \cup {Null}]
          /\ h[<<t, w>>] = Null /\ h[<<t, v>>] = place[t][v].on
          /\ \A x \in Spots : x # <<t, w>> => h[x] = At[x]
      BY <1>1, <2>1, AtIs
    <2>3. Lone(h, locked, leaked \cup {place[t][w].on}, loosened)
      BY <1>1, <2>1, AtIs, LoneLeak DEF Owned
    <2> HIDE DEF h
    <2> DEFINE f == [h EXCEPT ![<<t, w>>] = h[<<t, v>>], ![<<t, v>>] = Null]
    <2>4. At' = f
      <3>1. \A u \in Threads, z \in Places : f[<<u, z>>] = place'[u][z].on
        <4>1. TAKE u \in Threads, z \in Places
        <4>2. <<u, z>> \in Spots
          BY SpotsAre
        <4>3. CASE u = t /\ z = v
          BY <1>4, <2>1, <2>2, <4>3, GuardsAre
        <4>4. CASE u = t /\ z = w
          BY <1>4, <2>1, <2>2, <4>4
        <4>5. CASE u # t \/ (z # v /\ z # w)
          BY <1>1, <1>4, <2>2, <4>2, <4>5, AtIs
        <4> QED
          BY <4>3, <4>4, <4>5
      <3>2. \A u \in Threads : f[<<u>>] = InHand(u)'
        BY <1>1, <1>2, <2>2, AtIs, SpotsAre DEF InHand
      <3>3. f = [x \in Spots |-> f[x]]
        BY <2>2
      <3> HIDE DEF f
      <3> QED
        BY <3>1, <3>2, <3>3, AtBecomes
    <2>5. Lone(f, locked, leaked \cup {place[t][w].on}, loosened)
      BY <2>1, <2>2, <2>3, LoneHand
    <2>6. place[t][w].on \in locked
      BY <1>1, <1>3, <2>1, Alone, GuardsAre DEF Owned, Types
    <2> QED
      BY <1>1, <1>2, <2>4, <2>5, <2>6 DEF Owned
  <1>7. FindingsStayTrue'
    <2>1. \A u \in Threads, z \in Places :
             place'[u][z].kind \in {"reader", "wrapper"} => place'[u][z].on \in full \cup loosened
      BY <1>1, <1>4, GuardsAre DEF FindingsStayTrue
    <2> QED
      BY <1>1, <1>2, <2>1 DEF FindingsStayTrue
  <1>8. Wraps'
    <2>1. Wrappers' = Wrappers
      BY <1>2, <1>4, GuardsAre, SameWrappers
    <2>2. Unwrapping' = Unwrapping
      BY <1>2, SameUnwrapping
    <2> QED
      BY <1>1, <1>2, <2>1, <2>2, WrapsSame
  <1> QED
    BY <1>5, <1>6, <1>7, <1>8 DEF IInv

(* Storing in an aligned cell: no other thread has a guard that says the   *)
(* cell is empty.                                                          *)
LEMMA StoredFindings ==
    ASSUME IInv, NEW t \in Threads, NEW v \in Places, pc[t] = "idle",
           full' = full \cup {place[t][v].on}, loosened' = loosened,
           place[t][v].on \in Cells, place' = place, pc' = pc, temp' = temp
    PROVE  FindingsStayTrue'
  <1>1. Types /\ Owned /\ FindingsStayTrue /\ Wraps
    BY DEF IInv
  <1>2. \A u \in Threads, w \in Places :
           place'[u][w].kind \in {"reader", "wrapper"} => place'[u][w].on \in full' \cup loosened'
    BY <1>1 DEF FindingsStayTrue
  <1>3. ASSUME NEW u \in Threads, pc'[u] = "undo"
        PROVE  temp'[u].on \notin full' \ loosened'
    <2>1. temp[u].on \notin full \ loosened /\ pc[u] = "undo"
      BY <1>1, <1>3 DEF FindingsStayTrue
    <2>2. CASE temp[u].on # place[t][v].on
      BY <2>1, <2>2
    <2>3. CASE temp[u].on = place[t][v].on
      <3>1. At[<<u>>] = place[t][v].on /\ At[<<t, v>>] = place[t][v].on /\ <<u>> # <<t, v>>
        BY <1>1, <2>1, <2>3, AtIs, SpotsAre DEF InHand
      <3>2. place[t][v].on \in loosened
        BY <1>1, <3>1, SpotsAre, GuardsAre, Alone DEF Owned
      <3> QED
        BY <2>3, <3>2
    <2> QED
      BY <2>2, <2>3
  <1> QED
    BY <1>2, <1>3 DEF FindingsStayTrue

(* Storing an item in a cell that is aligned: the lock byte is let alone.  *)
LEMMA StoreAlignedIInv ==
    ASSUME IInv, NEW t \in Threads, NEW v \in Places, StoreAligned(t, v)
    PROVE  IInv'
  <1>1. Types /\ Owned /\ FindingsStayTrue /\ Wraps
    BY DEF IInv
  <1>2. /\ pc[t] = "idle" /\ place[t][v].on \in Cells
        /\ full' = full \cup {place[t][v].on}
        /\ locked' = locked /\ place' = place /\ pc' = pc /\ temp' = temp /\ read_head' = read_head
        /\ wrapped' = wrapped /\ loosened' = loosened /\ leaked' = leaked
    BY DEF StoreAligned, Holding, history, Cells
  <1>3. Types'
    BY <1>1, <1>2 DEF Types
  <1>4. Owned'
    <2> DEFINE f == At
    <2>1. At' = f
      <3>1. \A u \in Threads, w \in Places : f[<<u, w>>] = place'[u][w].on
        BY <1>1, <1>2, AtIs, SpotsAre
      <3>2. \A u \in Threads : f[<<u>>] = InHand(u)'
        BY <1>1, <1>2, AtIs, SpotsAre DEF InHand
      <3>3. f = [x \in Spots |-> f[x]]
        BY <1>1, <1>2, AtIs
      <3> HIDE DEF f
      <3> QED
        BY <3>1, <3>2, <3>3, AtBecomes
    <2> QED
      BY <1>1, <1>2, <2>1 DEF Owned
  <1>5. FindingsStayTrue'
    BY <1>2, StoredFindings
  <1>6. Wraps'
    BY <1>1, <1>2, SameWrappers, SameUnwrapping, WrapsSame
  <1> QED
    BY <1>3, <1>4, <1>5, <1>6 DEF IInv

(* Writing over the lock byte of a cell: it is loose from then on.         *)
LEMMA LoosenedFindings ==
    ASSUME IInv, NEW c \in Cells, full' = full \cup {c}, loosened' = loosened \cup {c}, place' = place,
           \A u \in Threads : pc'[u] = "undo" => pc[u] = "undo" /\ temp'[u] = temp[u]
    PROVE  FindingsStayTrue'
  <1>1. FindingsStayTrue
    BY DEF IInv
  <1>2. \A u \in Threads, w \in Places :
           place'[u][w].kind \in {"reader", "wrapper"} => place'[u][w].on \in full' \cup loosened'
    BY <1>1 DEF FindingsStayTrue
  <1>3. \A u \in Threads : pc'[u] = "undo" => temp'[u].on \notin full' \ loosened'
    BY <1>1 DEF FindingsStayTrue
  <1> QED
    BY <1>2, <1>3 DEF FindingsStayTrue

(* Storing an item in a packed cell: the copied lock byte ...              *)
LEMMA StorePackedIInv ==
    ASSUME IInv, NEW t \in Threads, NEW v \in Places, StorePacked(t, v)
    PROVE  IInv'
  <1>1. Types /\ Owned /\ FindingsStayTrue /\ Wraps
    BY DEF IInv
  <1>2. PICK g, c : g = place[t][v] /\ c = place[t][v].on
    OBVIOUS
  <1>3. /\ g.kind = "writer" /\ c \in Packed /\ c \in Cells /\ c \in Locks /\ g.on = c
        /\ full' = full \cup {c} /\ locked' = locked \ {c} /\ loosened' = loosened \cup {c}
        /\ place' = place /\ read_head' = read_head /\ wrapped' = wrapped /\ leaked' = leaked
    BY <1>2 DEF StorePacked, Holding, Cells, Locks
  <1>4. Step(t, "idle", "restore", g)
    BY <1>2 DEF StorePacked
  <1>5. g \in Guards /\ Fits(g) /\ g \in [kind : {"writer"}, on : Cells] /\ "restore" \in Points
    BY <1>1, <1>2, <1>3, FitsKinds DEF Types, Points
  <1>6. /\ pc' \in [Threads -> Points] /\ temp' \in [Threads -> Guards]
        /\ pc[t] = "idle" /\ pc'[t] = "restore" /\ temp'[t] = g
        /\ \A u \in Threads \ {t} : pc'[u] = pc[u] /\ temp'[u] = temp[u]
    <2>1. Step(t, "idle", "restore", g)
      BY <1>4
    <2> QED
      BY <1>1, <1>5, <2>1, StepAt
  <1>7. temp[t] = NoGuard
    BY <1>1, <1>6 DEF Types, HandFits
  <1>8. Types'
    <2>1. HandFits(pc'[t], temp'[t], loosened')
      BY <1>3, <1>5, <1>6 DEF HandFits
    <2>2. ASSUME NEW u \in Threads \ {t} PROVE HandFits(pc'[u], temp'[u], loosened')
      BY <1>1, <1>3, <1>6 DEF Types, HandFits
    <2> QED
      BY <1>1, <1>3, <1>6, <2>1, <2>2 DEF Types
  <1>9. Owned'
    <2> DEFINE f == At
    <2>1. At' = f
      <3>1. \A u \in Threads, w \in Places : f[<<u, w>>] = place'[u][w].on
        BY <1>1, <1>3, AtIs, SpotsAre
      <3>2. \A u \in Threads : f[<<u>>] = InHand(u)'
        <4>1. TAKE u \in Threads
        <4>2. <<u>> \in Spots /\ \A z \in Threads, y \in Places : <<u>> # <<z, y>>
          BY SpotsAre
        <4>3. CASE u = t
          BY <1>1, <1>6, <1>7, GuardsAre, <4>2, <4>3, AtIs DEF InHand
        <4>4. CASE u # t
          BY <1>1, <1>6, <4>2, <4>4, AtIs DEF InHand
        <4> QED
          BY <4>3, <4>4
      <3>3. f = [x \in Spots |-> f[x]]
        BY <1>1, AtIs
      <3> HIDE DEF f
      <3> QED
        BY <3>1, <3>2, <3>3, AtBecomes
    <2>2. Lone(At, locked \ {c}, leaked, loosened \cup {c})
      BY <1>1, LoneLoosen DEF Owned
    <2>3. c \notin leaked
      BY <1>1, <1>3, GuardsAre DEF Types
    <2> QED
      BY <1>1, <1>3, <2>1, <2>2, <2>3 DEF Owned
  <1>10. FindingsStayTrue'
    <2>1. \A u \in Threads : pc'[u] = "undo" => pc[u] = "undo" /\ temp'[u] = temp[u]
      BY <1>6
    <2> QED
      BY <1>3, <2>1, LoosenedFindings
  <1>11. Wraps'
    <2>1. Wrappers' = Wrappers
      BY <1>3, SameWrappers
    <2>2. Unwrapping' = Unwrapping
      BY <1>3, <1>6, <1>7, GuardsAre, SameUnwrapping
    <2> QED
      BY <1>1, <1>3, <2>1, <2>2, WrapsSame
  <1> QED
    BY <1>8, <1>9, <1>10, <1>11 DEF IInv

(* ... is put back.                                                        *)
LEMMA RestoreLockByteIInv ==
    ASSUME IInv, NEW t \in Threads, RestoreLockByte(t)
    PROVE  IInv'
  <1>1. Types /\ Owned /\ FindingsStayTrue /\ Wraps
    BY DEF IInv
  <1>2. /\ Step(t, "restore", "idle", NoGuard)
        /\ locked' = locked \cup {temp[t].on}
        /\ full' = full /\ place' = place /\ read_head' = read_head
        /\ wrapped' = wrapped /\ loosened' = loosened /\ leaked' = leaked
    BY DEF RestoreLockByte, history
  <1>3. NoGuard \in Guards /\ "idle" \in Points
    BY GuardsAre DEF Points
  <1>4. /\ pc' \in [Threads -> Points] /\ temp' \in [Threads -> Guards]
        /\ pc[t] = "restore" /\ pc'[t] = "idle" /\ temp'[t] = NoGuard
        /\ \A u \in Threads \ {t} : pc'[u] = pc[u] /\ temp'[u] = temp[u]
    <2>1. Step(t, "restore", "idle", NoGuard)
      BY <1>2
    <2> QED
      BY <1>1, <1>3, <2>1, StepAt
  <1>5. temp[t].kind = "writer" /\ temp[t].on \in loosened /\ temp[t].on \in Locks
    <2>1. temp[t] \in [kind : {"writer"}, on : loosened]
      BY <1>1, <1>4 DEF Types, HandFits
    <2> QED
      BY <1>1, <2>1, GuardsAre DEF Types
  <1>6. Types'
    <2>1. \A u \in Threads : HandFits(pc'[u], temp'[u], loosened')
      BY <1>1, <1>2, <1>4 DEF Types, HandFits
    <2> QED
      BY <1>1, <1>2, <1>4, <1>5, <2>1 DEF Types
  <1>7. Owned'
    <2> DEFINE f == At
    <2>1. At' = f
      <3>1. \A u \in Threads, w \in Places : f[<<u, w>>] = place'[u][w].on
        BY <1>1, <1>2, AtIs, SpotsAre
      <3>2. \A u \in Threads : f[<<u>>] = InHand(u)'
        <4>1. TAKE u \in Threads
        <4>2. <<u>> \in Spots /\ \A z \in Threads, y \in Places : <<u>> # <<z, y>>
          BY SpotsAre
        <4>3. CASE u = t
          BY <1>1, <1>4, GuardsAre, <4>2, <4>3, AtIs DEF InHand
        <4>4. CASE u # t
          BY <1>1, <1>4, <4>2, <4>4, AtIs DEF InHand
        <4> QED
          BY <4>3, <4>4
      <3>3. f = [x \in Spots |-> f[x]]
        BY <1>1, AtIs
      <3> HIDE DEF f
      <3> QED
        BY <3>1, <3>2, <3>3, AtBecomes
    <2>2. Lone(At, locked \cup {temp[t].on}, leaked, loosened)
      BY <1>1, <1>5, LoneLoosen DEF Owned
    <2> QED
      BY <1>1, <1>2, <2>1, <2>2 DEF Owned
  <1>8. FindingsStayTrue'
    <2>1. \A u \in Threads : pc'[u] = "undo" => temp'[u].on \notin full \ loosened
      BY <1>1, <1>4 DEF FindingsStayTrue
    <2> QED
      BY <1>1, <1>2, <2>1 DEF FindingsStayTrue
  <1>9. Wraps'
    <2>1. Wrappers' = Wrappers
      BY <1>2, SameWrappers
    <2>2. Unwrapping' = Unwrapping
      BY <1>4, <1>5, GuardsAre, SameUnwrapping
    <2> QED
      BY <1>1, <1>2, <2>1, <2>2, WrapsSame
  <1> QED
    BY <1>6, <1>7, <1>8, <1>9 DEF IInv

(* A defaulted move assignment writes over the lock byte for good.         *)
LEMMA StoreMovingIInv ==
    ASSUME IInv, NEW t \in Threads, NEW v \in Places, StoreMoving(t, v)
    PROVE  IInv'
  <1>1. Types /\ Owned /\ FindingsStayTrue /\ Wraps
    BY DEF IInv
  <1>2. PICK c : c = place[t][v].on
    OBVIOUS
  <1>3. /\ c \in Cells /\ c \in Locks
        /\ full' = full \cup {c} /\ locked' = locked \ {c} /\ loosened' = loosened \cup {c}
        /\ place' = place /\ pc' = pc /\ temp' = temp
        /\ read_head' = read_head /\ wrapped' = wrapped /\ leaked' = leaked
    BY <1>2 DEF StoreMoving, Holding, Locks
  <1>4. Types'
    <2>1. ASSUME NEW u \in Threads PROVE HandFits(pc'[u], temp'[u], loosened')
      BY <1>1, <1>3 DEF Types, HandFits
    <2> QED
      BY <1>1, <1>3, <2>1 DEF Types
  <1>5. Owned'
    <2> DEFINE f == At
    <2>1. At' = f
      <3>1. \A u \in Threads, w \in Places : f[<<u, w>>] = place'[u][w].on
        BY <1>1, <1>3, AtIs, SpotsAre
      <3>2. \A u \in Threads : f[<<u>>] = InHand(u)'
        BY <1>1, <1>3, AtIs, SpotsAre DEF InHand
      <3>3. f = [x \in Spots |-> f[x]]
        BY <1>1, <1>3, AtIs
      <3> HIDE DEF f
      <3> QED
        BY <3>1, <3>2, <3>3, AtBecomes
    <2>2. Lone(At, locked \ {c}, leaked, loosened \cup {c})
      BY <1>1, LoneLoosen DEF Owned
    <2>3. c \notin leaked
      BY <1>1, <1>3, GuardsAre DEF Types
    <2> QED
      BY <1>1, <1>3, <2>1, <2>2, <2>3 DEF Owned
  <1>6. FindingsStayTrue'
    BY <1>3, LoosenedFindings
  <1>7. Wraps'
    BY <1>1, <1>3, SameWrappers, SameUnwrapping, WrapsSame
  <1> QED
    BY <1>4, <1>5, <1>6, <1>7 DEF IInv

(* Every step preserves the inductive invariant.                           *)
LEMMA StepIInv == IInv /\ [Next]_vars => IInv'
  <1> SUFFICES ASSUME IInv, [Next]_vars PROVE IInv'
    OBVIOUS
  <1>1. ASSUME NEW t \in Threads,
               \/ \E c \in Cells, kind \in {"reader", "writer"} : LockCell(t, kind, c)
               \/ ReturnNothing(t) \/ ClearData(t) \/ UnlockResource(t) \/ AdvanceReadHead(t)
               \/ RestoreLockByte(t)
        PROVE  IInv'
    BY <1>1, LockCellIInv, ReturnNothingIInv, ClearDataIInv, UnlockResourceIInv,
       AdvanceReadHeadIInv, RestoreLockByteIInv
  <1>2. ASSUME NEW t \in Threads, NEW v \in Places,
               \/ ReturnGuard(t, v) \/ Destroy(t, v)
               \/ StoreAligned(t, v) \/ StorePacked(t, v) \/ StoreMoving(t, v)
               \/ \E e \in Entries : LockEntry(t, e, v)
        PROVE  IInv'
    BY <1>2, ReturnGuardIInv, DestroyIInv, StoreAlignedIInv, StorePackedIInv, StoreMovingIInv,
       LockEntryIInv
  <1>3. ASSUME NEW t \in Threads, NEW v \in Places, NEW w \in Places,
               \/ MoveConstruct(t, v, w) \/ Wrap(t, v, w)
               \/ MoveAssign(t, v, w) \/ MoveAssignEntry(t, v, w)
        PROVE  IInv'
    BY <1>3, MoveConstructIInv, WrapIInv, MoveAssignIInv, MoveAssignEntryIInv
  <1>4. CASE UNCHANGED vars
    <2>1. /\ locked' = locked /\ full' = full /\ place' = place /\ pc' = pc /\ temp' = temp
          /\ read_head' = read_head /\ wrapped' = wrapped /\ loosened' = loosened /\ leaked' = leaked
      BY <1>4 DEF vars
    <2>2. At' = At
      BY <2>1 DEF At, InHand
    <2>3. Types' /\ Owned' /\ FindingsStayTrue'
      BY <2>1, <2>2 DEF IInv, Types, Owned, FindingsStayTrue
    <2>4. Wraps'
      BY <2>1, SameWrappers, SameUnwrapping, WrapsSame DEF IInv
    <2> QED
      BY <2>3, <2>4 DEF IInv
  <1> QED
    BY <1>1, <1>2, <1>3, <1>4 DEF Next

-----------------------------------------------------------------------------
(* The theorems about the guards *)

(* The inductive invariant holds of every behaviour.                       *)
THEOREM Invariance == Spec => []IInv
  BY InitIInv, StepIInv, PTL DEF Spec

(* However guards are moved, wrapped, assigned and destroyed, a lock word  *)
(* is set exactly as long as one guard is there to give it back.           *)
THEOREM OneGuard == Spec => []OneGuardPerLock
  <1>1. IInv => OneGuardPerLock
    <2> SUFFICES ASSUME IInv, NEW r \in Locks \ loosened
                 PROVE  Cardinality(GuardsOf(r)) = IF r \in locked \ leaked THEN 1 ELSE 0
      BY DEF OneGuardPerLock
    <2>1. Types /\ Lone(At, locked, leaked, loosened)
      BY DEF IInv, Owned
    <2>2. \A x : x \in GuardsOf(r) <=> x \in Spots /\ At[x] = r
      <3>1. \A t \in Threads, v \in Places : <<t, v>> \in GuardsOf(r) <=> At[<<t, v>>] = r
        BY <2>1, AtIs, SpotsAre DEF GuardsOf
      <3>2. \A t \in Threads : <<t>> \in GuardsOf(r) <=> At[<<t>>] = r
        <4>1. TAKE t \in Threads
        <4>2. <<t>> \notin Threads \X Places /\ At[<<t>>] = InHand(t) /\ r # Null
          BY <2>1, AtIs, SpotsAre, GuardsAre DEF Vars
        <4>3. \A u : <<t>> = <<u>> => t = u
          OBVIOUS
        <4>4. <<t>> \in GuardsOf(r) <=> pc[t] # "restore" /\ temp[t].on = r
          BY <4>2, <4>3 DEF GuardsOf
        <4> QED
          BY <4>2, <4>4 DEF InHand
      <3>3. GuardsOf(r) \subseteq Spots
        BY DEF GuardsOf, Spots, Vars
      <3> QED
        BY <3>1, <3>2, <3>3, SpotsAre
    <2>3. CASE r \in locked \ leaked
      <3>1. PICK x : x \in GuardsOf(r)
        BY <2>1, <2>2, <2>3 DEF Lone
      <3>2. GuardsOf(r) = {x}
        BY <2>1, <2>2, <3>1 DEF Lone
      <3> QED
        BY <2>3, <3>2, FS_Singleton
    <2>4. CASE r \notin locked \ leaked
      <3>1. GuardsOf(r) = {}
        BY <2>1, <2>2, <2>4 DEF Lone
      <3> QED
        BY <2>4, <3>1, FS_EmptySet
    <2> QED
      BY <2>3, <2>4
  <1> QED
    BY <1>1, Invariance, PTL

(* What a lock attempt found in a cell is still so when it is acted on.    *)
THEOREM FindingsAreKept == Spec => []FindingsStayTrue
  <1>1. IInv => FindingsStayTrue
    BY DEF IInv
  <1> QED
    BY <1>1, Invariance, PTL

(* Every wrapped guard advances read_head once; every variable has its     *)
(* type.                                                                   *)
THEOREM AdvancesOnce == Spec => []AdvancedOnce
  <1>1. IInv => AdvancedOnce
    <2> SUFFICES ASSUME IInv PROVE AdvancedOnce
      OBVIOUS
    <2>1. PICK h, n, a, b : /\ h = read_head /\ n = wrapped
                            /\ a = Cardinality(Wrappers) /\ b = Cardinality(Unwrapping)
      OBVIOUS
    <2>2. h \in Nat /\ n \in Nat /\ h + a + b = n
      BY <2>1 DEF IInv, Types, Wraps
    <2>3. a \in Nat /\ b \in Nat
      BY <2>1, FS_CardinalityType DEF IInv, Wraps
    <2>4. h \in 0 .. n
      BY <2>2, <2>3
    <2>5. TypeOK
      BY <2>1, <2>4 DEF IInv, Types, TypeOK, Points, Guards
    <2> QED
      BY <2>1, <2>2, <2>5 DEF AdvancedOnce
  <1> QED
    BY <1>1, Invariance, PTL

-----------------------------------------------------------------------------
(* Theorems about CacheLine *)

(* What division does: it rounds down, and taking one      *)
(* divisor away takes one from the quotient.                               *)
LEMMA Division ==
    ASSUME NEW a \in Nat, NEW b \in Nat, b > 0
    PROVE  /\ a \div b \in Nat
           /\ b * (a \div b) <= a
           /\ a < b * ((a \div b) + 1)
           /\ a >= b => (a - b) \div b = (a \div b) - 1
PROOF BY SMT

(* Division is monotone.                                                   *)
LEMMA DivisionMonotone ==
    ASSUME NEW a \in Nat, NEW b \in Nat, b > 0, NEW c \in Nat, a <= c
    PROVE  a \div b <= c \div b
PROOF BY SMT

(* calculate_buffer_fit never expects the elements before they are, and at *)
(* most one alignment unit too late.                                       *)
LEMMA OffsetBounds ==
    ASSUME NEW size, NEW align, IsElement(size, align), NEW header, IsHeader(header)
    PROVE  /\ DataOffset(align, header) \in Nat /\ FirstElement(align, header) \in Nat
           /\ DataOffset(align, header) <= FirstElement(align, header)
           /\ FirstElement(align, header) <= DataOffset(align, header) + align
PROOF
<1>1. /\ align \in Nat /\ align > 0 /\ header \in Nat
      /\ header + align - 1 \in Nat /\ header <= header + align - 1
  BY DEF IsElement, IsHeader, cache_line_size
<1> DEFINE whole == header \div align
           up == (header + align - 1) \div align
<1>2. whole \in Nat /\ up \in Nat /\ whole <= up
  BY <1>1, Division, DivisionMonotone
<1>3. up <= whole + 1
  <2>1. header < align * (whole + 1)
    BY <1>1, Division
  <2>2. align * up <= header + align - 1
    BY <1>1, Division
  <2>3. align * up < align * (whole + 2)
    BY <1>1, <1>2, <2>1, <2>2
  <2> QED BY <1>1, <1>2, <2>3
<1>4. align * whole \in Nat /\ align * up \in Nat
  BY <1>1, <1>2
<1>5. align * whole <= align * up /\ align * up <= align * whole + align
  BY <1>1, <1>2, <1>3
<1> QED BY <1>1, <1>4, <1>5 DEF DataOffset, FirstElement

(* The number of elements is computed without wrapping around, the line    *)
(* has room for that many, and for at most one more.                       *)
THEOREM BufferFit ==
    ASSUME NEW size, NEW align, IsElement(size, align), NEW header, IsHeader(header)
    PROVE  LET fit == calculate_buffer_fit(size, align, header)
               offset == DataOffset(align, header)
           IN  /\ FirstElement(align, header) \in 0 .. cache_line_size
               /\ fit \in Nat
               /\ offset + size * fit <= cache_line_size
               /\ cache_line_size < offset + size * (fit + 2)
PROOF
<1> DEFINE first == FirstElement(align, header)
           offset == DataOffset(align, header)
           fit == calculate_buffer_fit(size, align, header)
<1>1. size \in Nat /\ size > 0 /\ size < 64 /\ align \in Nat /\ align > 0 /\ align <= size
  BY DEF IsElement, cache_line_size
<1>2. offset \in Nat /\ first \in Nat /\ offset <= first /\ first <= offset + align
  BY OffsetBounds
<1>3. first <= cache_line_size
  <2>1. header \in Nat /\ header <= 31
    BY DEF IsHeader
  <2>2. header \div align \in Nat /\ align * (header \div align) <= header
    BY <1>1, <2>1, Division
  <2>3. CASE align <= 32
    <3> HIDE DEF first
    <3>1. first <= align + header
      BY <1>1, <2>1, <2>2 DEF FirstElement, first
    <3> QED BY <1>1, <1>2, <2>1, <2>3, <3>1 DEF cache_line_size
  <2>4. CASE align > 32
    <3>1. size % align = 0 /\ size < 2 * align
      BY <1>1, <2>4 DEF IsElement
    <3>2. header \div align = 0
      BY <1>1, <2>1, <2>4
    <3> QED BY <1>1, <3>2 DEF FirstElement, cache_line_size
  <2> QED BY <1>1, <2>3, <2>4
<1> HIDE DEF first, offset
<1>4. 64 - first \in Nat /\ fit = (64 - first) \div size
  BY <1>2, <1>3 DEF first, calculate_buffer_fit, cache_line_size
<1> HIDE DEF fit
<1>5. fit \in Nat /\ size * fit <= 64 - first /\ 64 - first < size * (fit + 1)
  BY <1>1, <1>4, Division
<1>6. size * fit \in Nat /\ size * (fit + 1) = size * fit + size
      /\ size * (fit + 2) = size * fit + size + size
  BY <1>1, <1>5
<1>7. /\ offset + size * fit <= 64
      /\ 64 < offset + size * (fit + 2)
  BY <1>1, <1>2, <1>5, <1>6
<1> QED BY <1>2, <1>3, <1>5, <1>7 DEF first, offset, fit, cache_line_size

(* The one too few can be the only one: a type of 63 bytes and a header of *)
(* one byte fill the line, and calculate_buffer_fit answers 0.             *)
THEOREM OneTooFew ==
    /\ IsElement(63, 1) /\ IsHeader(1)
    /\ calculate_buffer_fit(63, 1, 1) = 0
    /\ DataOffset(1, 1) + 63 = cache_line_size
PROOF BY SMT DEF IsElement, IsHeader, calculate_buffer_fit, FirstElement, DataOffset, cache_line_size
=============================================================================
