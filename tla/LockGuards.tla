------------------------------ MODULE LockGuards ------------------------------
(***************************************************************************)
(* The lock guards (src/src/common/memory/guards.hpp) on the things they   *)
(* lock: cache-line cells (src/src/common/memory/cache_line.hpp) through   *)
(* the layout's try_read_lock and try_write_lock, and table entries.       *)
(* Threads keep guards in variables, move them from one to another, wrap,  *)
(* assign and destroy them in any order the classes allow.                 *)
(*                                                                         *)
(* Moving a guard is local to its thread; an access to a lock word or to   *)
(* a length is an action of its own.  To use a guard that was moved from,  *)
(* or to assign to one, dereferences a null pointer; callers do neither,   *)
(* and to move from one again adds nothing to its destruction.             *)
(* Assigning a wrapper does not compile: its functor holds a reference.    *)
(*                                                                         *)
(* Operators that Next does not use and whose name extends that of the     *)
(* operator after them are plausible bugs of it, kept to test the          *)
(* properties.                                                             *)
(***************************************************************************)
EXTENDS Integers, FiniteSets

CONSTANTS
    Threads,
    Places,      \* the guard variables of each thread
    Aligned,     \* cells of class CacheAlignedHeaderLine
    Packed,      \* cells of class CacheLineUint8LengthHeaderPacked
    Entries,     \* entries of class MemoryEntry
    MaxWraps,    \* bound: how many guards are wrapped
    Null         \* the data pointer of a guard that was moved from

ASSUME GuardKindsAssumption ==
    /\ Aligned \cap Packed = {} /\ (Aligned \cup Packed) \cap Entries = {}
    /\ Null \notin Aligned \cup Packed \cup Entries
ASSUME GuardBoundAssumption == MaxWraps \in Nat

Cells == Aligned \cup Packed
Locks == Cells \cup Entries

VARIABLES
    locked,      \* the cells and entries whose lock word is set
    full,        \* the cells whose length is not 0
    place,       \* place[t][v]: the guard in variable v of thread t
    pc,          \* "idle", or how far t is in locking, storing or unlocking
    temp,        \* temp[t]: the guard that t is making or destroying
    read_head,   \* what ReaderDataGuard advances
    wrapped,     \* history: how many guards of a cell were wrapped
    loosened,    \* history: cells whose lock byte an assignment wrote over
    leaked       \* history: entries whose only guard was assigned to

vars == <<locked, full, place, pc, temp, read_head, wrapped, loosened, leaked>>
history == <<wrapped, loosened, leaked>>

(* Readers and writers are InstSingleResourceLockGuard with the layout's   *)
(* two functors, wrappers are InstSingleResourceLockGuardWrapper around a  *)
(* reader, entry guards are TemplateLockedLockGuard                        *)
Kinds == {"reader", "writer", "wrapper", "entry"}
Guard(kind, on) == [kind |-> kind, on |-> on]
NoGuard == Guard("none", Null)
MovedFrom == Guard("moved", Null)

Init ==
    /\ locked = {} /\ full = {}
    /\ place = [t \in Threads |-> [v \in Places |-> NoGuard]]
    /\ pc = [t \in Threads |-> "idle"]
    /\ temp = [t \in Threads |-> NoGuard]
    /\ read_head = 0
    /\ wrapped = 0 /\ loosened = {} /\ leaked = {}

(* t goes from one point of its code to another, with g at hand *)
Step(t, from, to, g) ==
    /\ pc[t] = from
    /\ pc' = [pc EXCEPT ![t] = to]
    /\ temp' = [temp EXCEPT ![t] = g]

TryLock(c) == c \notin locked /\ locked' = locked \cup {c}
Unlock(c) == locked' = locked \ {c}

(* The variables, of threads or of the code they are in, whose guard will  *)
(* give back the lock of r; a store only borrows its guard                 *)
GuardsOf(r) ==
    {x \in Threads \X Places : place[x[1]][x[2]].on = r}
        \cup {<<t>> : t \in {u \in Threads : pc[u] # "restore" /\ temp[u].on = r}}

(* The first step of the functor that gives a guard's lock back *)
UnlockBegins(g) == IF g.kind \in {"reader", "wrapper"} THEN "clear" ELSE "unlock"

-----------------------------------------------------------------------------
(* Taking a lock; a failed attempt is a stuttering step of the spin *)

(* try_read_lock, try_write_lock: the lock word, and a guard of it; the    *)
(* caller has a variable for what is returned.                             *)
(* Bound: a cell whose lock byte was written over is taken by one thread   *)
(* besides the one that wrote, and by nobody later.                        *)
LockCell(t, kind, c) ==
    /\ \E v \in Places : place[t][v] = NoGuard
    /\ c \in loosened => Cardinality(GuardsOf(c)) = 1
    /\ Step(t, "idle", "check", Guard(kind, c))
    /\ TryLock(c)
    /\ UNCHANGED <<full, place, read_head, history>>

(* contains_data is as wanted: the guard is moved to the caller *)
ReturnGuard(t, v) ==
    /\ Step(t, "check", "idle", NoGuard)
    /\ (temp[t].on \in full) = (temp[t].kind = "reader")
    /\ place[t][v] = NoGuard
    /\ place' = [place EXCEPT ![t][v] = temp[t]]
    /\ UNCHANGED <<locked, full, read_head, history>>

(* ... or it is not: the guard is destroyed, which makes a reader clear    *)
(* the cell it found empty                                                 *)
ReturnNothing(t) ==
    /\ Step(t, "check", IF temp[t].kind = "reader" THEN "undo" ELSE "unlock", temp[t])
    /\ (temp[t].on \in full) # (temp[t].kind = "reader")
    /\ UNCHANGED <<locked, full, place, read_head, history>>

(* TemplateLockedLockGuard(not_locked &) *)
LockEntry(t, e, v) ==
    /\ pc[t] = "idle" /\ place[t][v] = NoGuard
    /\ TryLock(e)
    /\ place' = [place EXCEPT ![t][v] = Guard("entry", e)]
    /\ UNCHANGED <<full, pc, temp, read_head, history>>

-----------------------------------------------------------------------------
(* Giving it back *)

(* A destructor: nothing to do for a guard that was moved from *)
Destroy(t, v) ==
    /\ pc[t] = "idle" /\ place[t][v] # NoGuard
    /\ LET g == place[t][v] IN
       IF g.on = Null THEN UNCHANGED <<pc, temp>>
       ELSE Step(t, "idle", UnlockBegins(g), g)
    /\ place' = [place EXCEPT ![t][v] = NoGuard]
    /\ UNCHANGED <<locked, full, read_head, history>>

(* ReaderUnlockStruct: clear_data, then unlock *)
ClearDataAfterUnlock(t) ==
    /\ \/ /\ \E from \in {"clear", "undo"} : Step(t, from, "late", temp[t])
          /\ Unlock(temp[t].on)
          /\ UNCHANGED full
       \/ /\ IF temp[t].kind = "wrapper" THEN Step(t, "late", "advance", [temp[t] EXCEPT !.on = Null])
             ELSE Step(t, "late", "idle", NoGuard)
          /\ full' = full \ {temp[t].on}
          /\ UNCHANGED locked
    /\ UNCHANGED <<place, read_head, history>>
ClearData(t) ==
    /\ \E from \in {"clear", "undo"} : Step(t, from, "unlock", temp[t])
    /\ full' = full \ {temp[t].on}
    /\ UNCHANGED <<locked, place, read_head, history>>

(* WriterUnlockStruct, MemoryEntry::unlock, and a reader's second step;    *)
(* ReaderDataGuard, which called the functor it wraps, goes on             *)
UnlockResourceOnly(t) ==
    /\ Step(t, "unlock", "idle", NoGuard)
    /\ Unlock(temp[t].on)
    /\ UNCHANGED <<full, place, read_head, history>>
UnlockResource(t) ==
    /\ IF temp[t].kind = "wrapper" THEN Step(t, "unlock", "advance", [temp[t] EXCEPT !.on = Null])
       ELSE Step(t, "unlock", "idle", NoGuard)
    /\ Unlock(temp[t].on)
    /\ UNCHANGED <<full, place, read_head, history>>

(* ReaderDataGuard: read_head.fetch_add(1) *)
AdvanceReadHead(t) ==
    /\ Step(t, "advance", "idle", NoGuard)
    /\ read_head' = read_head + 1
    /\ UNCHANGED <<locked, full, place, history>>

-----------------------------------------------------------------------------
(* Handing guards on *)

(* The move constructors: variable w is made from variable v *)
MoveConstruct(t, v, w) ==
    /\ pc[t] = "idle" /\ place[t][v].on # Null /\ place[t][w] = NoGuard
    /\ place' = [place EXCEPT ![t][w] = place[t][v], ![t][v] = MovedFrom]
    /\ UNCHANGED <<locked, full, pc, temp, read_head, history>>

(* read_lock: a wrapper takes a reader over and adds its own functor *)
WrapKeepingSource(t, v, w) ==
    /\ pc[t] = "idle" /\ place[t][v].kind = "reader" /\ place[t][w] = NoGuard
    /\ wrapped < MaxWraps
    /\ place' = [place EXCEPT ![t][w] = Guard("wrapper", place[t][v].on)]
    /\ wrapped' = wrapped + 1
    /\ UNCHANGED <<locked, full, pc, temp, read_head, loosened, leaked>>
Wrap(t, v, w) ==
    /\ pc[t] = "idle" /\ place[t][v].kind = "reader" /\ place[t][w] = NoGuard
    /\ wrapped < MaxWraps
    /\ place' = [place EXCEPT ![t][w] = Guard("wrapper", place[t][v].on), ![t][v] = MovedFrom]
    /\ wrapped' = wrapped + 1
    /\ UNCHANGED <<locked, full, pc, temp, read_head, loosened, leaked>>

(* Move assignment: w gives its own lock back and takes what v has.  When  *)
(* v and w are the same variable nothing is left in it.                    *)
MoveAssign(t, v, w) ==
    /\ place[t][v].kind \in {"reader", "writer"} /\ place[t][w].kind = place[t][v].kind
    /\ Step(t, "idle", UnlockBegins(place[t][w]), place[t][w])
    /\ place' = [place EXCEPT ![t][w] = place[t][v], ![t][v] = MovedFrom]
    /\ UNCHANGED <<locked, full, read_head, history>>

(* ... but TemplateLockedLockGuard forgets what w has *)
MoveAssignEntry(t, v, w) ==
    /\ pc[t] = "idle" /\ v # w
    /\ place[t][v].kind = "entry" /\ place[t][w].kind = "entry"
    /\ place' = [place EXCEPT ![t][w] = place[t][v], ![t][v] = MovedFrom]
    /\ leaked' = leaked \cup {place[t][w].on}
    /\ UNCHANGED <<locked, full, pc, temp, read_head, wrapped, loosened>>

-----------------------------------------------------------------------------
(* Storing an item, whose own lock byte is clear, through a writer *)

Holding(t, v, cells) == pc[t] = "idle" /\ place[t][v].kind = "writer" /\ place[t][v].on \in cells

(* CacheAlignedHeaderLine: the data and the length *)
StoreAligned(t, v) ==
    /\ Holding(t, v, Aligned)
    /\ full' = full \cup {place[t][v].on}
    /\ UNCHANGED <<locked, place, pc, temp, read_head, history>>

(* CacheLineUint8LengthHeaderPacked: save the lock byte, copy the whole    *)
(* line of the item ...                                                    *)
StorePacked(t, v) ==
    /\ Holding(t, v, Packed)
    /\ Step(t, "idle", "restore", place[t][v])
    /\ full' = full \cup {place[t][v].on}
    /\ locked' = locked \ {place[t][v].on}
    /\ loosened' = loosened \cup {place[t][v].on}
    /\ UNCHANGED <<place, read_head, wrapped, leaked>>

(* ... and put the lock byte back *)
RestoreLockByte(t) ==
    /\ Step(t, "restore", "idle", NoGuard)
    /\ locked' = locked \cup {temp[t].on}
    /\ UNCHANGED <<full, place, read_head, history>>

(* The defaulted move assignments of both classes copy the lock byte too *)
StoreMoving(t, v) ==
    /\ Holding(t, v, Cells)
    /\ full' = full \cup {place[t][v].on}
    /\ locked' = locked \ {place[t][v].on}
    /\ loosened' = loosened \cup {place[t][v].on}
    /\ UNCHANGED <<place, pc, temp, read_head, wrapped, leaked>>

-----------------------------------------------------------------------------
Next ==
    \E t \in Threads :
        \/ \E c \in Cells, kind \in {"reader", "writer"} : LockCell(t, kind, c)
        \/ ReturnNothing(t) \/ ClearData(t) \/ UnlockResource(t) \/ AdvanceReadHead(t)
        \/ RestoreLockByte(t)
        \/ \E v \in Places :
            \/ ReturnGuard(t, v) \/ Destroy(t, v)
            \/ StoreAligned(t, v) \/ StorePacked(t, v) \/ StoreMoving(t, v)
            \/ \E e \in Entries : LockEntry(t, e, v)
            \/ \E w \in Places :
                \/ MoveConstruct(t, v, w) \/ Wrap(t, v, w)
                \/ MoveAssign(t, v, w) \/ MoveAssignEntry(t, v, w)

Spec == Init /\ [][Next]_vars

-----------------------------------------------------------------------------
(* Type invariant, a part of AdvancedOnce.                                 *)
TypeOK ==
    LET guards == [kind : Kinds \cup {"none", "moved"}, on : Locks \cup {Null}] IN
    /\ locked \in SUBSET Locks /\ full \in SUBSET Cells
    /\ place \in [Threads -> [Places -> guards]]
    /\ pc \in [Threads -> {"idle", "check", "clear", "undo", "unlock", "advance", "restore"}]
    /\ temp \in [Threads -> guards]
    /\ wrapped \in Nat /\ read_head \in 0 .. wrapped
    /\ loosened \in SUBSET Cells /\ leaked \in SUBSET Entries

(* A lock word is set exactly as long as one guard, and only one, is there *)
(* to give it back, however guards are moved, wrapped, assigned and        *)
(* destroyed: nobody unlocks what another holds, and nothing stays locked. *)
(* The exceptions are a cell whose lock byte was overwritten by storing a  *)
(* packed item or moving one in, and an entry whose guard was assigned to. *)
OneGuardPerLock ==
    \A r \in Locks \ loosened :
        Cardinality(GuardsOf(r)) = IF r \in locked \ leaked THEN 1 ELSE 0

(* What a lock attempt found in a cell is still so when it is acted on:    *)
(* the item a reader was given is there until its guard clears the cell,   *)
(* and a cell that is cleared because it was found empty is still empty,   *)
(* so that no item stored by another thread is thrown away.                *)
FindingsStayTrue ==
    \A t \in Threads :
        /\ \A v \in Places : LET g == place[t][v] IN
            g.kind \in {"reader", "wrapper"} => g.on \in full \cup loosened
        /\ pc[t] = "undo" => temp[t].on \notin full \ loosened

(* The wrappers in variables, and those that are being destroyed *)
Wrappers == {x \in Threads \X Places : place[x[1]][x[2]].kind = "wrapper"}
Unwrapping == {t \in Threads : temp[t].kind = "wrapper"}

(* Every wrapped guard advances read_head once, when its cell is unlocked, *)
(* through whatever variables it goes before.  Includes the type invariant. *)
AdvancedOnce ==
    /\ TypeOK
    /\ read_head + Cardinality(Wrappers) + Cardinality(Unwrapping) = wrapped
===============================================================================
