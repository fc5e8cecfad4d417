-------------------------- MODULE OneTimeAllocator --------------------------
(***************************************************************************)
(* OneTimeStaticSharedMemoryAllocator                                      *)
(* (src/src/allocators/one_time_static_allocator.hpp): handles on an       *)
(* anonymous shared mapping (a chunk) that carries its own reference       *)
(* count.  The handles live in processes that fork: a child starts with a  *)
(* copy of its parent's mappings and of its parent's handles, made by no   *)
(* constructor and so not counted, and told apart by their owner_pid.      *)
(* The ring layouts hold one handle each and pass every copy, move and     *)
(* destruction on to it                                                    *)
(* (src/src/buffer/layouts/lockless_ring_buffer_layout.hpp:67-106).        *)
(* Each operation is one action: it touches shared memory once, at the     *)
(* count.  Copy assignment touches two counts; the first update decides    *)
(* all it does to its own mappings and the second only adds, so nothing    *)
(* its process sees depends on what others do in between.                  *)
(***************************************************************************)
EXTENDS Naturals, FiniteSets

CONSTANTS
    Processes,  \* all processes there may ever be
    First,      \* the process that runs first; the others are forked
    Handles,    \* the places in a process where a handle can be
    Chunks,     \* the mappings mmap can return
    NoChunk,    \* a null chunk pointer
    Nobody      \* owner_pid 0

ASSUME FirstAssumption == First \in Processes
ASSUME NullAssumption == NoChunk \notin Chunks /\ Nobody \notin Processes

VARIABLES
    alive,      \* the running processes
    objects,    \* objects[q]: the places of q that hold a constructed handle
    chunk,      \* chunk[q][h]: the member chunk (`allocated' holds iff it is set)
    owner,      \* owner[q][h]: the member owner_pid
    mapped,     \* mapped[q]: the chunks in the address space of q
    arc,        \* arc[c]: the count inside chunk c
    used        \* the chunks mmap has returned

handles == <<objects, chunk, owner>>
vars == <<alive, handles, mapped, arc, used>>

Init ==
    /\ alive = {First}
    /\ objects = [q \in Processes |-> {}]
    /\ chunk = [q \in Processes |-> [h \in Handles |-> NoChunk]]
    /\ owner = [q \in Processes |-> [h \in Handles |-> Nobody]]
    /\ mapped = [q \in Processes |-> {}]
    /\ arc = [c \in Chunks |-> 0]
    /\ used = {}

Has(q, h) == q \in alive /\ h \in objects[q]
Free(q, h) == q \in alive /\ h \in Handles \ objects[q]
Owns(q, h) == Has(q, h) /\ chunk[q][h] # NoChunk /\ owner[q][h] = q

(* The count of chunk c can be touched: otherwise the process is killed *)
Reaches(map, q, c) == c = NoChunk \/ c \in map[q]

(* The effect of deallocate() on handle h of q, as the pair of the counts  *)
(* and the mappings it leaves                                              *)
DroppedArcOfAny(q, h) ==
    IF chunk[q][h] # NoChunk THEN [arc EXCEPT ![chunk[q][h]] = @ - 1] ELSE arc
DroppedArc(q, h) ==
    IF Owns(q, h) THEN [arc EXCEPT ![chunk[q][h]] = @ - 1] ELSE arc

DroppedMapEarly(q, h) ==
    IF Owns(q, h) /\ arc[chunk[q][h]] - 1 <= 1
    THEN [mapped EXCEPT ![q] = @ \ {chunk[q][h]}] ELSE mapped
DroppedMap(q, h) ==
    IF Owns(q, h) /\ arc[chunk[q][h]] - 1 <= 0
    THEN [mapped EXCEPT ![q] = @ \ {chunk[q][h]}] ELSE mapped

Set(q, h, c, pid) ==
    /\ chunk' = [chunk EXCEPT ![q][h] = c]
    /\ owner' = [owner EXCEPT ![q][h] = pid]

-----------------------------------------------------------------------------
(* Default constructor *)
Construct(q, h) ==
    /\ Free(q, h)
    /\ objects' = [objects EXCEPT ![q] = @ \cup {h}]
    /\ Set(q, h, NoChunk, Nobody)
    /\ UNCHANGED <<alive, mapped, arc, used>>

(* allocate: when the handle already has a chunk, or mmap fails, nullptr   *)
(* is returned and nothing changes                                         *)
Allocate(q, h, c) ==
    /\ Has(q, h) /\ chunk[q][h] = NoChunk
    /\ c \notin used
    /\ Set(q, h, c, q)
    /\ mapped' = [mapped EXCEPT ![q] = @ \cup {c}]
    /\ arc' = [arc EXCEPT ![c] = 1]
    /\ used' = used \cup {c}
    /\ UNCHANGED <<alive, objects>>

(* deallocate *)
Deallocate(q, h) ==
    /\ Has(q, h) /\ chunk[q][h] # NoChunk
    /\ arc' = DroppedArc(q, h)
    /\ mapped' = DroppedMap(q, h)
    /\ Set(q, h, NoChunk, owner[q][h])
    /\ UNCHANGED <<alive, objects, used>>

(* Destructor *)
Destroy(q, h) ==
    /\ Has(q, h)
    /\ arc' = DroppedArc(q, h)
    /\ mapped' = DroppedMap(q, h)
    /\ Set(q, h, NoChunk, Nobody)
    /\ objects' = [objects EXCEPT ![q] = @ \ {h}]
    /\ UNCHANGED <<alive, used>>

(* Copy constructor: h is made from g.  (From a dangling g it kills the    *)
(* process, which Exit covers.)                                            *)
CopyConstructUncounted(q, h, g) ==
    /\ Free(q, h) /\ Has(q, g) /\ Reaches(mapped, q, chunk[q][g])
    /\ Set(q, h, chunk[q][g], IF chunk[q][g] = NoChunk THEN Nobody ELSE q)
    /\ objects' = [objects EXCEPT ![q] = @ \cup {h}]
    /\ UNCHANGED <<alive, mapped, arc, used>>
CopyConstruct(q, h, g) ==
    /\ Free(q, h) /\ Has(q, g) /\ Reaches(mapped, q, chunk[q][g])
    /\ Set(q, h, chunk[q][g], IF chunk[q][g] = NoChunk THEN Nobody ELSE q)
    /\ arc' = IF chunk[q][g] = NoChunk THEN arc ELSE [arc EXCEPT ![chunk[q][g]] = @ + 1]
    /\ objects' = [objects EXCEPT ![q] = @ \cup {h}]
    /\ UNCHANGED <<alive, mapped, used>>

(* Copy assignment h = g: h drops its chunk first, so that assigning a     *)
(* handle to itself empties it                                             *)
CopyAssign(q, h, g) ==
    /\ Has(q, h) /\ Has(q, g)
    /\ LET c == IF g = h THEN NoChunk ELSE chunk[q][g]
           dropped == DroppedArc(q, h)
       IN  /\ Reaches(DroppedMap(q, h), q, c)
           /\ arc' = IF c = NoChunk THEN dropped ELSE [dropped EXCEPT ![c] = @ + 1]
           /\ Set(q, h, c, IF c = NoChunk THEN owner[q][h] ELSE q)
    /\ mapped' = DroppedMap(q, h)
    /\ UNCHANGED <<alive, objects, used>>

(* ... and when that unmaps the very chunk g points to, adding to its      *)
(* count kills the process                                                 *)
CopyAssignFaults(q, h, g) ==
    /\ Has(q, h) /\ Has(q, g) /\ g # h
    /\ ~Reaches(DroppedMap(q, h), q, chunk[q][g])
    /\ arc' = DroppedArc(q, h)
    /\ alive' = alive \ {q}
    /\ mapped' = [mapped EXCEPT ![q] = {}]
    /\ objects' = [objects EXCEPT ![q] = @ \ {h}]
    /\ UNCHANGED <<chunk, owner, used>>

(* Move constructor: h takes over from g, count and owner untouched *)
MoveConstruct(q, h, g) ==
    /\ Free(q, h) /\ Has(q, g)
    /\ chunk' = [chunk EXCEPT ![q][h] = chunk[q][g], ![q][g] = NoChunk]
    /\ owner' = [owner EXCEPT ![q][h] = owner[q][g], ![q][g] = Nobody]
    /\ objects' = [objects EXCEPT ![q] = @ \cup {h}]
    /\ UNCHANGED <<alive, mapped, arc, used>>

(* Move assignment h = std::move(g); a move to itself empties the handle *)
MoveAssign(q, h, g) ==
    /\ Has(q, h) /\ Has(q, g)
    /\ arc' = DroppedArc(q, h)
    /\ mapped' = DroppedMap(q, h)
    /\ IF g = h THEN Set(q, h, NoChunk, Nobody)
       ELSE /\ chunk' = [chunk EXCEPT ![q][h] = chunk[q][g], ![q][g] = NoChunk]
            /\ owner' = [owner EXCEPT ![q][h] = owner[q][g], ![q][g] = Nobody]
    /\ UNCHANGED <<alive, objects, used>>

-----------------------------------------------------------------------------
(* fork(): the child gets the mappings and the bytes of the handles.  Its  *)
(* pid may be that of a process that ended, but not one that a handle on a *)
(* chunk still names: the child would take what it inherits for its own.   *)
Fork(q, r) ==
    /\ q \in alive /\ r \in Processes \ alive /\ objects[r] = {}
    /\ \A p \in alive, h \in Handles : h \in objects[p] /\ chunk[p][h] # NoChunk => owner[p][h] # r
    /\ alive' = alive \cup {r}
    /\ objects' = [objects EXCEPT ![r] = objects[q]]
    /\ chunk' = [chunk EXCEPT ![r] = chunk[q]]
    /\ owner' = [owner EXCEPT ![r] = owner[q]]
    /\ mapped' = [mapped EXCEPT ![r] = mapped[q]]
    /\ UNCHANGED <<arc, used>>

(* A process ends without running destructors (exit() in the tests'        *)
(* children, or a signal): the kernel drops its mappings, nobody its counts*)
Exit(q) ==
    /\ q \in alive
    /\ alive' = alive \ {q}
    /\ mapped' = [mapped EXCEPT ![q] = {}]
    /\ UNCHANGED <<handles, arc, used>>

Next ==
    \E q \in Processes :
        \/ \E h \in Handles :
            \/ Construct(q, h) \/ Deallocate(q, h) \/ Destroy(q, h)
            \/ \E c \in Chunks : Allocate(q, h, c)
            \/ \E g \in Handles :
                \/ CopyConstruct(q, h, g) \/ CopyAssign(q, h, g) \/ CopyAssignFaults(q, h, g)
                \/ MoveConstruct(q, h, g) \/ MoveAssign(q, h, g)
        \/ \E r \in Processes : Fork(q, r)
        \/ Exit(q)

Spec == Init /\ [][Next]_vars

-----------------------------------------------------------------------------
(* Type invariant: in particular no count is ever taken below zero.        *)
TypeOK ==
    /\ alive \in SUBSET Processes
    /\ objects \in [Processes -> SUBSET Handles]
    /\ chunk \in [Processes -> [Handles -> Chunks \cup {NoChunk}]]
    /\ owner \in [Processes -> [Handles -> Processes \cup {Nobody}]]
    /\ mapped \in [Processes -> SUBSET Chunks]
    /\ arc \in [Chunks -> Nat]
    /\ used \in SUBSET Chunks

(* The handles on chunk c that a process made itself, the ones a dead      *)
(* process took with it included: they were never counted down             *)
Owners(c) == {x \in Processes \X Handles :
                 LET q == x[1]
                     h == x[2]
                 IN  h \in objects[q] /\ chunk[q][h] = c /\ owner[q][h] = q}

(* The count in a chunk is the number of handles made by the process that  *)
(* holds them, over all processes, whatever was copied, moved, assigned,   *)
(* forked or killed: inherited handles count for nothing, also when they   *)
(* are moved around or assigned from.                                      *)
ArcCountsOwners == \A c \in Chunks : arc[c] = Cardinality(Owners(c))

(* A handle its own process made never dangles: the data it points to is   *)
(* mapped for as long as the handle is there, however many other handles   *)
(* in this and other processes go away.                                    *)
OwnedIsMapped ==
    \A q \in alive : \A h \in objects[q] :
        Owns(q, h) => chunk[q][h] \in mapped[q]

(* README.md:31: "This allows memory segments to be shared across process  *)
(* boundaries with safe cleanup."  Whatever handle a process has, its data *)
(* can be accessed, the handles it inherited included.                     *)
HandlesUsable ==
    \A q \in alive : \A h \in objects[q] :
        chunk[q][h] # NoChunk => chunk[q][h] \in mapped[q]
=============================================================================
