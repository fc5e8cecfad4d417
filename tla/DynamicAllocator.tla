-------------------------- MODULE DynamicAllocator --------------------------
(***************************************************************************)
(* DistributedDynamicParentAllocator and its Manager                       *)
(* (src/src/allocators/distributed_dynamic_allocator.hpp): named shared    *)
(* memory that forked processes share through a table of names, sizes and  *)
(* reference counts.  The table has one lock, and every cell lock is taken *)
(* inside it, so that a section under the table lock that ends is one      *)
(* action.  A section that a death cuts short is another, with what it had *)
(* done so far, and its lock is never released: see CutShort.  What a      *)
(* process does after a section, mapping or unmapping memory and updating  *)
(* its private map of names, is another.  The table itself is counted by   *)
(* the managers that processes own, and the last one destroys it.  A call  *)
(* that only reports an error changes nothing and is a stuttering step.    *)
(*                                                                         *)
(* As in tests/shared_memory_test.cpp, the process that makes the manager  *)
(* forks, a child makes its allocator from the manager it inherits, the    *)
(* objects of a process go in the reverse order of their creation, and     *)
(* what has a name given gives it back once, before its allocator goes.    *)
(*                                                                         *)
(* Operators that DANext does not use and whose name extends that of the   *)
(* operator after them are plausible bugs of it, kept to test the          *)
(* properties.                                                             *)
(***************************************************************************)
EXTENDS Integers, FiniteSets

CONSTANTS
    Procs,        \* each with at most one allocator on the same table
    Maker,        \* the process that makes the manager and the table
    Names,        \* the names callers ask for
    Sizes,        \* the sizes callers ask for
    entry_number, \* how many entries the table has
    MaxDeaths,    \* bound: how many processes may die
    MaxSegments,  \* bound: how many segments are made
    NoName,       \* the name of an entry never used
    NoOne         \* the owner of an object that is not there

ASSUME DynamicSizesAssumption == Sizes \subseteq Nat \ {0} /\ entry_number \in Nat
ASSUME DynamicBoundAssumption == MaxDeaths \in Nat /\ MaxSegments \in Nat
ASSUME DynamicNameAssumption == NoName \notin Names
ASSUME DynamicProcessAssumption == Maker \in Procs /\ NoOne \notin Procs

VARIABLES
    entry,       \* entry[i]: name, max_size and ref_count of a table entry
    lost,        \* is the table lock held for ever: by a process that died
                 \* with it or by the one that destroyed the table?
    count,       \* the table's own ref_count
    scanned,     \* how many entries destroy_entries has looked at
    linked,      \* linked[n]: which segment shm_open(n) opens; 0 when none
    length,      \* length[g]: size of the g-th segment made; 0 before
    pc,          \* "idle", or what a process does after its locked section
    local,       \* local[q]: name, size and segment of the call of q
    manager,     \* manager[q]: the owner that the Manager in q names, or NoOne
    allocator,   \* allocator[q]: the same of the Manager in the allocator of q
    names,       \* names[q]: the names in the private map of the same name
    mapping,     \* mapping[q][n]: segment and size mapped where names points,
                 \* Nothing, or segment Failed
    given,       \* given[q]: names whose allocate succeeded, not deallocated
    uncounted,   \* history: names a process got without being counted
    orphans,     \* history: names whose segment was made with the table full
    torn,        \* history: the name that a death left with a segment and
                 \* nobody counted, or NoName
    late         \* history: the allocators made after the last owner left

table == <<entry, lost, count, scanned>>
files == <<linked, length>>
managers == <<manager, allocator, late>>
private == <<names, mapping>>
leaks == <<orphans, torn>>
davars == <<table, files, pc, local, managers, private, given, uncounted, leaks>>

Segments == 1 .. MaxSegments
NoCall == [name |-> NoName, size |-> 0, segment |-> 0]
Nothing == [segment |-> 0, size |-> 0]
Failed == -1                     \* MAP_FAILED in the place of an address

(* MemoryEntry, in memory mmap has cleared *)
UnusedEntry == [name |-> NoName, size |-> 0, refs |-> 0]

DAInit ==
    /\ entry = [i \in 1 .. entry_number |-> UnusedEntry]
    /\ lost = FALSE
    /\ count = 1 /\ scanned = 0
    /\ linked = [n \in Names |-> 0]
    /\ length = [g \in Segments |-> 0]
    /\ pc = [q \in Procs |-> IF q = Maker THEN "idle" ELSE "unborn"]
    /\ local = [q \in Procs |-> NoCall]
    /\ manager = [q \in Procs |-> IF q = Maker THEN Maker ELSE NoOne]
    /\ allocator = [q \in Procs |-> NoOne]
    /\ names = [q \in Procs |-> {}]
    /\ mapping = [q \in Procs |-> [n \in Names |-> Nothing]]
    /\ given = [q \in Procs |-> {}]
    /\ uncounted = {} /\ orphans = {} /\ torn = NoName /\ late = {}

LeastOf(S) == {i \in S : \A j \in S : i <= j}

NameCheck(i, n) == entry[i].name = n /\ entry[i].size > 0
IsFree(i) == entry[i].refs = 0
IncRef(e) == [e EXCEPT !.refs = @ + 1]

(* dec_ref_count: the last one to leave unlinks the segment *)
DecRef(i) ==
    /\ entry' = [entry EXCEPT ![i].refs = @ - 1]
    /\ linked' = IF entry[i].refs <= 1 THEN [linked EXCEPT ![entry[i].name] = 0] ELSE linked

(* get_cell, get_size: at most one; entries keep their name when nobody    *)
(* has it                                                                  *)
Cell(n) == LeastOf({i \in 1 .. entry_number : NameCheck(i, n)})

(* add_cell: at most one *)
FreeCellAlmost == LeastOf({i \in 1 .. entry_number : entry[i].refs <= 1})
FreeCell == LeastOf({i \in 1 .. entry_number : IsFree(i)})

Larger(s, t) == IF s < t THEN t ELSE s

(* q is killed, or exits without destructors: its memory and mappings go,  *)
(* its references stay counted                                             *)
Killed(q) ==
    /\ Cardinality({p \in Procs : pc[p] = "dead"}) < MaxDeaths
    /\ pc' = [pc EXCEPT ![q] = "dead"]
    /\ local' = [local EXCEPT ![q] = NoCall]
    /\ names' = [names EXCEPT ![q] = {}]
    /\ mapping' = [mapping EXCEPT ![q] = [n \in Names |-> Nothing]]

(* q is killed between lock() and unlock(): nobody gets the table lock     *)
(* again, so that what q has written so far stays                          *)
CutShort(q) ==
    /\ pc[q] = "idle" /\ allocator[q] # NoOne /\ ~lost
    /\ Killed(q)
    /\ lost' = TRUE
    /\ UNCHANGED <<count, scanned, managers, uncounted>>

(* q enters the section under the table lock of its allocator, does what   *)
(* the action says, and leaves it or is killed before it can               *)
Section(q, next, n, size, segment) ==
    \/ /\ pc[q] = "idle" /\ allocator[q] # NoOne /\ ~lost
       /\ pc' = [pc EXCEPT ![q] = next]
       /\ local' = [local EXCEPT ![q] = [name |-> n, size |-> size, segment |-> segment]]
       /\ UNCHANGED <<lost, count, scanned, managers, private, uncounted>>
    \/ CutShort(q)

-----------------------------------------------------------------------------
(* allocate *)

(* The name is in the private map: return what it holds.  A caller that    *)
(* gave n back gets an address that is unmapped, one whose process was     *)
(* forked with n in the map gets its parent's, and neither is counted.     *)
(* Bound: once for a name.                                                 *)
AllocateAgain(q, n) ==
    /\ pc[q] = "idle" /\ n \in names[q] \ given[q]
    /\ n \notin uncounted
    /\ given' = [given EXCEPT ![q] = @ \cup {n}]
    /\ uncounted' = uncounted \cup {n}
    /\ UNCHANGED <<table, files, pc, local, managers, private, leaks>>

Unmade == LeastOf({g \in Segments : length[g] = 0})

(* q has been counted in an entry of the table, which is as good as given *)
CountedIn(q, n) == given' = [given EXCEPT ![q] = @ \cup {n}] /\ UNCHANGED leaks

(* The name is in no entry: make its segment and an entry for it *)
AllocateNew(q, n, size) ==
    /\ n \notin names[q] /\ Cell(n) = {} /\ linked[n] = 0
    /\ \E i \in FreeCell, g \in Unmade :
        /\ linked' = [linked EXCEPT ![n] = g]
        /\ length' = [length EXCEPT ![g] = size]
        /\ entry' = [entry EXCEPT ![i] = IncRef([name |-> n, size |-> size, refs |-> 0])]
        /\ Section(q, "map", n, size, g)
    /\ CountedIn(q, n)

(* ... and when no entry is free, return CouldNotAllocate: the segment stays *)
AllocateTableFull(q, n, size) ==
    /\ n \notin names[q] /\ Cell(n) = {} /\ linked[n] = 0 /\ FreeCell = {}
    /\ \E g \in Unmade :
        /\ linked' = [linked EXCEPT ![n] = g]
        /\ length' = [length EXCEPT ![g] = size]
    /\ orphans' = orphans \cup {n}
    /\ Section(q, "idle", NoName, 0, 0)
    /\ UNCHANGED <<entry, given, torn>>

(* The name is in an entry and its segment can be opened: join it, growing *)
(* it when asked for more                                                  *)
AllocateExistingWithoutTruncate(q, n, size) ==
    /\ n \notin names[q] /\ linked[n] # 0
    /\ \E i \in Cell(n) :
        LET grown == Larger(entry[i].size, size) IN
        /\ entry' = [entry EXCEPT ![i] = IncRef([@ EXCEPT !.size = grown])]
        /\ Section(q, "map", n, grown, linked[n])
    /\ CountedIn(q, n)
    /\ UNCHANGED files
AllocateExisting(q, n, size) ==
    /\ n \notin names[q] /\ linked[n] # 0
    /\ \E i \in Cell(n) :
        LET grown == Larger(entry[i].size, size) IN
        /\ entry' = [entry EXCEPT ![i] = IncRef([@ EXCEPT !.size = grown])]
        /\ length' = [length EXCEPT ![linked[n]] = Larger(@, grown)]
        /\ Section(q, "map", n, grown, linked[n])
    /\ CountedIn(q, n)
    /\ UNCHANGED linked

(* q is done with its call *)
Return(q, from) ==
    /\ pc[q] = from
    /\ pc' = [pc EXCEPT ![q] = "idle"]
    /\ local' = [local EXCEPT ![q] = NoCall]
    /\ UNCHANGED <<table, files, managers, given, uncounted, leaks>>

(* mmap, whose failure is compared with nullptr and not with MAP_FAILED:   *)
(* either way the result is entered in names and returned as a pointer     *)
Map(q, succeeds) ==
    /\ Return(q, "map")
    /\ names' = [names EXCEPT ![q] = @ \cup {local[q].name}]
    /\ mapping' = [mapping EXCEPT ![q][local[q].name] =
                     [segment |-> IF succeeds THEN local[q].segment ELSE Failed,
                      size |-> local[q].size]]

-----------------------------------------------------------------------------
(* check: look the size up, then adapt the mapping to it *)
CheckSize(q, n) ==
    /\ n \in given[q]
    /\ \E i \in Cell(n) : Section(q, "remap", n, entry[i].size, 0)
    /\ UNCHANGED <<entry, files, given, leaks>>

(* mremap when it has grown; a failed mremap changes nothing *)
Remap(q, succeeds) ==
    /\ Return(q, "remap")
    /\ LET old == mapping[q][local[q].name] IN
       mapping' = IF old.size < local[q].size /\ ~(old.segment \in Segments /\ succeeds)
                  THEN mapping
                  ELSE [mapping EXCEPT ![q][local[q].name].size = local[q].size]
    /\ UNCHANGED names

-----------------------------------------------------------------------------
(* deallocate *)
DeallocateKnownEarly(q, n) ==
    /\ n \in given[q]
    /\ \E i \in Cell(n) :
        /\ entry' = [entry EXCEPT ![i].refs = @ - 1]
        /\ linked' = IF entry[i].refs <= 2 THEN [linked EXCEPT ![n] = 0] ELSE linked
    /\ given' = [given EXCEPT ![q] = @ \ {n}]
    /\ Section(q, "unmap", n, 0, 0)
    /\ UNCHANGED <<length, leaks>>
DeallocateKnown(q, n) ==
    /\ n \in given[q]
    /\ \E i \in Cell(n) : DecRef(i)
    /\ given' = [given EXCEPT ![q] = @ \ {n}]
    /\ Section(q, "unmap", n, 0, 0)
    /\ UNCHANGED <<length, leaks>>

(* The entry has another name by now: NameDoesNotExist, nothing is unmapped *)
DeallocateUnknown(q, n) ==
    /\ n \in given[q] /\ Cell(n) = {}
    /\ given' = [given EXCEPT ![q] = @ \ {n}]
    /\ Section(q, "idle", NoName, 0, 0)
    /\ UNCHANGED <<entry, files, leaks>>

(* munmap; the name stays in the map of names, with the old address *)
Unmap(q) ==
    /\ Return(q, "unmap")
    /\ mapping' = [mapping EXCEPT ![q][local[q].name] = Nothing]
    /\ UNCHANGED names

-----------------------------------------------------------------------------
(* The processes and their objects *)

(* The child has its parent's memory: its objects, the names in the map,   *)
(* the mappings, and whatever gives back the names its parent was given    *)
ForkChild(p, q) ==
    /\ pc[p] = "idle" /\ manager[p] # NoOne /\ pc[q] = "unborn"
    /\ pc' = [pc EXCEPT ![q] = "idle"]
    /\ manager' = [manager EXCEPT ![q] = manager[p]]
    /\ allocator' = [allocator EXCEPT ![q] = allocator[p]]
    /\ names' = [names EXCEPT ![q] = names[p]]
    /\ mapping' = [mapping EXCEPT ![q] = mapping[p]]
    /\ given' = [given EXCEPT ![q] = given[p]]
    /\ uncounted' = uncounted \cup given[p]
    /\ UNCHANGED <<table, files, local, leaks, late>>

(* The processes that have destroyed the table or are about to *)
Destroying == {q \in Procs : pc[q] \in {"destroy", "ended"}}

(* Both constructors of the allocator copy the manager they are given: the *)
(* rvalue reference of the second has a name.  The copy is owned and       *)
(* counted by the process that makes it.                                   *)
ConstructAllocatorMoving(q) ==
    /\ pc[q] = "idle" /\ manager[q] # NoOne /\ allocator[q] = NoOne
    /\ allocator' = [allocator EXCEPT ![q] = q]
    /\ manager' = [manager EXCEPT ![q] = NoOne]
    /\ UNCHANGED <<table, files, pc, local, private, given, uncounted, leaks, late>>
ConstructAllocator(q) ==
    /\ pc[q] = "idle" /\ manager[q] # NoOne /\ allocator[q] = NoOne
    /\ allocator' = [allocator EXCEPT ![q] = q]
    /\ count' = count + 1
    /\ late' = IF Destroying = {} THEN late ELSE late \cup {q}
    /\ UNCHANGED <<entry, lost, scanned, files, pc, local, manager, private, given, uncounted, leaks>>

(* ~Manager: only an owner is counted, and the last one destroys the table *)
DropManager(q, creator) ==
    /\ count' = IF creator = q THEN count - 1 ELSE count
    /\ pc' = IF creator = q /\ count <= 1 THEN [pc EXCEPT ![q] = "destroy"] ELSE pc

DestroyAllocator(q) ==
    /\ pc[q] = "idle" /\ allocator[q] # NoOne /\ given[q] = {}
    /\ DropManager(q, allocator[q])
    /\ allocator' = [allocator EXCEPT ![q] = NoOne]
    /\ names' = [names EXCEPT ![q] = {}]
    /\ mapping' = [mapping EXCEPT ![q] = [n \in Names |-> Nothing]]
    /\ late' = late \ {q}
    /\ UNCHANGED <<entry, lost, scanned, files, local, manager, given, uncounted, leaks>>

DestroyManager(q) ==
    /\ pc[q] = "idle" /\ manager[q] # NoOne /\ allocator[q] = NoOne
    /\ DropManager(q, manager[q])
    /\ manager' = [manager EXCEPT ![q] = NoOne]
    /\ UNCHANGED <<entry, lost, scanned, files, local, allocator, late, private, given, uncounted, leaks>>

(* destroy_entries: take the lock for good, unlink every name that is or   *)
(* was in the table, in use or not, and unmap the table of this process,   *)
(* which can do nothing with an inherited manager it may still have.  With *)
(* entries left, it was killed in the loop, which no bound counts.         *)
DestroyEntries(q) ==
    /\ pc[q] = "destroy" /\ ~lost
    /\ pc' = [pc EXCEPT ![q] = "ended"]
    /\ lost' = TRUE
    /\ scanned' \in 0 .. entry_number
    /\ linked' = [n \in Names |-> IF \E i \in 1 .. scanned' : entry[i].name = n THEN 0 ELSE linked[n]]
    /\ UNCHANGED <<entry, count, length, local, managers, private, given, uncounted, leaks>>

(* A process dies outside of a section *)
Die(q) ==
    /\ pc[q] \notin {"unborn", "ended", "dead"}
    /\ Killed(q)
    /\ UNCHANGED <<table, files, managers, given, uncounted, leaks>>

-----------------------------------------------------------------------------
(* Sections cut short before their last write *)

(* ... before the first one *)
DieLocked(q) ==
    /\ CutShort(q)
    /\ UNCHANGED <<entry, files, given, leaks>>

(* AllocateNew or AllocateTableFull after shm_open, after ftruncate, or in *)
(* add_cell, which writes max_size first (half a name is as good as the    *)
(* old one, as nobody reads it any more), with nobody counted              *)
DieMaking(q, n, size) ==
    /\ n \notin names[q] /\ Cell(n) = {} /\ linked[n] = 0
    /\ CutShort(q)
    /\ \E g \in Unmade :
        /\ linked' = [linked EXCEPT ![n] = g]
        /\ \/ UNCHANGED <<length, entry>>
           \/ /\ length' = [length EXCEPT ![g] = size]
              /\ \/ UNCHANGED entry
                 \/ \E i \in FreeCell : \E name \in {entry[i].name, n} :
                       entry' = [entry EXCEPT ![i] = [name |-> name, size |-> size, refs |-> 0]]
    /\ torn' = n
    /\ UNCHANGED <<given, orphans>>

(* AllocateExisting after ftruncate, or after set_max_size *)
DieJoining(q, n, size) ==
    /\ n \notin names[q] /\ linked[n] # 0
    /\ CutShort(q)
    /\ \E i \in Cell(n) :
        /\ entry[i].size < size
        /\ length' = [length EXCEPT ![linked[n]] = Larger(@, size)]
        /\ entry' \in {entry, [entry EXCEPT ![i].size = size]}
    /\ UNCHANGED <<linked, given, leaks>>

(* DeallocateKnown by the last user, before shm_unlink *)
DieLeaving(q, n) ==
    /\ n \in given[q]
    /\ CutShort(q)
    /\ \E i \in Cell(n) :
        /\ entry[i].refs <= 1
        /\ entry' = [entry EXCEPT ![i].refs = @ - 1]
    /\ given' = [given EXCEPT ![q] = @ \ {n}]
    /\ torn' = n
    /\ UNCHANGED <<files, orphans>>

DANext ==
    \E q \in Procs :
        \/ \E n \in Names :
            \/ AllocateAgain(q, n) \/ CheckSize(q, n) \/ DeallocateKnown(q, n) \/ DeallocateUnknown(q, n)
            \/ DieLeaving(q, n)
            \/ \E size \in Sizes :
                \/ AllocateNew(q, n, size) \/ AllocateTableFull(q, n, size)
                \/ AllocateExisting(q, n, size) \/ DieMaking(q, n, size) \/ DieJoining(q, n, size)
        \/ Unmap(q) \/ Die(q) \/ DieLocked(q)
        \/ \E p \in Procs : ForkChild(p, q)
        \/ ConstructAllocator(q) \/ DestroyAllocator(q) \/ DestroyManager(q) \/ DestroyEntries(q)
        \/ \E b \in BOOLEAN : Map(q, b) \/ Remap(q, b)

DASpec == DAInit /\ [][DANext]_davars

-----------------------------------------------------------------------------
Running(q) == pc[q] \notin {"unborn", "ended", "dead"}

(* Type invariant: in particular the table's count is never negative.      *)
DATypeOK ==
    /\ entry \in [1 .. entry_number ->
                    [name : Names \cup {NoName}, size : Sizes \cup {0}, refs : Int]]
    /\ lost \in BOOLEAN
    /\ count \in Nat /\ scanned \in 0 .. entry_number
    /\ linked \in [Names -> Segments \cup {0}]
    /\ length \in [Segments -> Sizes \cup {0}]
    /\ pc \in [Procs -> {"unborn", "idle", "map", "remap", "unmap", "destroy", "ended", "dead"}]
    /\ local \in [Procs -> [name : Names \cup {NoName}, size : Sizes \cup {0},
                                segment : Segments \cup {0}]]
    /\ manager \in [Procs -> Procs \cup {NoOne}]
    /\ allocator \in [Procs -> Procs \cup {NoOne}]
    /\ names \in [Procs -> SUBSET Names]
    /\ mapping \in [Procs -> [Names -> [segment : Segments \cup {0, Failed},
                                           size : Sizes \cup {0}]]]
    /\ given \in [Procs -> SUBSET Names]
    /\ uncounted \in SUBSET Names /\ orphans \in SUBSET Names
    /\ torn \in Names \cup {NoName} /\ late \in SUBSET Procs

(* The count of an entry is the number of processes that hold its name,    *)
(* those that died with it included, although a call lets go of the table  *)
(* between counting itself in and mapping the memory, and although a       *)
(* failed mmap is reported as success; and a name somebody holds keeps its *)
(* entry, whatever other names come and go.  A name that was handed out    *)
(* uncounted, by a second allocate or through fork, is on its own; it      *)
(* spoils no other name.                                                   *)
RefsCountHolders ==
    \A n \in Names \ uncounted : LET holders == Cardinality({q \in Procs : n \in given[q]}) IN
        /\ \A i \in 1 .. entry_number : entry[i].name = n => entry[i].refs = holders
        /\ holders > 0 => Cell(n) # {}

(* The allocator of q keeps the table in use: q owns it and was in time *)
KeepsTable(q) == allocator[q] = q /\ q \notin late
Destroyed == \E q \in Procs : pc[q] = "ended"

(* What the table is for: all processes that have a name given map one and *)
(* the same segment, and it is the one a process that comes later opens.   *)
(* Only one whose own mmap failed has an address of nothing, and only one  *)
(* whose allocator is not counted is left alone by who destroys the table. *)
SharedSegment ==
    \A q \in Procs : \A n \in (given[q] \cap names[q]) \ uncounted :
        \/ mapping[q][n].segment \in {linked[n], Failed}
        \/ Destroyed /\ ~KeepsTable(q)

(* No mapping reaches beyond the end of its segment, so that the memory    *)
(* handed out can be accessed, also while others let the segment grow.     *)
MappedWithinSegment ==
    \A q \in Procs : \A n \in given[q] \ uncounted :
        mapping[q][n].segment \in Segments =>
            mapping[q][n].size <= length[mapping[q][n].segment]

(* No segment outlives its users and no user loses a segment: a name can   *)
(* be opened exactly when an entry that the destruction of the table has   *)
(* not come to counts somebody, so that nothing is left when it is over.   *)
(* The exceptions stay for good: segments made when the table was full,    *)
(* which nobody records, and one that a death between shm_open and         *)
(* inc_ref_count, or between fetch_sub and shm_unlink, left with nobody    *)
(* counted.  There is one such at most, and it costs everybody the table.  *)
SegmentsAccounted ==
    /\ \A n \in Names \ uncounted :
        linked[n] # 0 <=>
            \/ n \in orphans \/ n = torn
            \/ \E i \in 1 .. entry_number : i > scanned /\ entry[i].name = n /\ entry[i].refs > 0
    /\ torn # NoName => lost /\ ~Destroyed

(* The table is destroyed only when no process owns a manager of it any    *)
(* more, although children come and go at any time; unless a child makes   *)
(* its allocator from an inherited manager after the last owner left.      *)
TableOutlivesOwners ==
    Destroying # {} =>
        \A q \in Procs : Running(q) => manager[q] # q /\ (allocator[q] = q => q \in late)
=============================================================================
