# Verification of the ThreadWeaver rings and allocators

ThreadWeaver (`src/README.md`) is a C++23 collection of ring buffers in shared
memory, the memory layouts they run on and the allocators that provide the
memory. Producers and consumers are threads or forked processes; any of them
may be killed. This directory holds TLA+ models of those parts, TLC runs over
small instances, and TLAPS proofs for the instances TLC cannot enumerate.

Paths are relative to the repository's root. `ring/` stands for
`src/buffer/ring/`.

Contents: 1 inventory, 2 how to read the models, 3 modules and code, 4 runs,
5 findings, 6 proofs, 7 what is not modelled, 8 plan.

## 1. Inventory

### 1.1 Components

| Component | State | Operations | Must hold |
|---|---|---|---|
| Three-pointer ring (MPSC), `ring/three_pointer_approach.hpp` | shared `write_head`, `commit_head`, `read_head`, cells; nothing in the ends themselves | `Producer::write`: look for room, claim by CAS, store, commit in order. `Consumer::read`: look, copy, advance | no two processes in a cell; items intact, in claim order, once; only a death between claim and commit wedges it |
| First ring class, `static_lockless_ring_buffer.hpp`, and the owner that maps its memory, `static_memctrl_lockless_ring_buffer.hpp` | the same heads and cells; in the owner the pointers and `reader_done` | the same `write`/`read`; creation, `create_consumer`, `create_producer`, moves, the implicit copies of `LockLessRingBufferInit`, destruction | as above; one consumer per owner, ring unmapped once |
| Simple ring (SPSC), `ring/simple_approach.hpp` | shared heads and cells; each end caches its own head | `write`, `read`, constructors that reload the cache | FIFO; at most one item lost or repeated per death; drains |
| Cell-lockable ring (MPSC), `ring/cell_lockable_approach.hpp` | shared heads, cells with a lock byte and a length; each producer caches an unused ticket | `write` (ticket, cell lock, store, fetch-min on `read_head`), `read`, `read_lock` | a cell belongs to one process; every stored item is visited again; nothing twice |
| Its first optimisation, `ring/cell_lockable_approach_opt_1.hpp` | the same, no ticket cache | `write` (lock first, then advance the head), `read` | as above, plus order per producer |
| Low-CAS ring (MPSC), `static_lowcas_lockless_ring_buffer.hpp` | heads starting at 1, cells with a lock bit and a length, owner with `reader_done` | `write` (ticket, given back when full, never waits for a cell), `read`, creation, moves | no item passed over, consumer not ahead of the tickets, cell locked by who uses it |
| Layouts, `buffer/layouts/lockless_ring_buffer_layout.hpp` | an allocator handle and the pointers into its memory | cell addressing, `try_read_lock`, `try_write_lock`, copies, moves | a guard means exclusive access; memory mapped while a layout uses it |
| Cells, `common/memory/cache_line.hpp`, `common/generic.hpp` | lock byte, length, elements in a line of 64 bytes | lock, unlock, contains/clear data, assignments, the number of elements | assignment leaves the lock alone; the elements fit |
| One-time allocator, `allocators/one_time_static_allocator.hpp` | an anonymous shared mapping with a count in it; per handle the pointer and the pid that made it | construct, copy, move, assign, allocate, deallocate, destroy; fork and exit around it | count exact; memory of a handle mapped |
| Dynamic allocator, `allocators/distributed_dynamic_allocator.hpp` | a table of names, sizes and counts in shared memory with a lock; per process a map name → pointer; a count of managers | `allocate`, `check`, `deallocate`; a manager that maps the table, its copy and destruction | count exact; one segment per name; mappings within it; no segment lost; the table goes with its last owner |
| Buffer and factories, `buffer/buffer.hpp`, `buffer/scmp.hpp`, `buffer/scsp.hpp` | a layout and one or two flags | `create_consumer`, `create_producer`, moves | one consumer; for scsp one producer |
| Guards, `common/memory/guards.hpp` | a pointer to what is locked, and what to do with it in the end | made of a lock taken, moved, wrapped, assigned, destroyed | each lock given back once, by one guard |
| Class extensions, `common/class_extensions.hpp` | none | blocking versions of the try-locks | instantiated nowhere |
| Concepts, tracing, `main.cpp`, dynamic ring stub, tests, scripts | none of their own | | |

### 1.2 Interactions

A `Buffer` (or an owner class) maps a ring through a layout, whose allocator
handle counts references in the mapping itself. It hands out at most one
consumer and any number of producers. Consumer and producers, in threads or in
children made by `fork`, share only the heads and the cells; there are no
messages and no callbacks. Everything that goes wrong therefore goes wrong in
the order of accesses to shared memory, or because a process disappears
between two of them.

### 1.3 What is hard

* *Interleaving*: producers racing for an index, a fetch-min racing with the
  consumer's fetch_add, a ticket taken back while others hold later ones.
* *Stale state*: heads read before a claim or before the wait for a cell lock,
  cached heads and cached tickets, sizes looked up before the lock is dropped.
* *Order of small steps*: clearing a cell and unlocking it, unlocking and
  advancing the head, a lock byte overwritten and restored.
* *Death*: between claim and commit, inside a cell, between any two writes made
  under the table lock, between publishing and returning.
* *Ownership*: handles and flags duplicated by `fork` without a constructor
  running, moves that must carry the pointers and the flag together, an owner that can
  be copied, guards moved and wrapped, guards kept while the same consumer calls again.
* *Numbers*: ticket 0 and its predecessor, heads that start at 1.

`PROJECT.json` lists each hazard at its line, with the properties that would
catch it.

## 2. How to read the models

**Steps.** In the rings one action is one access to shared memory (an atomic
operation on a head or a lock, or the copy to or from a cell) together with
the local code up to the next access. Where a copy takes many machine
instructions, the process is *in* the cell from the action before to the copy,
and an invariant says that nobody else is. In the allocators, which do
everything under a lock or at a single counter, an action is a locked section
or a whole operation.

**Memory model.** The models interleave atomic steps. This is faithful for the
rings here: x86 is the target (`src/README.md:10`, and the locks are
`lock bts` in assembly); there loads are acquires, stores are releases and
read-modify-writes are full barriers. In the three-pointer and simple rings
every head is stored or exchanged after the cell is done and loaded before the
cell is touched. In the cell-lockable rings the relaxed loads of a head are
only hints: what matters is decided by a read-modify-write on the head or on
the lock of the cell.

**Callers.** The n-th item of producer `p` is the pair `<<p, n>>`. A producer
offers an item until it is accepted, and a consumer calls again after an empty
answer, as the loops of the tests do (`src/tests/buffer_general_test.cpp:146`,
`:249`). Loss, duplication, invention and reordering are all visible.

**History variables** (`claimed`, `received`, `sent`, `under`, `stale`, `mine`,
`made`, `consumers`, `producers`, `overlap`, `uncounted`, `orphans`, `late`,
`wrapped`, `loosened`, `leaked`) are written by actions and read by no guard,
except that `sent`, `given`, `made`, `uncounted`, `wrapped` and `loosened` bound
what callers do.

**Mutants.** Some operators are not used by the next-state relation, and their
names extend that of the operator below them: `StoreItemOverwriting` before
`StoreItem`. Each is a plausible bug of that operator (a dropped guard, an
off-by-one, a missing update). Put in place of the operator, it must make TLC
report the property that `PROJECT.json` lists it with; that is how each
property is shown to depend on the code.

**Fairness.** Weak fairness on each process, and nothing more: a live process
is scheduled, and calls again. No lock is fair. Nobody is obliged to replace a
process that died, except in `SimpleRing`, where the question is what a
replacement can rely on. Runs without a liveness property use the
specification without fairness.

**Stopping.** `CHECK_DEADLOCK FALSE` stands in the configurations where the
system may really stop: a process that dies with a lock stops the others
(`CellLockable`, `CellOpt1`, `LowCas`, `DynamicAllocator`), a lock nobody gives
back does (a consumer on its own guard in `CellLockable`, a forgotten entry in
`LockGuards`), and where all processes may have ended (`OneTimeAllocator`,
`RingOwners`, `DynamicAllocator`). The three-pointer and simple rings never stop: deadlock is checked.

## 3. Modules and code

| Module | Models | State | Actions |
|---|---|---|---|
| `BoundedQueue` | promise of the three-pointer ring: a bounded FIFO queue | `queue`, `sent`, `received` | `Put`, `Get` |
| `ThreePointer` | `ring/three_pointer_approach.hpp`; line for line also the `read`/`write` of `static_lockless_ring_buffer.hpp` | the three heads, cells, per process `pc`, `r_h`, `w_h` | `LoadReadHead`, `ReportFull`, `LoadWriteHead`, `ClaimSlot`, `ClaimFails`, `StoreItem`, `CommitSlot`; `LoadOwnHead`, `ReportEmpty`, `LoadCommitHead`, `FetchItem`, `AdvanceReadHead`; `Crash`, `Restart` |
| `BoundedChannel` | promise of the simple ring to the outside: cells join at the back, leave at the front, all leave | `queue` | `Put`, `Get` |
| `SimpleRing` | `ring/simple_approach.hpp` | heads, cells, the two caches | the accesses of `write` and `read`; `Die`, `AttachProducer`, `AttachConsumer` (the constructors) |
| `UnorderedPool` | promise of the cell-lockable rings: a bounded pool, each item handed over once | `pool`, `sent`, `received` | `Put`, `Get` |
| `CellLockable` | `ring/cell_lockable_approach.hpp` with the layout's locks and the cells of `cache_line.hpp` | heads, cells, lock bits, cached tickets, the guards the consumer keeps | the accesses of `write` (11 actions, cached ticket and fetch-min loop included) and of `read`; `KeepGuard`, `DropGuard` (`read_lock` and its guard); `Die` |
| `CellOpt1` | `ring/cell_lockable_approach_opt_1.hpp` | heads, cells, lock bits | the accesses of `write` and `read`; `Die` |
| `LowCas` | `read`/`write` of `static_lowcas_lockless_ring_buffer.hpp` | heads, cell headers | the accesses of `write` (ticket, giving it back, cell lock, publishing, fetch-min) and of `read`; `Die` |
| `OneTimeAllocator` | `allocators/one_time_static_allocator.hpp`, and through it the copies and moves of the layouts | per process the handles and mappings, per chunk the count | one per member function, `Fork`, `Exit` |
| `DynamicAllocator` | `allocators/distributed_dynamic_allocator.hpp` | the table and its count, the files, per process the manager, the allocator, the private map and the mappings | `AllocateNew`, `AllocateExisting`, `AllocateTableFull`, `AllocateAgain`, `Map`; `CheckSize`, `Remap`; `DeallocateKnown`, `DeallocateUnknown`, `Unmap`; `ConstructAllocator`, `DestroyAllocator`, `DestroyManager`, `DestroyEntries`; `ForkChild`, `Die`; `DieLocked`, `DieMaking`, `DieJoining`, `DieLeaving` (sections cut short) |
| `LockGuards` | `common/memory/guards.hpp` around the layout's try-locks, the assignments of both cells of `cache_line.hpp`, and table entries | lock words, lengths, the guard in each variable of each thread, `read_head` | `LockCell`, `ReturnGuard`, `ReturnNothing`, `LockEntry`; `Destroy`, `ClearData`, `UnlockResource`, `AdvanceReadHead`; `MoveConstruct`, `Wrap`, `MoveAssign`, `MoveAssignEntry`; `StoreAligned`, `StorePacked`, `RestoreLockByte`, `StoreMoving` |
| `CacheLine` | `calculate_buffer_fit` and the layout of `CacheLineSlot` | none: operators | |
| `RingOwners` | the three owner classes, `Buffer` and its factories | the owners in the variables of each process, the mappings, the ends handed out | `Create`, `CreateConsumer`, `CreateFromFactory`, `CreateProducer`, `Move`, `MoveAssign`, `Copy`, `Destroy`, `Fork`, `Exit` |

`<Module>Proofs` holds the proofs about a module; those about the two allocators
are in `AllocatorProofs` and those about `CacheLine` in `LockGuardsProofs`
(section 6). Modules whose proofs share a module share no name, hence `DAInit`,
`DANext`, `DASpec` and `DATypeOK` in `DynamicAllocator`.

Refinements: `ThreePointer` ⟶ `BoundedQueue`, `SimpleRing` ⟶ `BoundedChannel`
(with its fairness), `CellLockable` ⟶ `UnorderedPool`, `CellOpt1` ⟶
`UnorderedPool`.

Abstractions worth knowing:

* Indices of `ThreePointer`, `SimpleRing`, `LowCas` and `CellOpt1` are
  naturals; their wrap (`Uindex`, 64 bits by default) is not modelled.
  `CellLockable` has the width as `MaxIndex`, because the predecessor
  of ticket 0 is computed in it.
* `ThreePointer` has `SpuriousFailure`: whether `compare_exchange_weak` may
  fail without a reason. On x86 it does not; the proofs hold either way.
* `LowCas` keeps the header of a cell and drops its data. Nothing bounds how
  many tickets a producer may take while every cell it comes to is locked by a
  consumer that runs around the ring; `MaxTickets` does, and the run asks only
  for safety.
* In `OneTimeAllocator` the copy assignment is one action although it touches
  two counts: the first update decides what it does to its own mappings and
  the second only adds.
* In `DynamicAllocator` the cell locks disappear: each is taken inside the
  table lock. A section under that lock that ends is one action, because
  nobody else reads or writes the table or the files of its names while it
  lasts. One that a death cuts short is an action of its own for every place
  between two writes (`CutShort`): nothing written yet (`DieLocked`); a new
  segment opened, made long enough, its entry half or wholly filled in, nobody
  counted (`DieMaking`); a segment grown and the entry not, or both, nobody
  counted (`DieJoining`); the count lowered and the segment not unlinked
  (`DieLeaving`). A death after the last write and before `unlock` is the
  completed section and then `Die`: the lock is then free in the model and held
  in the code, so that the model allows all that the code does and more. A name copied by half into an entry
  stands for the old one, since nobody reads the table afterwards. In
  `DestroyEntries` the loop may stop after any number of entries (`scanned`):
  a process killed there has `pc` "ended" and does not count for `MaxDeaths`.
  Both constructors of the allocator copy the manager they are
  given, also the one that takes an rvalue reference, because the parameter has
  a name. What gives a name back does so once; a name may be asked for again,
  which the code answers from its private map without counting (`uncounted`).
* In `LockGuards` a guard is the pair of its kind and what it points to; the
  functors are steps of the thread that destroys it. `SingleResourceLockGuard`
  differs only in making its functor anew and has no kind of its own.
* `CacheLine` takes the offset of the elements from the rules the compiler
  follows (`DataOffset`) and compares `calculate_buffer_fit` with it.
* In `RingOwners`, `reader_done` of `LockLessRingBufferInit` starts with any
  value, because its constructor does not set it. `Copy` is what the compiler
  generates for it, copy construction and copy assignment, and what `std::move`
  of one does; the other owners delete their copies or have moves. `copies`
  counts those that can lead to another consumer, which are the ones made while
  the flag is unset. The producers of the other
  kinds have no flag and their creation changes nothing.

## 4. Runs

`MC<Module>` gives the module its model values and symmetry. A run takes
from seconds to about two minutes.

### 4.1 Runs that pass

| Run | Instance | Shows |
|---|---|---|
| `three_pointer` | 2 producers × 2 writes, 2 cells, any 2 deaths with or without replacement | `NoCellRace`: the plain copies never meet. `FifoDelivery`: no cell is published or reused early, nothing out of order. `RefinesQueue`. `StallOnlyFromAbandonedTicket`: a death elsewhere than between claim and commit leaves the others working, and a death there is the *only* wedge. `IndInv`: the invariant of the proofs |
| `simple` | 6 items, 2 cells, each side dies up to twice anywhere and is replaced | `NoCellRace` although each side decides on a cached and an old head. `ExactlyOnceUpToDeaths`: in order, at most one item lost per death of the consumer and one repeated per death of the producer. `RefinesChannel`, `AllDrained` |
| `cell_lockable` | 2 producers × 2 writes, 2 cells, 1 death, guards of `read_lock` kept as long as the consumer likes | `CellExclusive`. `NothingLeftBehind`: an item stored behind the consumer is made good by the fetch-min, also against a `fetch_add` decided on before. `ReaderBehindTickets`. `RefinesPool`: nothing overwritten, nothing twice. `LaterItemsRead`: everything accepted and read unless a producer died inside a cell (ticket 0 aside, see 5). The last three except a consumer that calls while it holds a guard (`overlap`), which can spin on its own cell; a guard kept for long does no harm |
| `cell_opt1` | 2 producers × 3 writes, 2 cells, 1 death | `RefinesPool` and `HeadsOrdered` (with the types) whatever happens; `InOrderUnlessStale` and `DrainedUnlessStale`: order and delivery, except after a producer stored at an index that was used while it waited for the cell. After that items are stranded and the ring can spin for ever: the exception is real and is what the variable `stale` marks |
| `low_cas` | 2 producers × 2 writes, 2 cells, tickets up to 4, 1 death | `NothingPassedOver`: giving tickets back loses no item. `ReaderAheadBounded`: the consumer runs past the tickets by at most one per producer |
| `allocator` | a parent and a child, 3 handle places, 2 chunks | `ArcCountsOwners`: the count is the number of handles made by the process that holds them. `OwnedIsMapped`: such a handle never dangles |
| `dynamic_allocator` | a parent that makes the manager and a child forked at any moment, 2 names, sizes 1 and 2, a table of 1 entry, 3 segments, failing `mmap` and `mremap`, 1 death anywhere, inside a section included | `RefsCountHolders`, `SharedSegment`, `MappedWithinSegment`, although a call lets go of the table before it maps, and an entry is reused for another name. `SegmentsAccounted`: a segment can be opened exactly while its entry counts somebody and the destruction of the table has not come to it; only those made with the table full are lost, and the one that a death between `shm_open` and `inc_ref_count` or between `fetch_sub` and `shm_unlink` leaves. `TableOutlivesOwners`: the table is destroyed when no process owns a manager, unless an allocator is made too late |
| `lock_guards` | 2 threads with 2 guard variables each, 1 aligned and 1 packed cell, 2 entries, 2 wraps | `OneGuardPerLock`: a lock is set exactly while one guard is there to give it back. `FindingsStayTrue`: an item found stays until its guard clears it, and a cell cleared because it was empty still is. `AdvancedOnce`: a wrapped guard advances `read_head` once (with the types) |
| `ring_owners` | a parent and forked children, 2 variables, 2 rings of any of 5 kinds, 2 counted copies per ring | `FlagFollowsRing`, `NoSecondEnd`: seen from each process, one consumer (for scsp one producer) per ring however owners are moved and processes forked, and one more consumer for each copy of a `LockLessRingBufferInit` made before it gave its own (see 5). `MappedByOneOwner`: nothing is unmapped twice, early or never |

Why the bounds are enough. Two producers race for everything one races for;
two cells are the least for which "the same cell" and "the next cell" differ,
and with three or four writes the ring goes round, fills up and comes back to
a cell whose old reader or writer is still there. Two deaths allow a replacement to die too. A table of one
entry is full with one name, and reused by the other; `MaxSegments` counts over
the whole run, so that a name can be made, given up and made again while the
other is there, and a name is handed out uncounted once. Two processes are
enough in `dynamic_allocator`, because a process meets another only through the
table. In `lock_guards` two variables are the least between which a guard can
move, and the only effect of more threads is more waiting; a cell whose lock byte
was written over (`loosened`) is taken by one more thread and by nobody later,
because the properties say nothing of it any more. In `ring_owners` a
process that ended is forked anew, so that two processes give chains of forks of
any length, and two copies give three consumers, with a destruction between the
copies; in `allocator` a process that ended is forked anew too, as long as
no handle on a chunk still names its pid (6.7), and the parent may end before
the child. Three handle places are enough for a
copy, a move and an assignment to meet. Every action and every disjunct is fired
by these runs.

### 4.2 Runs that end in a violation

Each checks one thing the repository says of itself; section 5.

## 5. Findings

| Run | The repository says | The code does |
|---|---|---|
| `low_cas_reader_lock` (`ReaderLocksCell`) | `static_lowcas_lockless_ring_buffer.hpp:179`: "Now we know that we locked it :)" | the loop at 171 ends when the cell is locked, by whomever; the consumer copies and resets a cell a producer is filling |
| `cell_lockable_ticket_zero` (`EveryItemRead`) | `tests/buffer_general_test.cpp:205-222`: every item written is found | `ring/cell_lockable_approach.hpp:184`: for ticket 0, `w_h - 1` is the largest index, `read_head` is not lowered, and an item stored after the consumer passed the cell is not visited unless the ring comes round to it |
| `allocator_cleanup` (`HandlesUsable`) | `README.md:29`: segments shared across processes "with safe cleanup" | `allocators/one_time_static_allocator.hpp:90`: a child that drops its last *own* copy unmaps the chunk under the handles it inherited |

Three more are exceptions in the properties of runs that pass. TLC finds the
first two as violations when the exception is left out.

* `FlagFollowsRing` and `NoSecondEnd` allow a copied `LockLessRingBufferInit`
  another consumer. `static_lockless_ring_buffer.hpp:28` says "Only **one**
  consumer can be instantiated via the factory", and 18 and 238 say likewise;
  but the class declares a destructor (316) and nothing else, so that it keeps
  its implicit copy operations. A copy made before `create_consumer` has the
  ring and an unset flag, and the two give a consumer each, in one process.
* `FlagFollowsRing` allows an owner of that class to refuse the first consumer.
  296-297 say that `create_consumer` creates it "if there doesn't already exist
  one"; but the constructor (291-294) leaves `reader_done` unset, and 302 reads
  it.
* `lock_guards`: `common/concepts/generic.hpp:58-59` promises exclusive ownership of a
  locked index, and `common/memory/cache_line.hpp:156` copies the item's clear
  lock byte over the held lock and restores it afterwards (`StorePacked`,
  `RestoreLockByte`); in between another thread can enter. The defaulted move
  assignments (160, 230) never restore it (`StoreMoving`).

More divergences were met and need no run: the comment in
`ring/cell_lockable_approach.hpp:153-154` speaks of reverting the increment,
while the code keeps the ticket for the next call (`ReportFull`); and
`static_lockless_ring_buffer.hpp:12-14` calls the writer wait-free, while the
commit loop waits for every earlier claim (`CommitSlot`), for ever if one was
abandoned (`StallOnlyFromAbandonedTicket`); `guards.hpp:218` assigns an entry
guard without unlocking what it has, unlike the other guards
(`MoveAssignEntry`); and `distributed_dynamic_allocator.hpp:354` compares a
failed `mmap` with `nullptr` (`Map`).

## 6. Proofs

Eight modules prove their theorems for every value of the constants: any set of
producers or processes, any capacity or length of the table, any workload and
number of deaths. The bounds of the runs (`MaxWrites`, `MaxDeaths`,
`MaxTickets`, `MaxWraps`, `MaxIndex`, `MaxSegments`, `MaxCopies`) are any naturals. For each
component the invariant named `IInv` (`IndInv` in `ThreePointerProofs`, `DAInv`
for the dynamic allocator) is inductive: none of the properties is so by itself.
TLC has checked each on the instance of the component's run before it was
proved (`DAInv` also with three processes and one name). Every invariant and
every safety property that a passing run checks is stated by a theorem.

| Module | Theorem | States |
|---|---|---|
| `ThreePointerProofs` | `Invariance`, `TypeCorrect` | `[]IndInv`, `[]TypeOK` |
| | `Fifo`, `PublishedIsIntact`, `NoRace` | `[]FifoDelivery`, `[]CommittedIntact`, `[]NoCellRace` |
| | `Refinement` | `RefinesQueue` |
| `SimpleRingProofs` | `Invariance`, `TypeCorrect` | `[]IInv`, `[]TypeOK` |
| | `NoRace`, `ExactlyOnce` | `[]NoCellRace`, `[]ExactlyOnceUpToDeaths` |
| | `RefinementSafety` | `Channel!Spec`: `RefinesChannel` without its fairness |
| `CellLockableProofs` | `Invariance`, `TypeCorrect` | `[]IInv`, `[]TypeOK` |
| | `Exclusion`, `NeverAheadOfTickets`, `NothingIsLeftBehind` | `[]CellExclusive`, `[]ReaderBehindTickets`, `[]NothingLeftBehind` |
| | `Refinement` | `RefinesPool` |
| `CellOpt1Proofs` | `Invariance`, `HeadsStayOrdered` | `[]IInv`, `[]HeadsOrdered` (with the types) |
| | `InOrderDelivery`, `Refinement` | `InOrderUnlessStale`, `RefinesPool` |
| `LowCasProofs` | `Invariance`, `TypeCorrect` | `[]IInv`, `[]TypeOK` |
| | `NothingIsPassedOver`, `ReaderIsNotFarAhead` | `[]NothingPassedOver`, `[]ReaderAheadBounded` |
| `RingOwnersProofs` | `Invariance`, `TypeCorrect` | `[]IInv`, `[]TypeOK` |
| | `FlagIsRight`, `OneEndEach`, `UnmappedOnce` | `[]FlagFollowsRing`, `[]NoSecondEnd`, `[]MappedByOneOwner` |
| `AllocatorProofs`, one-time | `Invariance`, `TypeCorrect` | `[]IInv`, `[]TypeOK` |
| | `CountIsRight`, `OwnedStaysMapped` | `[]ArcCountsOwners`, `[]OwnedIsMapped` |
| `AllocatorProofs`, dynamic | `DAInvariance`, `DATypesRight` | `[]DAInv`, `[]DATypeOK` |
| | `RefsRightAlways`, `SegmentShared`, `MappedWithin` | `[]RefsCountHolders`, `[]SharedSegment`, `[]MappedWithinSegment` |
| | `SegmentsNotLost`, `TableKept` | `[]SegmentsAccounted`, `[]TableOutlivesOwners` |
| `LockGuardsProofs` | `Invariance` | `[]IInv` |
| | `OneGuard`, `FindingsAreKept`, `AdvancesOnce` | `[]OneGuardPerLock`, `[]FindingsStayTrue`, `[]AdvancedOnce` (with the types) |
| | `BufferFit`, `OneTooFew` | the arithmetic of `CacheLine` |

Every row but the last reads `Spec => ...` (`DASpec` for the dynamic allocator).

**Assumptions.** Each stands, named, in the module that declares the constant.
`Size` is positive (the layout requires a power of two, lines 49 and 128); the
bounds are naturals; the consumer is not a producer; the values that stand for
"no item", "no ticket", "no ring", "no chunk", "no name", "nobody" and "no lock"
are none of the real ones; the sets of aligned cells, packed cells and table
entries are disjoint; the first process is one of the processes, and so is the
one that makes the manager; the sizes asked for are positive (an entry of size 0
is one never used); `SpuriousFailure` is Boolean. Two modules need more:
in `LowCas` there are finitely many producers, because the bound on the consumer
counts them, and in `RingOwners` finitely many variables, because the owners
that would still give a consumer are counted. The processes of the two allocators may be infinitely many: the proofs
show that those counted at any moment are finitely many.

### 6.1 Three-pointer ring

`NoCellRace` needs to know which indices may be in use at once, and
`FifoDelivery` what is in the cells:

1. `HeadsOrdered`: `read_head <= commit_head <= write_head <= read_head + Size`.
   That the last bound survives a claim is `ClaimBounded`: a producer decided
   on a `read_head` that can only have grown, and the CAS re-checks the
   `write_head` it decided on. This is why loading the two heads at different
   moments is harmless.
2. `TicketsOpen` and `TicketsDistinct`: a claimed index is held by one
   producer and lies in `commit_head .. write_head - 1`; the commit CAS
   compares against the producer's own index, so nobody publishes for another.
   A dead producer's index stays claimed, which is why the ring wedges and also
   why nothing else breaks.
3. The consumer's index lies in `read_head .. commit_head - 1`
   (`ConsumerPlace`), hence differs from every ticket; two open indices are
   less than `Size` apart, so by the lemma `SlotsDiffer` their cells differ.
   This gives `NoCellRace`, and that a store disturbs neither a published nor
   another stored cell.
4. `StoredIntact` carries the item from the store to the commit,
   `CommittedIntact` from the commit to the read, and `ConsumerPlace` from the
   copy to the return: `FifoDelivery`.
5. For the refinement, the commit CAS is `Put`, the advance of `read_head` is
   `Get`, and every other step leaves `Published` and the histories alone.

### 6.2 Simple ring

Each side's cache is its published head, or one more between touching the cell
and storing the head (`ProducerPlace`, `ConsumerPlace`), and what it has seen
of the other head is in the past (`SeenIsPast`); so the two sides are less than
`Size` apart and `NoCellRace` follows. For `ExactlyOnceUpToDeaths` the proof
calls an item *known* when it is in the ring, in the consumer's hand or
returned. `InOrder` says that these three lie in order.
`LostOnlyByDeaths` counts the items accepted and not known,
`RepeatedOnlyByDeaths` the places that hold an item known elsewhere, the one
that will be written again included: a death moves one unit from what a side
was about to do into one of the counts, and no other step changes them.
In the refinement the store of `write_head` is `Put` and the store of
`read_head` is `Get`; a replacement reloads its cache, which the channel does
not see.

### 6.3 Cell-lockable ring

`LocksTaken` (whoever is in a cell, or keeps its guard, set its lock word,
alone) gives `CellExclusive`. For `NothingLeftBehind` it is not enough to know
that the reader is still before an item or is visiting its cell: it could be
visiting the cell for a later ticket, and turn back at `write_head`. `Reached`
therefore says that a stored item is still to come, or that the consumer is on
its way to *that ticket*, unless a producer is still about to lower
`read_head`. What makes the loop of the fetch-min keep this is `TicketsTaken`:
a producer about to try its CAS expects a `read_head` beyond the predecessor of
its own ticket, so a success lowers it and a failure means somebody else has
changed it. `ReaderPlace` adds that `read_head` passes the consumer only through
its own `fetch_add`. In the refinement the store is `Put`, because `LocksTaken`
and the test for an empty cell make room, and clearing the cell is `Get`.

### 6.4 First optimisation

`read_head` only grows, so the room a producer saw stays (`RoomSeen`) and
`HeadsOrdered` holds even after an index was used twice. While `stale` is false
every full cell and every promised store belongs to one index between the heads
(`FullInWindow`, `PromisedInWindow`) and the items of one producer lie in order
there (`InOrder`); with `NothingLost`, what `read()` returns next is the
successor of what it returned last. This is the only theorem about an action.
The refinement does not need `~stale`: it rests on the locks and on
`ItemsApart`.

### 6.5 Low-CAS ring

Tickets are given back by `fetch_sub` in any order, so a ticket need not be
below `write_head`, and nothing orders the heads. What replaces the order is a
count: `TicketsKept` bounds `write_head` from below by the producers about to
give a ticket back, which keeps the `fetch_sub` above zero, and
`ReaderAheadBounded` bounds the reader from above by those that are not.
`Reached`, as in 6.3 but without the special ticket (the heads start at 1),
gives `NothingPassedOver`.

### 6.6 Owners

`IInv` speaks of one process at a time (`Sound`): each ring has one holder among
its variables, or several that are all `LockLessRingBufferInit` and unmap
nothing; the flags of an owner agree with the counts of ends this process knows
of; and only rings that were made are mapped. With copies no flag alone says how
many consumers there can be. What is inductive is the sum: consumers given, plus
owners that would still give one (`Willing`), are at most one more than the
copies made of such owners. Giving a consumer moves one unit within the sum, a
copy raises both sides, a move replaces an owner by another and a destruction
takes one away. Fork
copies all of it and exit clears it, so that both keep it; each other operation
is a lemma about the variables of its process alone.

### 6.7 One-time allocator

`ArcCountsOwners` and `OwnedIsMapped` need each other: a chunk is unmapped when
its count says that this was the last handle, and the count is the number of
handles only if none of them pointed to something unmapped. `IInv` adds that
nobody has a chunk that `mmap` has not returned yet. Each operation adds one
place to, or removes one from, the set of owners of one chunk (`Gain`, `Move`,
`Drop` lemmas); assignment first drops and then gains, also when both sides
name the same chunk.

The attempt to prove `Fork` showed what the class rests on. It tells its own
handles from inherited ones by the pid alone. A new child may therefore not get
the pid of an ended process that a live handle still names: such a child would
take that inherited handle for its own, and lower a count nobody raised for it.
With that guard left out, TLC finds the violation with three processes. The
guard is in `Fork`; the kernel does not promise it, though it hands out pids in
a circle.

### 6.8 Dynamic allocator

The properties lean on each other, and on what a process is about to do when it
has let go of the table; `DAInv` is their conjunction with what they need:

1. `RefsRight` is `RefsCountHolders` with the holders finitely many, so that one
   joining or leaving moves the count by one. It needs `EntriesApart` (a name
   has at most one entry, so that `Cell` finds the only one) and, because the
   holder who joins must be new, `CallsKnown`: what an idle process was given is
   in its private map, which is what `allocate` looks at first.
2. `SegmentsAccounted` follows: the segment of a name is unlinked at a count of
   one, which is when nobody else holds it. A segment made with the table full
   has no entry, and neither `deallocate` nor `destroy_entries` finds it
   (`OrphansStay`). A death inside a section may leave one more (`torn`), and
   only one, because it leaves the lock taken for good (`lost`), so that no
   section and no destruction of the table comes after it. While the table is
   destroyed, `scanned` says how far that has come.
3. `SharedSegment` is about mappings made after the lock was dropped. `Pending`
   says of a process between its section and its `mmap` that the segment it
   will map is still the one linked under the name: it is counted already, so
   that by 1 and 2 nobody unlinks it. What is linked when the table is destroyed
   concerns only processes that do not keep the table (4).
4. `TableOutlivesOwners` needs `OwnersCounted`: the table's count is the number
   of managers and allocators made by the process that has them, those of dead
   processes included. That a child inherits no ownership is `Unborn`: nothing
   that anybody has names a process that was not forked yet. A count of one
   before the last owner leaves means that both sets are empty afterwards, and
   who comes later is recorded (`NoOwnerLeft`).
5. `MappedWithinSegment` needs `EntriesFit` (the segment is made long enough
   before the lock is dropped, which is said as long as somebody can take the
   lock: a death may leave the size of a new segment in an entry with an old
   name) and that segments only grow; what `check` looked
   up stays true for the same two reasons (`Pending`).

Names handed out without being counted (`uncounted`) are outside 1 to 3, but not
outside `EntriesApart`, `EntriesFit` and `OrphansStay`, which is why they spoil
no other name.

### 6.9 Guards and cells

A guard is in a *spot*: a variable of a thread, or its hand while it is made or
destroyed. `Lone` says that each lock is guarded from one spot exactly if it is
held and not leaked; every action changes the spots of one lock by taking,
moving, dropping, leaking or loosening (one lemma each). `HandFits` says which
kind of guard is at hand at which point of the code. From these follows
`FindingsStayTrue`, as only who is in a cell changes it. For `AdvancedOnce` the
guards wrapped are those that still wrap, those unwrapping, and those that have
advanced `read_head`.

`BufferFit` holds for every size and alignment `CacheLineSlot` accepts and every
header below 32 bytes: the subtraction does not wrap, the elements fit, and at
most one more would. `OneTooFew` says that this is tight: a type of 63 bytes
fits once and is given no room. The argument is that the expected first element
lies between the real one and one alignment unit after it (`OffsetBounds`).

### 6.10 Only model-checked

* The liveness properties: `StallOnlyFromAbandonedTicket`, `AllDrained`,
  `LaterItemsRead`, `DrainedUnlessStale`, and the fairness half of
  `RefinesChannel`. Liveness under fairness and `ENABLED` are beyond the provers
  used.
* What a recursive definition computes for every input would be out of reach
  too; no module here needs recursion.

## 7. Not modelled

* **Class extensions**: instantiated nowhere, and their operations are private
  members of a class, so that nothing could call them.
* **Concepts, tracing, entry point, dynamic ring stub, tests, scripts**: no
  state or no operations that run.
* **Widths of the heads** in all rings but the cell-lockable one.
* **Two processes with a consumer each**: the flag of an owner is private to a
  process, so that a fork before `create_consumer` lets both have one (the tests
  fork the reader before it asks). `consumers` counts what a process knows of,
  and no property sums over processes. Nor are copies counted that a caller
  makes of a consumer it got, as the example in
  `static_lockless_ring_buffer.hpp` does of the optional's value.
* **A word half written by a death**: every write to the table is whole or not
  there; of the name, which is written byte by byte, see section 3.
* **Moving or assigning a manager** of the dynamic allocator
  (`distributed_dynamic_allocator.hpp:238-257`): nothing in the repository does.
* **Using or assigning to a guard that was moved from** dereferences a null
  pointer; **assigning a wrapper** (`guards.hpp:181`) does not compile for
  `ReaderDataGuard`, which holds a reference.
* **What a caller does with `MAP_FAILED`**, or with the address it gets for a
  name it gave back: the steps are modelled, the access is not.
* **The ends after their owner is gone**: they hold plain pointers and dangle
  (`static_memctrl_lockless_ring_buffer.hpp:197`).
* **Torn copies**: a copy made while somebody else is in the cell is not given
  a value; the invariants say whether it can happen.

## 8. Plan

Done, in this order: `ThreePointer` with `BoundedQueue` and its proofs,
`SimpleRing`, `CellLockable` with `UnorderedPool`, `OneTimeAllocator`, `LowCas`,
`DynamicAllocator`, `CellOpt1`, `RingOwners`; then the guards of `read_lock` in
`CellLockable`, the manager and the second calls in `DynamicAllocator`,
`LockGuards`, `CacheLine`; then the proofs about every component, the dynamic
allocator last.

Left to model: the wrap of the heads (`SimpleRing` and `CellOpt1` over indices
modulo a small width, refining themselves over naturals), and the ends together
with their owner, a composition of `RingOwners` and `OneTimeAllocator`. Left to
prove is nothing that the runs check and that the provers can reach.
