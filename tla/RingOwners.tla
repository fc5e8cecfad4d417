----------------------------- MODULE RingOwners -----------------------------
(***************************************************************************)
(* The objects that own a ring and hand out its two ends, in processes     *)
(* that fork:                                                              *)
(*   "mem_init"  LockLessRingBufferMemInit                                 *)
(*               (src/src/static_memctrl_lockless_ring_buffer.hpp) and     *)
(*   "low_cas"   LockLessRingBufferLowCAS                                  *)
(*               (src/src/static_lowcas_lockless_ring_buffer.hpp), which   *)
(*               map the ring and unmap it when they are destroyed;        *)
(*   "init"      LockLessRingBufferInit                                    *)
(*               (src/src/static_lockless_ring_buffer.hpp), over memory of *)
(*               its caller's, with a flag the constructor leaves          *)
(*               uninitialised and with the copy operations that a class   *)
(*               has when it declares none;                                *)
(*   "scmp"      Buffer (src/src/buffer/buffer.hpp) with the factories of  *)
(*               src/src/buffer/scmp.hpp: one consumer, any producers;     *)
(*   "scsp"      Buffer with the factories of src/src/buffer/scsp.hpp: one *)
(*               of each.                                                  *)
(* How long a Buffer's ring stays mapped is the allocator's affair: see    *)
(* OneTimeAllocator.                                                       *)
(*                                                                         *)
(* Operators that Next does not use and whose name extends that of the     *)
(* action after them are plausible bugs of that action, kept to test the   *)
(* properties.                                                             *)
(***************************************************************************)
EXTENDS Naturals, FiniteSets

CONSTANTS
    Procs,       \* the processes
    First,       \* the one that runs from the start
    Vars,        \* the program's variables that hold an owner
    Rings,       \* the rings there can be; also a bound on their number
    Null,        \* the pointers of an owner that was moved from
    MaxCopies    \* bound: copies of the owners of a ring that count in copies

ASSUME OwnersFirstAssumption == First \in Procs
ASSUME OwnersVarsAssumption == IsFiniteSet(Vars)
ASSUME OwnersNullAssumption == Null \notin Rings
ASSUME OwnersCopiesAssumption == MaxCopies \in Nat

Mappers == {"mem_init", "low_cas"}
Buffers == {"scmp", "scsp"}
Kinds == Mappers \cup Buffers \cup {"init"}

Owners == [kind : Kinds, ring : Rings \cup {Null},
           reader_done : BOOLEAN, writer_done : BOOLEAN]
NoOwner == [kind |-> "none", ring |-> Null, reader_done |-> FALSE, writer_done |-> FALSE]

VARIABLES
    running,     \* the processes that run
    owner,       \* owner[p][v]: the owner in variable v of p, or NoOwner
    mapped,      \* mapped[p]: the rings that owners of p have mapped
    consumers,   \* history: consumers[p][r], the consumers of r that p, or one
                 \* that p was forked from before the fork, has got
    producers,   \* history: likewise the producers of a ring of scsp
    copies,      \* history: likewise the copies made of "init" owners of r that
                 \* had not handed out its consumer
    made         \* the rings made so far

ends == <<consumers, producers, copies>>
vars == <<running, owner, mapped, ends, made>>

(* Every process that runs has its own copy of each of these *)
Init ==
    /\ running = {First}
    /\ owner = [p \in Procs |-> [v \in Vars |-> NoOwner]]
    /\ mapped = [p \in Procs |-> {}]
    /\ consumers = [p \in Procs |-> [r \in Rings |-> 0]]
    /\ producers = [p \in Procs |-> [r \in Rings |-> 0]]
    /\ copies = [p \in Procs |-> [r \in Rings |-> 0]]
    /\ made = {}

Live(p, v) == p \in running /\ owner[p][v] # NoOwner
Put(p, v, o) == owner' = [owner EXCEPT ![p][v] = o]

-----------------------------------------------------------------------------
New(kind, r, flag) ==
    [kind |-> kind, ring |-> r, reader_done |-> flag, writer_done |-> FALSE]

(* create(): mmap succeeds, the constructor runs, the local is moved out;  *)
(* when mmap fails nothing is made                                         *)
CreateMemInit(p, v, r) ==
    /\ Put(p, v, New("mem_init", r, FALSE))
    /\ mapped' = [mapped EXCEPT ![p] = @ \cup {r}]

CreateLowCas(p, v, r) ==
    /\ Put(p, v, New("low_cas", r, FALSE))
    /\ mapped' = [mapped EXCEPT ![p] = @ \cup {r}]

(* LockLessRingBufferInit: reader_done is what was in memory *)
ConstructInit(p, v, r) ==
    /\ \E flag \in BOOLEAN : Put(p, v, New("init", r, flag))
    /\ UNCHANGED mapped

(* Buffer(): the layout and the two factories with their copies of it *)
ConstructBuffer(p, v, r) ==
    /\ \E kind \in Buffers : Put(p, v, New(kind, r, FALSE))
    /\ UNCHANGED mapped

Create(p, v) ==
    /\ p \in running /\ owner[p][v] = NoOwner
    /\ \E r \in Rings \ made :
        /\ made' = made \cup {r}
        /\ \/ CreateMemInit(p, v, r) \/ CreateLowCas(p, v, r)
           \/ ConstructInit(p, v, r) \/ ConstructBuffer(p, v, r)
    /\ UNCHANGED <<running, ends>>

-----------------------------------------------------------------------------
(* The flag is set and the consumer made, with the pointers of the owner:  *)
(* null ones if it was moved from                                          *)
GiveConsumer(p, v) ==
    /\ ~owner[p][v].reader_done
    /\ Put(p, v, [owner[p][v] EXCEPT !.reader_done = TRUE])
    /\ consumers' = [consumers EXCEPT ![p] =
                       [r \in Rings |-> @[r] + IF r = owner[p][v].ring THEN 1 ELSE 0]]
    /\ UNCHANGED <<running, mapped, producers, copies, made>>

(* create_consumer() of the owners that hold the pointers themselves *)
CreateConsumer(p, v) ==
    /\ Live(p, v) /\ owner[p][v].kind \notin Buffers
    /\ GiveConsumer(p, v)

(* Buffer::create_consumer(), ConsumerFactory::create().  The constructor  *)
(* of the simple ring's consumer reads the heads, so that a moved-from     *)
(* Buffer of scsp cannot be asked.                                         *)
CreateFromFactory(p, v) ==
    /\ Live(p, v) /\ owner[p][v].kind \in Buffers
    /\ owner[p][v].ring = Null => owner[p][v].kind # "scsp"
    /\ GiveConsumer(p, v)

(* ProducerFactory::create() of scsp.  The other kinds make producers      *)
(* without limit, keep no record of them, and are left out.                *)
CreateProducerOfAny(p, v) ==
    /\ Live(p, v) /\ owner[p][v].ring # Null /\ ~owner[p][v].writer_done
    /\ Put(p, v, [owner[p][v] EXCEPT !.writer_done = TRUE])
    /\ producers' = [producers EXCEPT ![p][owner[p][v].ring] = @ + 1]
    /\ UNCHANGED <<running, mapped, consumers, copies, made>>
CreateProducer(p, v) ==
    /\ Live(p, v) /\ owner[p][v].kind = "scsp"
    /\ owner[p][v].ring # Null /\ ~owner[p][v].writer_done
    /\ Put(p, v, [owner[p][v] EXCEPT !.writer_done = TRUE])
    /\ producers' = [producers EXCEPT ![p][owner[p][v].ring] = @ + 1]
    /\ UNCHANGED <<running, mapped, consumers, copies, made>>

-----------------------------------------------------------------------------
(* Move construction of to from v: the flags are copied, the pointers of v *)
(* become null and its flags stay                                          *)
MoveKeepingPointers(p, v, to) ==
    /\ Live(p, v) /\ owner[p][to] = NoOwner /\ owner[p][v].kind # "init"
    /\ Put(p, to, owner[p][v])
    /\ UNCHANGED <<running, mapped, ends, made>>
MoveWithFreshFlags(p, v, to) ==
    /\ Live(p, v) /\ owner[p][to] = NoOwner /\ owner[p][v].kind # "init"
    /\ owner' = [owner EXCEPT
           ![p][to] = [owner[p][v] EXCEPT !.reader_done = FALSE, !.writer_done = FALSE],
           ![p][v].ring = Null]
    /\ UNCHANGED <<running, mapped, ends, made>>
Move(p, v, to) ==
    /\ Live(p, v) /\ owner[p][to] = NoOwner /\ owner[p][v].kind # "init"
    /\ owner' = [owner EXCEPT ![p][to] = owner[p][v], ![p][v].ring = Null]
    /\ UNCHANGED <<running, mapped, ends, made>>

(* Move assignment: only Buffer has it, by default, between buffers of one *)
(* type and not to itself; the factories of to take over the flags of v    *)
MoveAssign(p, v, to) ==
    /\ Live(p, v) /\ Live(p, to) /\ v # to
    /\ owner[p][v].kind \in Buffers /\ owner[p][to].kind = owner[p][v].kind
    /\ owner' = [owner EXCEPT ![p][to] = owner[p][v], ![p][v].ring = Null]
    /\ UNCHANGED <<running, mapped, ends, made>>

(* Only LockLessRingBufferInit can be copied, and it has no move           *)
(* operations: copy construction, copy assignment over another owner of    *)
(* its type, and what std::move of one does.  Both hold the ring           *)
(* afterwards, each with a flag of its own.                                *)
Copy(p, v, to) ==
    /\ Live(p, v) /\ owner[p][v].kind = "init"
    /\ v # to /\ owner[p][to].kind \in {"none", "init"}
    /\ Put(p, to, owner[p][v])
    /\ IF owner[p][v].reader_done
       THEN UNCHANGED copies
       ELSE /\ copies[p][owner[p][v].ring] < MaxCopies
            /\ copies' = [copies EXCEPT ![p][owner[p][v].ring] = @ + 1]
    /\ UNCHANGED <<running, mapped, consumers, producers, made>>

(* The destructors: a mapper unmaps the ring it still points to, in the    *)
(* process that runs it and there only                                     *)
Destroy(p, v) ==
    /\ Live(p, v)
    /\ Put(p, v, NoOwner)
    /\ mapped' = [mapped EXCEPT
           ![p] = IF owner[p][v].kind \in Mappers THEN @ \ {owner[p][v].ring} ELSE @]
    /\ UNCHANGED <<running, ends, made>>

(* fork(): the child q has a copy of everything *)
Fork(p, q) ==
    /\ p \in running /\ q \notin running
    /\ running' = running \cup {q}
    /\ owner' = [owner EXCEPT ![q] = owner[p]]
    /\ mapped' = [mapped EXCEPT ![q] = mapped[p]]
    /\ consumers' = [consumers EXCEPT ![q] = consumers[p]]
    /\ producers' = [producers EXCEPT ![q] = producers[p]]
    /\ copies' = [copies EXCEPT ![q] = copies[p]]
    /\ UNCHANGED made

(* A process ends, by exit() or by a signal: no destructor runs *)
Exit(p) ==
    /\ p \in running
    /\ running' = running \ {p}
    /\ owner' = [owner EXCEPT ![p] = [v \in Vars |-> NoOwner]]
    /\ mapped' = [mapped EXCEPT ![p] = {}]
    /\ consumers' = [consumers EXCEPT ![p] = [r \in Rings |-> 0]]
    /\ producers' = [producers EXCEPT ![p] = [r \in Rings |-> 0]]
    /\ copies' = [copies EXCEPT ![p] = [r \in Rings |-> 0]]
    /\ UNCHANGED made

Next ==
    \E p \in Procs :
        \/ \E v \in Vars : Create(p, v) \/ CreateConsumer(p, v) \/ CreateFromFactory(p, v)
                               \/ CreateProducer(p, v) \/ Destroy(p, v)
        \/ \E v, to \in Vars : Move(p, v, to) \/ MoveAssign(p, v, to) \/ Copy(p, v, to)
        \/ \E q \in Procs : Fork(p, q)
        \/ Exit(p)

Spec == Init /\ [][Next]_vars

-----------------------------------------------------------------------------
(* Type invariant: only rings that were made are mapped or handed out, and *)
(* only scsp limits its producers.                                         *)
TypeOK ==
    /\ running \in SUBSET Procs
    /\ owner \in [Procs -> [Vars -> Owners \cup {NoOwner}]]
    /\ \A p \in Procs, v \in Vars : owner[p][v].writer_done => owner[p][v].kind = "scsp"
    /\ mapped \in [Procs -> SUBSET made]
    /\ consumers \in [Procs -> [Rings -> Nat]]
    /\ producers \in [Procs -> [Rings -> Nat]]
    /\ copies \in [Procs -> [Rings -> 0..MaxCopies]]
    /\ made \in SUBSET Rings

(* The flag follows the ring: however often an owner was moved, assigned   *)
(* or copied by fork, it refuses a consumer exactly if its process, or one *)
(* that process was forked from before, already got one.  Only an owner of *)
(* kind "init" may err: it may refuse the first one for what its flag was  *)
(* in memory, and it may give another one if it or its like was copied     *)
(* while the flag was unset.                                               *)
FlagFollowsRing ==
    \A p \in running, v \in Vars :
        LET o == owner[p][v] IN
        o.ring # Null =>
            /\ consumers[p][o.ring] > 0 /\ ~o.reader_done
                  => o.kind = "init" /\ copies[p][o.ring] > 0
            /\ o.reader_done => o.kind = "init" \/ consumers[p][o.ring] > 0

(* The variables among o whose owner holds r and would give its consumer *)
Willing(o, r) == {v \in Vars : o[v].ring = r /\ ~o[v].reader_done}

(* "Only one consumer can be created" (static_memctrl_lockless_ring_buffer *)
(* .hpp:65, scmp.hpp:15-16), and of scsp.hpp only one producer, seen from  *)
(* each process: with the owners that would give one counted in, it has    *)
(* one consumer at most, and one more for every copy of an "init" owner    *)
(* made before that owner gave its own.  No other kind of owner adds to    *)
(* it, whatever moves and forks there were.  Two processes can still get   *)
(* one each.                                                               *)
NoSecondEnd ==
    \A p \in running :
        /\ \A r \in Rings : consumers[p][r] + Cardinality(Willing(owner[p], r)) <= 1 + copies[p][r]
        /\ \A v \in Vars :
            owner[p][v].kind = "scsp" /\ owner[p][v].ring # Null
                => producers[p][owner[p][v].ring] <= 1

OwnersOf(p, r) == {v \in Vars : owner[p][v].kind \in Mappers /\ owner[p][v].ring = r}

(* In every process a ring is mapped exactly as long as one owner there    *)
(* will unmap it: nothing is unmapped twice, early or never.               *)
MappedByOneOwner ==
    \A p \in running, r \in Rings :
        Cardinality(OwnersOf(p, r)) = IF r \in mapped[p] THEN 1 ELSE 0
=============================================================================
