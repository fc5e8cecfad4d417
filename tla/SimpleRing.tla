----------------------------- MODULE SimpleRing -----------------------------
(***************************************************************************)
(* The single-producer single-consumer ring                                *)
(* (src/src/buffer/ring/simple_approach.hpp).  Each side keeps its own     *)
(* head in a private cache and publishes it by a plain store, so that only *)
(* one process ever writes each head.  A side that dies is replaced by one *)
(* whose constructor reloads the cache from shared memory; the caller that *)
(* starts it goes on from the last call it saw return.                     *)
(*                                                                         *)
(* One action is one access to shared memory with the local code after it; *)
(* the return to the caller is a step of its own, because a death just     *)
(* before it is what a caller cannot tell from a death just after.         *)
(* Operators that Next does not use and whose name extends that of the     *)
(* action after them are plausible bugs of that action, kept to test the   *)
(* properties.                                                             *)
(***************************************************************************)
EXTENDS Naturals, Sequences, FiniteSets

CONSTANTS
    Size,        \* Layout::size
    MaxWrites,   \* bound: how many items the caller of write() has
    MaxDeaths,   \* bound: deaths of each side
    NoItem       \* content of a cell never written, and of an unset local

ASSUME SimpleSizeAssumption == Size \in Nat \ {0}
ASSUME SimpleBoundAssumption == MaxWrites \in Nat /\ MaxDeaths \in Nat
ASSUME SimpleNoItemAssumption == NoItem \notin Nat

Sides == {"producer", "consumer"}

VARIABLES
    write_head, read_head,   \* the two shared heads
    array,                   \* the shared cells; items are 1, 2, 3, ...
    pc,                      \* pc[s]: where side s is; "dead" when it died
    w_h_cache, r_h_cache,    \* the private caches
    seen,                    \* seen[s]: the other side's head, as s loaded it
    output,                  \* the consumer's local of the same name
    accepted,                \* history: how many items write() returned true for
    received,                \* history: the items read() returned
    deaths                   \* deaths[s]: how often side s died

shared == <<write_head, read_head, array>>
private == <<w_h_cache, r_h_cache, seen, output>>
history == <<accepted, received, deaths>>
vars == <<shared, pc, private, history>>

Slot(i) == i % Size

Init ==
    /\ write_head = 0 /\ read_head = 0
    /\ array = [s \in 0 .. Size - 1 |-> NoItem]
    /\ pc = [s \in Sides |-> "idle"]
    /\ w_h_cache = 0 /\ r_h_cache = 0
    /\ seen = [s \in Sides |-> 0]
    /\ output = NoItem
    /\ accepted = 0 /\ received = << >>
    /\ deaths = [s \in Sides |-> 0]

Step(s, from, to) == pc[s] = from /\ pc' = [pc EXCEPT ![s] = to]

-----------------------------------------------------------------------------
(* Producer::write *)

(* read_head.load *)
LoadReadHead ==
    /\ Step("producer", "idle", "look")
    /\ accepted < MaxWrites
    /\ seen' = [seen EXCEPT !["producer"] = read_head]
    /\ UNCHANGED <<shared, w_h_cache, r_h_cache, output, history>>

(* w_h_cache >= size + r_h: return false *)
ReportFull ==
    /\ Step("producer", "look", "idle")
    /\ w_h_cache >= Size + seen["producer"]
    /\ UNCHANGED <<shared, private, history>>

SeeRoomOffByOne ==
    /\ Step("producer", "look", "store")
    /\ w_h_cache <= Size + seen["producer"]
    /\ UNCHANGED <<shared, private, history>>
SeeRoom ==
    /\ Step("producer", "look", "store")
    /\ w_h_cache < Size + seen["producer"]
    /\ UNCHANGED <<shared, private, history>>

(* mem_layout[w_h_cache] = item; w_h_cache++ *)
StoreItem ==
    /\ Step("producer", "store", "stored")
    /\ array' = [array EXCEPT ![Slot(w_h_cache)] = accepted + 1]
    /\ w_h_cache' = w_h_cache + 1
    /\ UNCHANGED <<write_head, read_head, r_h_cache, seen, output, history>>

(* write_head.store(w_h_cache) *)
PublishWriteHead ==
    /\ Step("producer", "stored", "done")
    /\ write_head' = w_h_cache
    /\ UNCHANGED <<read_head, array, private, history>>

(* return true *)
ReturnTrue ==
    /\ Step("producer", "done", "idle")
    /\ accepted' = accepted + 1
    /\ UNCHANGED <<shared, private, received, deaths>>

Write == LoadReadHead \/ ReportFull \/ SeeRoom \/ StoreItem \/ PublishWriteHead \/ ReturnTrue

-----------------------------------------------------------------------------
(* Consumer::read *)

(* write_head.load *)
LoadWriteHead ==
    /\ Step("consumer", "idle", "look")
    /\ seen' = [seen EXCEPT !["consumer"] = write_head]
    /\ UNCHANGED <<shared, w_h_cache, r_h_cache, output, history>>

(* r_h_cache >= w_h: return nullopt *)
ReportEmptyLeavingOne ==
    /\ Step("consumer", "look", "idle")
    /\ r_h_cache + 1 >= seen["consumer"]
    /\ UNCHANGED <<shared, private, history>>
ReportEmpty ==
    /\ Step("consumer", "look", "idle")
    /\ r_h_cache >= seen["consumer"]
    /\ UNCHANGED <<shared, private, history>>

SeeItemOffByOne ==
    /\ Step("consumer", "look", "fetch")
    /\ r_h_cache <= seen["consumer"]
    /\ UNCHANGED <<shared, private, history>>
SeeItem ==
    /\ Step("consumer", "look", "fetch")
    /\ r_h_cache < seen["consumer"]
    /\ UNCHANGED <<shared, private, history>>

(* output = mem_layout[r_h_cache]; r_h_cache++ *)
FetchItem ==
    /\ Step("consumer", "fetch", "fetched")
    /\ output' = array[Slot(r_h_cache)]
    /\ r_h_cache' = r_h_cache + 1
    /\ UNCHANGED <<shared, w_h_cache, seen, history>>

(* read_head.store(r_h_cache) *)
PublishReadHead ==
    /\ Step("consumer", "fetched", "done")
    /\ read_head' = r_h_cache
    /\ UNCHANGED <<write_head, array, private, history>>

(* return output *)
ReturnItem ==
    /\ Step("consumer", "done", "idle")
    /\ received' = Append(received, output)
    /\ output' = NoItem
    /\ UNCHANGED <<shared, w_h_cache, r_h_cache, seen, accepted, deaths>>

Read == LoadWriteHead \/ ReportEmpty \/ SeeItem \/ FetchItem \/ PublishReadHead \/ ReturnItem

-----------------------------------------------------------------------------
(* A side dies anywhere in its call; its private variables die with it *)
Die(s) ==
    /\ pc[s] # "dead" /\ deaths[s] < MaxDeaths
    /\ pc' = [pc EXCEPT ![s] = "dead"]
    /\ deaths' = [deaths EXCEPT ![s] = @ + 1]
    /\ seen' = [seen EXCEPT ![s] = 0]
    /\ output' = IF s = "consumer" THEN NoItem ELSE output
    /\ UNCHANGED <<shared, w_h_cache, r_h_cache, accepted, received>>

(* Producer(Layout): the cache starts from the published head *)
AttachProducerBlank ==
    /\ Step("producer", "dead", "idle")
    /\ w_h_cache' = 0
    /\ UNCHANGED <<shared, r_h_cache, seen, output, history>>
AttachProducer ==
    /\ Step("producer", "dead", "idle")
    /\ w_h_cache' = write_head
    /\ UNCHANGED <<shared, r_h_cache, seen, output, history>>

(* Consumer(Layout) *)
AttachConsumerBlank ==
    /\ Step("consumer", "dead", "idle")
    /\ r_h_cache' = 0
    /\ UNCHANGED <<shared, w_h_cache, seen, output, history>>
AttachConsumer ==
    /\ Step("consumer", "dead", "idle")
    /\ r_h_cache' = read_head
    /\ UNCHANGED <<shared, w_h_cache, seen, output, history>>

Next ==
    \/ Write \/ Read
    \/ AttachProducer \/ AttachConsumer
    \/ \E s \in Sides : Die(s)

Spec == Init /\ [][Next]_vars

(* Both sides are scheduled and call again after a refusal; a side that    *)
(* died is replaced (the liveness runs say what happens then).             *)
FairSpec ==
    /\ Spec
    /\ WF_vars(Write) /\ WF_vars(Read)
    /\ WF_vars(AttachProducer) /\ WF_vars(AttachConsumer)

-----------------------------------------------------------------------------
(* Type invariant: in particular read() returns items, never the content   *)
(* of an untouched cell.                                                   *)
TypeOK ==
    /\ write_head \in Nat /\ read_head \in Nat
    /\ array \in [0 .. Size - 1 -> Nat \cup {NoItem}]
    /\ pc \in [Sides -> {"idle", "look", "store", "stored", "fetch", "fetched",
                          "done", "dead"}]
    /\ w_h_cache \in Nat /\ r_h_cache \in Nat
    /\ seen \in [Sides -> Nat]
    /\ output \in Nat \cup {NoItem}
    /\ accepted \in Nat /\ received \in Seq(Nat)
    /\ deaths \in [Sides -> Nat]

(* The producer about to store and the consumer about to copy are in       *)
(* different cells, although each decided on a head of the other that may  *)
(* since have moved and on a cache that may have been reloaded after a     *)
(* death.                                                                  *)
NoCellRace ==
    pc["producer"] = "store" /\ pc["consumer"] = "fetch"
        => Slot(w_h_cache) # Slot(r_h_cache)

InRing == {array[Slot(i)] : i \in read_head .. write_head - 1}
InHand == IF pc["consumer"] = "done" THEN {output} ELSE {}
Delivered == {received[i] : i \in 1 .. Len(received)}

(* Exactly once, up to deaths: items come out in order; an item write()    *)
(* returned true for is in the ring, in the hand of the consumer or        *)
(* returned by read(), except at most one per death of the consumer; and   *)
(* at most one item per death of the producer is returned again.           *)
ExactlyOnceUpToDeaths ==
    /\ \A i, j \in 1 .. Len(received) : i < j => received[i] <= received[j]
    /\ Cardinality((1 .. accepted) \ (InRing \cup InHand \cup Delivered)) <= deaths["consumer"]
    /\ Len(received) - Cardinality(Delivered) <= deaths["producer"]

(* Refinement: whatever dies and is replaced, the cells between the heads  *)
(* are a bounded channel: they change only by an item joining at the back  *)
(* or leaving at the front, and what is published is taken out in the end. *)
Contents == [i \in 1 .. write_head - read_head |-> array[Slot(read_head + i - 1)]]

Channel == INSTANCE BoundedChannel WITH Items <- 1 .. MaxWrites, queue <- Contents

RefinesChannel == Channel!FairSpec

(* Deaths never wedge the ring: with both sides replaced, the caller of    *)
(* write() gets rid of all its items and the consumer empties the ring.    *)
AllDrained == <>[](accepted = MaxWrites /\ read_head = write_head)
=============================================================================
