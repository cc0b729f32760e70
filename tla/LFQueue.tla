------------------------------- MODULE LFQueue -------------------------------
(***************************************************************************)
(* Common::LFQueue, one step per access to shared memory.  Every queue of  *)
(* the engine is used the same way: a producer takes the address of the    *)
(* next slot, copies an element there and calls updateWriteIndex; the one  *)
(* consumer takes the address of the next element, uses it and calls       *)
(* updateReadIndex.                                                        *)
(***************************************************************************)
EXTENDS Naturals, Sequences

CONSTANTS
  Producer,     \* the threads that write to this queue
  Size,         \* store_.size()
  MaxWrites,    \* bound: how often each producer writes
  Empty         \* T(), what the vector is filled with

ASSUME QueueAssumption == Size \in Nat \ {0} /\ MaxWrites \in Nat

VARIABLES
  store, next_write_index, next_read_index, num_elements,
  pc,           \* where each producer is
  slot,         \* the slot a producer was given
  loaded,       \* next_write_index_ as a producer read it for the increment
  written,      \* how many elements each producer has started to write
  rpc,          \* where the consumer is
  published,    \* history: the elements counted in, in that order
  consumed,     \* history: the elements the consumer used
  overrun       \* history: a write started while all slots were taken

writeVars == <<store, next_write_index, pc, slot, loaded, written, published, overrun>>
readVars == <<next_read_index, rpc, consumed>>
vars == <<writeVars, readVars, num_elements>>

Index == 0 .. (Size - 1)

\* Mutant: the index is not wrapped.
SucNoWrap(i) == i + 1

\* The index after i.
Suc(i) == (i + 1) % Size

Element(p) == <<p, written[p]>>

Init ==
  /\ store = [i \in Index |-> Empty]
  /\ next_write_index = 0 /\ next_read_index = 0 /\ num_elements = 0
  /\ pc = [p \in Producer |-> "idle"]
  /\ slot = [p \in Producer |-> 0]
  /\ loaded = [p \in Producer |-> 0]
  /\ written = [p \in Producer |-> 0]
  /\ rpc = "idle"
  /\ published = <<>> /\ consumed = <<>>
  /\ overrun = FALSE

\* Mutant: the slot after the next one.
SlotAfterNext == Suc(next_write_index)

NextSlot == next_write_index

\* No test whether the slot is free.
getNextToWriteTo(p) ==
  /\ pc[p] = "idle" /\ written[p] < MaxWrites
  /\ slot' = [slot EXCEPT ![p] = NextSlot]
  /\ written' = [written EXCEPT ![p] = @ + 1]
  /\ pc' = [pc EXCEPT ![p] = "copy"]
  /\ overrun' = (overrun \/ num_elements >= Size)
  /\ UNCHANGED <<store, next_write_index, loaded, published, readVars, num_elements>>

copyElement(p) ==
  /\ pc[p] = "copy"
  /\ store' = [store EXCEPT ![slot[p]] = Element(p)]
  /\ pc' = [pc EXCEPT ![p] = "load"]
  /\ UNCHANGED <<next_write_index, slot, loaded, written, published, overrun, readVars, num_elements>>

\* updateWriteIndex: an atomic load, an atomic store, an atomic increment.
loadWriteIndex(p) ==
  /\ pc[p] = "load"
  /\ loaded' = [loaded EXCEPT ![p] = next_write_index]
  /\ pc' = [pc EXCEPT ![p] = "store"]
  /\ UNCHANGED <<store, next_write_index, slot, written, published, overrun, readVars, num_elements>>

storeWriteIndex(p) ==
  /\ pc[p] = "store"
  /\ next_write_index' = Suc(loaded[p])
  /\ pc' = [pc EXCEPT ![p] = "count"]
  /\ UNCHANGED <<store, slot, loaded, written, published, overrun, readVars, num_elements>>

\* Mutant: num_elements_ is not incremented.
NotCounted == num_elements

CountedIn == num_elements + 1

countWrite(p) ==
  /\ pc[p] = "count"
  /\ num_elements' = CountedIn
  /\ pc' = [pc EXCEPT ![p] = "idle"]
  /\ published' = Append(published, Element(p))
  /\ UNCHANGED <<store, next_write_index, slot, loaded, written, overrun, readVars>>

\* Mutant: no test for an empty queue.
AlwaysReadable == TRUE

Readable == num_elements # 0

\* A pointer to the element, or nullptr and another try.
getNextToRead ==
  /\ rpc = "idle" /\ Readable
  /\ rpc' = "use"
  /\ UNCHANGED <<writeVars, next_read_index, consumed, num_elements>>

\* Mutant: the index is advanced before the element is used.
ElementAfter == store[Suc(next_read_index)]

NextElement == store[next_read_index]

useElement ==
  /\ rpc = "use"
  /\ consumed' = Append(consumed, NextElement)
  /\ rpc' = "advance"
  /\ UNCHANGED <<writeVars, next_read_index, num_elements>>

\* updateReadIndex, with its ASSERT between the two parts.
advanceReadIndex ==
  /\ rpc = "advance"
  /\ next_read_index' = Suc(next_read_index)
  /\ rpc' = "count"
  /\ UNCHANGED <<writeVars, consumed, num_elements>>

countRead ==
  /\ rpc = "count" /\ num_elements # 0
  /\ num_elements' = num_elements - 1
  /\ rpc' = "idle"
  /\ UNCHANGED <<writeVars, next_read_index, consumed>>

Produce(p) ==
  \/ getNextToWriteTo(p) \/ copyElement(p)
  \/ loadWriteIndex(p) \/ storeWriteIndex(p) \/ countWrite(p)

Consume == getNextToRead \/ useElement \/ advanceReadIndex \/ countRead

\* The bound on writes lets the queue come to rest.
Done == (\A p \in Producer : pc[p] = "idle" /\ written[p] = MaxWrites) /\ rpc = "idle" /\ num_elements = 0

Next == (\E p \in Producer : Produce(p)) \/ Consume \/ (Done /\ UNCHANGED vars)

Spec == Init /\ [][Next]_vars

-----------------------------------------------------------------------------

\* Types; in particular both indices stay inside store_.
TypeOK ==
  /\ next_write_index \in Index /\ next_read_index \in Index
  /\ num_elements \in Nat
  /\ pc \in [Producer -> {"idle", "copy", "load", "store", "count"}]
  /\ slot \in [Producer -> Index] /\ loaded \in [Producer -> Index]
  /\ rpc \in {"idle", "use", "advance", "count"}

\* As long as no write started in a full queue, the consumer gets exactly what was
\* published, in that order: nothing is lost, repeated, reordered or read before
\* it was written, across any number of wraps.
FifoUnlessOverrun ==
  ~overrun =>
    /\ Len(consumed) <= Len(published)
    /\ consumed = SubSeq(published, 1, Len(consumed))

\* Nor does a producer ever copy into the slot the consumer is reading.
NoSlotRaceUnlessOverrun ==
  ~overrun => \A p \in Producer :
    pc[p] = "copy" /\ rpc = "use" => slot[p] # next_read_index

\* updateReadIndex's ASSERT(num_elements_ != 0) never fails, overrun or not: the one
\* consumer only counts down what it saw counted up.
ReadAssertHolds == rpc \in {"use", "advance", "count"} => num_elements # 0

\* What "copies one already-formatted line into the next free slot" (pushLine) and
\* "receive every response" (onResponse) promise: once the queue is at rest, every
\* element that was published has been consumed.
NoElementLost ==
  Done => \A k \in DOMAIN published : \E j \in DOMAIN consumed : consumed[j] = published[k]

\* Without an overrun, everything published is eventually consumed.
EverythingConsumed ==
  \A n \in 1 .. MaxWrites : (Len(published) >= n /\ ~overrun) ~> (Len(consumed) >= n \/ overrun)
=============================================================================
