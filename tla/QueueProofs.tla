----------------------------- MODULE QueueProofs -----------------------------
(***************************************************************************)
(* LFQueue with one producer, of any size and for any number of writes,    *)
(* alone and under the logger's threads.                                   *)
(***************************************************************************)
EXTENDS Logger, SequenceTheorems, TLAPS

Values == {Empty} \cup (Producer \X Nat)

QueueTyped ==
  /\ TypeOK
  /\ written \in [Producer -> Nat]
  /\ store \in [Index -> Values]
  /\ published \in Seq(Values) /\ consumed \in Seq(Values)
  /\ overrun \in BOOLEAN
  /\ rpc = "advance" => consumed # <<>>

One(b) == IF b THEN 1 ELSE 0

\* How many elements next_read_index_ has passed, and how many of those published lie
\* ahead of it.
Passed == Len(consumed) - One(rpc = "advance")
Waiting == Len(published) - Passed

\* The number of steps from slot i to slot j, around the ring.
Dist(i, j) == IF j >= i THEN j - i ELSE j - i + Size

(***************************************************************************)
(* The ring, as long as no write started in a full queue, for a producer   *)
(* p: what waits lies in the slots from next_read_index_ on, in the order  *)
(* of publication; behind it is the slot p fills, and then                 *)
(* next_write_index_.                                                      *)
(***************************************************************************)
RingSound(p) ==
  /\ num_elements = Waiting + One(rpc = "count")
  /\ Waiting \in 0 .. Size
  /\ \A k \in 1 .. Len(consumed) : k <= Len(published) /\ consumed[k] = published[k]
  /\ \A i \in Index : Dist(next_read_index, i) < Waiting =>
       store[i] = published[Passed + 1 + Dist(next_read_index, i)]
  /\ pc[p] = "idle" =>
       IF Waiting = Size THEN next_write_index = next_read_index
       ELSE Dist(next_read_index, next_write_index) = Waiting
  /\ pc[p] # "idle" => Waiting < Size /\ Dist(next_read_index, slot[p]) = Waiting
  /\ pc[p] \in {"copy", "load", "store"} => next_write_index = slot[p]
  /\ pc[p] = "store" => loaded[p] = slot[p]
  /\ pc[p] = "count" => next_write_index = Suc(slot[p])
  /\ pc[p] \in {"load", "store", "count"} => store[slot[p]] = Element(p)

QueueInv(p) == QueueTyped /\ ReadAssertHolds /\ (~overrun => RingSound(p))

LogInv ==
  /\ closing # "no" => \A p \in Producer : pc[p] = "idle"
  /\ closing \in {"empty", "joining", "closed"} => num_elements = 0

(***************************************************************************)
(* Around the ring.                                                        *)
(***************************************************************************)
LEMMA SucIs ==
  ASSUME NEW i \in Index
  PROVE  Suc(i) \in Index /\ Suc(i) = IF i = Size - 1 THEN 0 ELSE i + 1
BY QueueAssumption DEF Suc, Index

\* Distances from one slot tell the others apart.
LEMMA DistFacts ==
  ASSUME NEW r \in Index
  PROVE  /\ \A i \in Index : Dist(r, i) \in 0 .. (Size - 1)
         /\ \A i, j \in Index : Dist(r, i) = Dist(r, j) => i = j
         /\ \A i \in Index : Dist(r, i) = 0 <=> i = r
BY QueueAssumption DEF Dist, Index

\* The slot after j is one further from r, unless it is r itself.
LEMMA DistOfSuc ==
  ASSUME NEW r \in Index, NEW j \in Index
  PROVE  IF Dist(r, j) = Size - 1 THEN Suc(j) = r ELSE Dist(r, Suc(j)) = Dist(r, j) + 1
BY QueueAssumption, SucIs DEF Dist, Index

\* Seen from the slot after r every other slot is one nearer, and r is the last.
LEMMA DistFromSuc ==
  ASSUME NEW r \in Index, NEW j \in Index
  PROVE  Dist(Suc(r), j) = IF j = r THEN Size - 1 ELSE Dist(r, j) - 1
BY QueueAssumption, SucIs DEF Dist, Index

(***************************************************************************)
(* Types, and updateReadIndex's ASSERT: for any number of producers.       *)
(***************************************************************************)
LEMMA ElementTyped ==
  ASSUME QueueTyped, NEW p \in Producer
  PROVE  Element(p) \in Values
BY DEF QueueTyped, Element, Values

LEMMA InitTyped == Init => QueueTyped /\ ReadAssertHolds
<1> SUFFICES ASSUME Init PROVE QueueTyped /\ ReadAssertHolds
  OBVIOUS
<1>1. 0 \in Index
  BY QueueAssumption DEF Index
<1>2. TypeOK /\ written \in [Producer -> Nat]
  BY <1>1 DEF Init, TypeOK
<1>3. store \in [Index -> Values] /\ published \in Seq(Values) /\ consumed \in Seq(Values)
  BY DEF Init, Values
<1>4. overrun \in BOOLEAN /\ ReadAssertHolds
  BY Zenon DEF Init, ReadAssertHolds
<1>5. rpc = "idle"
  BY DEF Init
<1> QED BY <1>2, <1>3, <1>4, <1>5 DEF QueueTyped

LEMMA ProduceTyped ==
  ASSUME QueueTyped, ReadAssertHolds, NEW p \in Producer, Produce(p)
  PROVE  QueueTyped' /\ ReadAssertHolds'
<1>1. CASE getNextToWriteTo(p)
  <2>1. overrun' \in BOOLEAN
    BY <1>1 DEF getNextToWriteTo
  <2>2. QueueTyped'
    BY <1>1, <2>1 DEF getNextToWriteTo, NextSlot, QueueTyped, TypeOK, readVars
  <2> QED BY <1>1, <2>2 DEF getNextToWriteTo, ReadAssertHolds, readVars
<1>2. CASE copyElement(p)
  <2>1. store' \in [Index -> Values]
    BY <1>2, ElementTyped, Zenon DEF copyElement, QueueTyped
  <2>2. QueueTyped'
    BY <1>2, <2>1 DEF copyElement, QueueTyped, TypeOK, readVars
  <2> QED BY <1>2, <2>2 DEF copyElement, ReadAssertHolds, readVars
<1>3. CASE loadWriteIndex(p)
  <2>1. QueueTyped'
    BY <1>3 DEF loadWriteIndex, QueueTyped, TypeOK, readVars
  <2> QED BY <1>3, <2>1 DEF loadWriteIndex, ReadAssertHolds, readVars
<1>4. CASE storeWriteIndex(p)
  <2>1. next_write_index' \in Index
    BY <1>4, SucIs DEF storeWriteIndex, QueueTyped, TypeOK
  <2>2. QueueTyped'
    BY <1>4, <2>1 DEF storeWriteIndex, QueueTyped, TypeOK, readVars
  <2> QED BY <1>4, <2>2 DEF storeWriteIndex, ReadAssertHolds, readVars
<1>5. CASE countWrite(p)
  <2>1. num_elements' \in Nat /\ num_elements' # 0
    BY <1>5 DEF countWrite, CountedIn, QueueTyped, TypeOK
  <2>2. published' \in Seq(Values)
    BY <1>5, ElementTyped, AppendProperties DEF countWrite, QueueTyped
  <2>3. QueueTyped'
    BY <1>5, <2>1, <2>2 DEF countWrite, QueueTyped, TypeOK, readVars
  <2> QED BY <2>1, <2>3 DEF ReadAssertHolds
<1> QED BY <1>1, <1>2, <1>3, <1>4, <1>5 DEF Produce

LEMMA ConsumeTyped ==
  ASSUME QueueTyped, ReadAssertHolds, Consume
  PROVE  QueueTyped' /\ ReadAssertHolds'
<1>1. CASE getNextToRead
  <2>1. QueueTyped'
    BY <1>1 DEF getNextToRead, QueueTyped, TypeOK, writeVars
  <2> QED BY <1>1, <2>1 DEF getNextToRead, Readable, ReadAssertHolds
<1>2. CASE useElement
  <2>1. consumed' \in Seq(Values)
    <3>1. NextElement \in Values
      BY DEF NextElement, QueueTyped, TypeOK
    <3> QED BY <1>2, <3>1, AppendProperties DEF useElement, QueueTyped
  <2>2. QueueTyped'
    BY <1>2, <2>1 DEF useElement, QueueTyped, TypeOK, writeVars
  <2> QED BY <1>2, <2>2 DEF useElement, ReadAssertHolds
<1>3. CASE advanceReadIndex
  <2>1. next_read_index' \in Index
    BY <1>3, SucIs DEF advanceReadIndex, QueueTyped, TypeOK
  <2>2. QueueTyped'
    BY <1>3, <2>1 DEF advanceReadIndex, QueueTyped, TypeOK, writeVars
  <2> QED BY <1>3, <2>2 DEF advanceReadIndex, ReadAssertHolds
<1>4. CASE countRead
  <2>1. num_elements' \in Nat
    BY <1>4 DEF countRead, QueueTyped, TypeOK
  <2>2. QueueTyped'
    BY <1>4, <2>1 DEF countRead, QueueTyped, TypeOK, writeVars
  <2> QED BY <1>4, <2>2 DEF countRead, ReadAssertHolds
<1> QED BY <1>1, <1>2, <1>3, <1>4 DEF Consume

(***************************************************************************)
(* The ring, with one producer.                                            *)
(***************************************************************************)
LEMMA Lengths ==
  ASSUME QueueTyped
  PROVE  /\ Len(published) \in Nat /\ Len(consumed) \in Nat
         /\ Passed \in Nat /\ Waiting \in Int /\ num_elements \in Nat
         /\ next_read_index \in Index /\ next_write_index \in Index /\ Size \in Nat /\ Size > 0
BY QueueAssumption DEF QueueTyped, TypeOK, Passed, Waiting, One

\* A step that neither publishes nor reads leaves what waits as it is.
LEMMA RingFrame ==
  ASSUME QueueTyped, NEW p \in Producer, RingSound(p),
         UNCHANGED <<next_read_index, num_elements, rpc, published, consumed>>
  PROVE  /\ Passed' = Passed /\ Waiting' = Waiting
         /\ num_elements' = Waiting' + One(rpc' = "count")
         /\ Waiting' \in 0 .. Size
         /\ \A k \in 1 .. Len(consumed') : k <= Len(published') /\ consumed'[k] = published'[k]
BY DEF RingSound, Passed, Waiting

\* getNextToWriteTo in a queue that is not full gives a slot nothing waits in.
LEMMA GetSlotKeepsRing ==
  ASSUME QueueTyped, NEW p \in Producer, RingSound(p), getNextToWriteTo(p), ~overrun'
  PROVE  RingSound(p)'
<1>1. /\ pc[p] = "idle" /\ pc'[p] = "copy" /\ slot'[p] = next_write_index
      /\ UNCHANGED <<store, next_write_index, loaded, published, num_elements,
                     next_read_index, rpc, consumed>>
      /\ num_elements < Size
  <2>1. overrun' = (overrun \/ num_elements >= Size)
    BY DEF getNextToWriteTo
  <2>2. ~(num_elements >= Size)
    BY <2>1, Zenon
  <2>3. num_elements < Size
    BY <2>2, Lengths
  <2> QED BY <2>3 DEF getNextToWriteTo, NextSlot, readVars, QueueTyped, TypeOK
<1>2. Waiting < Size
  BY <1>1, Lengths DEF RingSound, One
<1>3. Dist(next_read_index, next_write_index) = Waiting
  BY <1>1, <1>2, Lengths DEF RingSound
<1>4. Passed' = Passed /\ Waiting' = Waiting
  BY <1>1, RingFrame
<1> QED BY <1>1, <1>2, <1>3, <1>4 DEF RingSound

\* The copy goes behind everything that waits.
LEMMA CopyKeepsRing ==
  ASSUME QueueTyped, NEW p \in Producer, RingSound(p), copyElement(p)
  PROVE  RingSound(p)'
<1>1. /\ pc[p] = "copy" /\ pc'[p] = "load"
      /\ store' = [store EXCEPT ![slot[p]] = Element(p)]
      /\ UNCHANGED <<next_write_index, slot, loaded, written, published, num_elements,
                     next_read_index, rpc, consumed>>
  BY DEF copyElement, readVars, QueueTyped, TypeOK
<1>2. slot[p] \in Index /\ store'[slot[p]] = Element(p) /\ Element(p)' = Element(p)
      /\ \A i \in Index : i # slot[p] => store'[i] = store[i]
  BY <1>1 DEF QueueTyped, TypeOK, Element
<1>3. Passed' = Passed /\ Waiting' = Waiting
  BY <1>1, RingFrame
<1>4. \A i \in Index : Dist(next_read_index, i) < Waiting => i # slot[p]
  BY <1>1, Lengths DEF RingSound
<1> QED BY <1>1, <1>2, <1>3, <1>4 DEF RingSound

LEMMA LoadKeepsRing ==
  ASSUME QueueTyped, NEW p \in Producer, RingSound(p), loadWriteIndex(p)
  PROVE  RingSound(p)'
<1>1. /\ pc[p] = "load" /\ pc'[p] = "store" /\ loaded'[p] = next_write_index
      /\ UNCHANGED <<store, next_write_index, slot, written, published, num_elements,
                     next_read_index, rpc, consumed>>
  BY DEF loadWriteIndex, readVars, QueueTyped, TypeOK
<1>2. Passed' = Passed /\ Waiting' = Waiting /\ Element(p)' = Element(p)
  BY <1>1, RingFrame DEF Element
<1> QED BY <1>1, <1>2 DEF RingSound

LEMMA StoreKeepsRing ==
  ASSUME QueueTyped, NEW p \in Producer, RingSound(p), storeWriteIndex(p)
  PROVE  RingSound(p)'
<1>1. /\ pc[p] = "store" /\ pc'[p] = "count" /\ next_write_index' = Suc(loaded[p])
      /\ UNCHANGED <<store, slot, loaded, written, published, num_elements,
                     next_read_index, rpc, consumed>>
  BY DEF storeWriteIndex, readVars, QueueTyped, TypeOK
<1>2. Passed' = Passed /\ Waiting' = Waiting /\ Element(p)' = Element(p)
  BY <1>1, RingFrame DEF Element
<1> QED BY <1>1, <1>2 DEF RingSound

\* The element counted in is the last that waits.
LEMMA CountWriteKeepsRing ==
  ASSUME QueueTyped, NEW p \in Producer, RingSound(p), countWrite(p)
  PROVE  RingSound(p)'
<1> DEFINE r == next_read_index
           last == Len(published) + 1
<1>1. /\ pc[p] = "count" /\ pc'[p] = "idle" /\ num_elements' = num_elements + 1
      /\ published' = Append(published, Element(p))
      /\ UNCHANGED <<store, next_write_index, slot, next_read_index, rpc, consumed>>
  BY DEF countWrite, CountedIn, readVars, QueueTyped, TypeOK
<1>2. /\ Len(published') = last /\ published'[last] = Element(p)
      /\ \A k \in 1 .. Len(published) : published'[k] = published[k]
  BY <1>1, ElementTyped, AppendProperties DEF QueueTyped
<1>3. /\ Waiting < Size /\ Dist(r, slot[p]) = Waiting /\ next_write_index = Suc(slot[p])
      /\ store[slot[p]] = Element(p) /\ slot[p] \in Index
  BY <1>1 DEF RingSound, QueueTyped, TypeOK
<1>4. Passed' = Passed /\ Waiting' = Waiting + 1
  BY <1>1, <1>2, Lengths DEF Passed, Waiting, One
<1>5. Waiting' \in 0 .. Size /\ num_elements' = Waiting' + One(rpc' = "count")
  BY <1>1, <1>3, <1>4, Lengths DEF RingSound, One
<1>6. \A k \in 1 .. Len(consumed') : k <= Len(published') /\ consumed'[k] = published'[k]
  BY <1>1, <1>2, Lengths DEF RingSound
<1>7. ASSUME NEW i \in Index, Dist(r, i) < Waiting'
      PROVE  store'[i] = published'[Passed' + 1 + Dist(r, i)]
  <2>1. Dist(r, i) \in Nat
    BY DistFacts, Lengths, QueueAssumption
  <2>2. CASE Dist(r, i) = Waiting
    <3>1. i = slot[p]
      BY <1>3, <2>2, DistFacts, Lengths
    <3>2. Passed + 1 + Dist(r, i) = last
      BY <2>2, Lengths DEF Waiting
    <3> QED BY <1>1, <1>2, <1>3, <1>4, <3>1, <3>2
  <2>3. CASE Dist(r, i) < Waiting
    <3>1. store[i] = published[Passed + 1 + Dist(r, i)]
      BY <2>3 DEF RingSound
    <3>2. Passed + 1 + Dist(r, i) \in 1 .. Len(published)
      BY <2>1, <2>3, Lengths DEF Waiting
    <3> QED BY <1>1, <1>2, <1>4, <3>1, <3>2
  <2> QED BY <1>4, <1>7, <2>1, <2>2, <2>3, Lengths
<1>8. IF Waiting' = Size THEN next_write_index' = next_read_index'
      ELSE Dist(next_read_index', next_write_index') = Waiting'
  <2>1. IF Dist(r, slot[p]) = Size - 1 THEN Suc(slot[p]) = r
        ELSE Dist(r, Suc(slot[p])) = Dist(r, slot[p]) + 1
    BY <1>3, Lengths, DistOfSuc
  <2> QED BY <1>1, <1>3, <1>4, <2>1, Lengths
<1> QED BY <1>1, <1>5, <1>6, <1>7, <1>8, Zenon DEF RingSound

\* The consumer's steps.  The oldest element that waits is at next_read_index_.
LEMMA ReadKeepsRing ==
  ASSUME QueueTyped, NEW p \in Producer, RingSound(p), getNextToRead
  PROVE  RingSound(p)'
<1>1. /\ rpc = "idle" /\ rpc' = "use"
      /\ UNCHANGED <<store, next_write_index, pc, slot, loaded, written, published,
                     num_elements, next_read_index, consumed>>
  BY DEF getNextToRead, writeVars
<1>2. Passed' = Passed /\ Waiting' = Waiting /\ Element(p)' = Element(p)
  BY <1>1, Lengths DEF Passed, Waiting, One, Element
<1>3. num_elements' = Waiting' + One(rpc' = "count")
  BY <1>1, <1>2 DEF RingSound, One
<1> QED BY <1>1, <1>2, <1>3 DEF RingSound

LEMMA UseKeepsRing ==
  ASSUME QueueTyped, ReadAssertHolds, NEW p \in Producer, RingSound(p), useElement
  PROVE  RingSound(p)'
<1> DEFINE r == next_read_index
           last == Len(consumed) + 1
<1>1. /\ rpc = "use" /\ rpc' = "advance" /\ consumed' = Append(consumed, store[r])
      /\ UNCHANGED <<store, next_write_index, pc, slot, loaded, written, published,
                     num_elements, next_read_index>>
  BY DEF useElement, NextElement, writeVars
<1>2. /\ Len(consumed') = last /\ consumed'[last] = store[r]
      /\ \A k \in 1 .. Len(consumed) : consumed'[k] = consumed[k]
  <2>1. store[r] \in Values
    BY DEF QueueTyped, TypeOK
  <2> QED BY <1>1, <2>1, AppendProperties DEF QueueTyped
<1>3. Passed = Len(consumed) /\ Passed' = Passed /\ Waiting' = Waiting /\ Element(p)' = Element(p)
  BY <1>1, <1>2, Lengths DEF Passed, Waiting, One, Element
<1>4. num_elements' = Waiting' + One(rpc' = "count")
  BY <1>1, <1>3 DEF RingSound, One
<1>5. Waiting > 0
  BY <1>1, Lengths DEF RingSound, One, ReadAssertHolds
<1>6. last <= Len(published) /\ consumed'[last] = published[last]
  <2>1. r \in Index /\ Dist(r, r) = 0
    BY DistFacts, Lengths
  <2>2. store[r] = published[Passed + 1 + Dist(r, r)]
    BY <1>5, <2>1 DEF RingSound
  <2> QED BY <1>2, <1>3, <1>5, <2>1, <2>2, Lengths DEF Waiting
<1>7. \A k \in 1 .. Len(consumed') : k <= Len(published') /\ consumed'[k] = published'[k]
  <2> SUFFICES ASSUME NEW k \in 1 .. Len(consumed')
               PROVE  k <= Len(published') /\ consumed'[k] = published'[k]
    OBVIOUS
  <2>1. CASE k = last
    BY <1>1, <1>6, <2>1
  <2>2. CASE k \in 1 .. Len(consumed)
    BY <1>1, <1>2, <2>2 DEF RingSound
  <2> QED BY <1>2, <2>1, <2>2, Lengths
<1> QED BY <1>1, <1>3, <1>4, <1>7 DEF RingSound

LEMMA AdvanceKeepsRing ==
  ASSUME QueueTyped, ReadAssertHolds, NEW p \in Producer, RingSound(p), advanceReadIndex
  PROVE  RingSound(p)'
<1> DEFINE r == next_read_index
<1>1. /\ rpc = "advance" /\ rpc' = "count" /\ next_read_index' = Suc(r)
      /\ UNCHANGED <<store, next_write_index, pc, slot, loaded, written, published,
                     num_elements, consumed>>
  BY DEF advanceReadIndex, writeVars
<1>2. /\ Passed' = Passed + 1 /\ Waiting' = Waiting - 1 /\ Element(p)' = Element(p)
  BY <1>1, Lengths DEF Passed, Waiting, One, Element
<1>3. Waiting > 0 /\ Waiting' \in 0 .. Size /\ Waiting' < Size
  BY <1>1, <1>2, Lengths DEF RingSound, One, ReadAssertHolds
<1>4. num_elements' = Waiting' + One(rpc' = "count")
  BY <1>1, <1>2, Lengths DEF RingSound, One
<1>5. \A j \in Index : /\ Dist(r, j) \in Nat
                       /\ Dist(next_read_index', j) = IF j = r THEN Size - 1 ELSE Dist(r, j) - 1
                       /\ Dist(r, j) = 0 <=> j = r
  BY <1>1, DistFromSuc, DistFacts, Lengths
<1>6. ASSUME NEW i \in Index, Dist(next_read_index', i) < Waiting'
      PROVE  store'[i] = published'[Passed' + 1 + Dist(next_read_index', i)]
  <2>1. i # r
    BY <1>2, <1>5, <1>6, Lengths DEF RingSound
  <2>2. Dist(r, i) \in Nat /\ Dist(next_read_index', i) = Dist(r, i) - 1
    BY <1>5, <2>1
  <2>3. Passed \in Nat /\ Waiting \in Int
    BY Lengths
  <2>4. Passed' + 1 + Dist(next_read_index', i) = Passed + 1 + Dist(r, i)
    BY <1>2, <2>2, <2>3
  <2>5. Dist(r, i) < Waiting
    BY <1>2, <1>6, <2>2, <2>3
  <2> QED BY <1>1, <2>4, <2>5 DEF RingSound
<1>7. ASSUME pc[p] = "idle" PROVE Dist(next_read_index', next_write_index) = Waiting'
  <2>1. /\ Dist(r, next_write_index) \in Nat /\ Dist(r, next_write_index) = 0 <=> next_write_index = r
        /\ Dist(next_read_index', next_write_index) =
             IF next_write_index = r THEN Size - 1 ELSE Dist(r, next_write_index) - 1
    BY <1>5, Lengths
  <2>2. CASE Waiting = Size
    BY <1>2, <1>7, <2>1, <2>2 DEF RingSound
  <2>3. CASE Waiting # Size
    <3>1. Dist(r, next_write_index) = Waiting
      BY <1>7, <2>3 DEF RingSound
    <3>2. next_write_index # r
      BY <1>3, <2>1, <3>1, Lengths
    <3> QED BY <1>2, <2>1, <3>1, <3>2
  <2> QED BY <2>2, <2>3
<1>8. ASSUME pc[p] # "idle" PROVE Dist(next_read_index', slot[p]) = Waiting'
  <2>1. slot[p] \in Index /\ Dist(r, slot[p]) = Waiting
    BY <1>8 DEF QueueTyped, TypeOK, RingSound
  <2>2. slot[p] # r
    BY <1>3, <1>5, <2>1, Lengths
  <2>3. Dist(next_read_index', slot[p]) = Dist(r, slot[p]) - 1
    BY <1>5, <2>1, <2>2
  <2> QED BY <1>2, <2>1, <2>3
<1>9. /\ \A k \in 1 .. Len(consumed') : k <= Len(published') /\ consumed'[k] = published'[k]
      /\ pc'[p] \in {"copy", "load", "store"} => next_write_index' = slot'[p]
      /\ pc'[p] = "store" => loaded'[p] = slot'[p]
      /\ pc'[p] = "count" => next_write_index' = Suc(slot'[p])
      /\ pc'[p] \in {"load", "store", "count"} => store'[slot'[p]] = Element(p)'
  BY <1>1, <1>2 DEF RingSound
<1>10. /\ Waiting' # Size
       /\ pc'[p] = "idle" => Dist(next_read_index', next_write_index') = Waiting'
       /\ pc'[p] # "idle" => Waiting' < Size /\ Dist(next_read_index', slot'[p]) = Waiting'
  BY <1>1, <1>3, <1>7, <1>8, Lengths
<1> QED BY <1>3, <1>4, <1>6, <1>9, <1>10 DEF RingSound

LEMMA CountReadKeepsRing ==
  ASSUME QueueTyped, NEW p \in Producer, RingSound(p), countRead
  PROVE  RingSound(p)'
<1>1. /\ rpc = "count" /\ rpc' = "idle" /\ num_elements' = num_elements - 1
      /\ UNCHANGED <<store, next_write_index, pc, slot, loaded, written, published,
                     next_read_index, consumed>>
  BY DEF countRead, writeVars
<1>2. Passed' = Passed /\ Waiting' = Waiting /\ Element(p)' = Element(p)
  BY <1>1, Lengths DEF Passed, Waiting, One, Element
<1>3. num_elements' = Waiting' + One(rpc' = "count")
  BY <1>1, <1>2, Lengths DEF RingSound, One
<1> QED BY <1>1, <1>2, <1>3 DEF RingSound

(***************************************************************************)
(* The queue and the logger.                                               *)
(***************************************************************************)
LEMMA InitRing ==
  ASSUME Init, NEW p \in Producer
  PROVE  RingSound(p)
<1>1. /\ Passed = 0 /\ Waiting = 0 /\ num_elements = 0 /\ Len(consumed) = 0
      /\ rpc = "idle" /\ pc[p] = "idle" /\ next_write_index = 0 /\ next_read_index = 0
  BY DEF Init, Passed, Waiting, One
<1>2. 0 \in Index /\ Dist(0, 0) = 0 /\ \A i \in Index : ~(Dist(0, i) < 0)
  BY QueueAssumption DEF Dist, Index
<1> QED BY <1>1, <1>2, QueueAssumption DEF RingSound, One

LEMMA QueueStep ==
  ASSUME NEW p, Producer = {p}, QueueInv(p),
         (\E q \in Producer : Produce(q)) \/ Consume \/ UNCHANGED vars
  PROVE  QueueInv(p)'
<1> USE DEF QueueInv
<1>1. CASE UNCHANGED vars
  BY <1>1 DEF vars, writeVars, readVars, QueueTyped, TypeOK, ReadAssertHolds, RingSound,
     Passed, Waiting, Element
<1>2. CASE Produce(p)
  <2>1. QueueTyped' /\ ReadAssertHolds'
    BY <1>2, ProduceTyped
  <2>2. ASSUME ~overrun' PROVE RingSound(p)'
    <3>1. ~overrun
      BY <1>2, <2>2, Zenon DEF Produce, getNextToWriteTo, copyElement, loadWriteIndex,
         storeWriteIndex, countWrite
    <3> QED BY <1>2, <2>2, <3>1, GetSlotKeepsRing, CopyKeepsRing, LoadKeepsRing, StoreKeepsRing,
               CountWriteKeepsRing DEF Produce
  <2> QED BY <2>1, <2>2
<1>3. CASE Consume
  <2>1. QueueTyped' /\ ReadAssertHolds'
    BY <1>3, ConsumeTyped
  <2>2. overrun' = overrun
    BY <1>3 DEF Consume, getNextToRead, useElement, advanceReadIndex, countRead, writeVars
  <2>3. ASSUME ~overrun' PROVE RingSound(p)'
    BY <1>3, <2>2, <2>3, ReadKeepsRing, UseKeepsRing, AdvanceKeepsRing, CountReadKeepsRing
       DEF Consume
  <2> QED BY <2>1, <2>3
<1> QED BY <1>1, <1>2, <1>3

\* What the invariant says of the elements.
LEMMA RingIsFifo ==
  ASSUME NEW p, Producer = {p}, QueueInv(p)
  PROVE  FifoUnlessOverrun /\ NoSlotRaceUnlessOverrun
<1>1. ASSUME ~overrun
      PROVE  Len(consumed) <= Len(published) /\ consumed = SubSeq(published, 1, Len(consumed))
  <2>1. \A k \in 1 .. Len(consumed) : k <= Len(published) /\ consumed[k] = published[k]
    BY <1>1 DEF QueueInv, RingSound
  <2>2. /\ published \in Seq(Values) /\ consumed \in Seq(Values)
        /\ Len(consumed) \in Nat /\ Len(published) \in Nat
    BY DEF QueueInv, QueueTyped
  <2>3. Len(consumed) <= Len(published)
    <3>1. CASE Len(consumed) = 0
      BY <2>2, <3>1
    <3>2. CASE Len(consumed) # 0
      BY <2>1, <2>2, <3>2
    <3> QED BY <3>1, <3>2
  <2> DEFINE sub == SubSeq(published, 1, Len(consumed))
  <2>4. sub \in Seq(Values) /\ Len(sub) = Len(consumed) /\ \A k \in 1 .. Len(consumed) : sub[k] = published[k]
    BY <2>2, <2>3, SubSeqProperties
  <2> HIDE DEF sub
  <2>5. consumed = sub
    BY <2>1, <2>2, <2>4, SeqEqual
  <2> QED BY <2>3, <2>5 DEF sub
<1>2. ASSUME ~overrun, NEW q \in Producer, pc[q] = "copy", rpc = "use"
      PROVE  slot[q] # next_read_index
  <2>1. q = p /\ QueueTyped /\ RingSound(p) /\ ReadAssertHolds
    BY <1>2 DEF QueueInv
  <2>2. Waiting > 0 /\ Dist(next_read_index, slot[p]) = Waiting
    BY <1>2, <2>1, Lengths DEF RingSound, One, ReadAssertHolds
  <2> QED BY <2>1, <2>2, DistFacts, Lengths
<1> QED BY <1>1, <1>2 DEF FifoUnlessOverrun, NoSlotRaceUnlessOverrun

\* The queue alone, any number of producers, overrun or not: both indices stay inside
\* store_, and updateReadIndex never fails its ASSERT(num_elements_ != 0).
THEOREM QueueStaysTyped == Spec => [](TypeOK /\ ReadAssertHolds)
<1> DEFINE I == QueueTyped /\ ReadAssertHolds
<1>1. Init => I
  BY InitTyped
<1>2. I /\ [Next]_vars => I'
  <2> SUFFICES ASSUME I, [Next]_vars PROVE I'
    OBVIOUS
  <2>1. CASE UNCHANGED vars
    BY <2>1 DEF vars, writeVars, readVars, QueueTyped, TypeOK, ReadAssertHolds
  <2> QED BY <2>1, ProduceTyped, ConsumeTyped DEF Next
<1>3. I => TypeOK /\ ReadAssertHolds
  BY DEF QueueTyped
<1> QED BY <1>1, <1>2, <1>3, PTL DEF Spec

\* The queue alone, with the one producer it is written for: as long as no write starts in
\* a full queue, the consumer gets what was published, in that order, across any number of
\* wraps of a ring of any size, and never shares a slot with the producer.
THEOREM OneProducerIsFifo ==
  ASSUME NEW p, Producer = {p}
  PROVE  Spec => [](FifoUnlessOverrun /\ NoSlotRaceUnlessOverrun)
<1>1. Init => QueueInv(p)
  BY InitTyped, InitRing DEF QueueInv
<1>2. QueueInv(p) /\ [Next]_vars => QueueInv(p)'
  BY QueueStep DEF Next
<1>3. QueueInv(p) => FifoUnlessOverrun /\ NoSlotRaceUnlessOverrun
  BY RingIsFifo
<1> QED BY <1>1, <1>2, <1>3, PTL DEF Spec

\* Every step of the logger's threads is a step of the queue, or leaves it alone.
LEMMA LoggerStepsQueue ==
  ASSUME [LogNext]_<<vars, logVars>>
  PROVE  (\E q \in Producer : Produce(q)) \/ Consume \/ UNCHANGED vars
BY DEF LogNext, pushLine, flushQueue, testRunning, writeLine, queueDrained, destroy,
   Destructor, seeEmptyQueue, stopFlusher, joinFlusher

LEMMA LoggerTyped == LogSpec => [](TypeOK /\ ReadAssertHolds)
<1> DEFINE I == QueueTyped /\ ReadAssertHolds
<1>1. LogInit => I
  BY InitTyped DEF LogInit
<1>2. I /\ [LogNext]_<<vars, logVars>> => I'
  <2> SUFFICES ASSUME I, [LogNext]_<<vars, logVars>> PROVE I'
    OBVIOUS
  <2>1. CASE UNCHANGED vars
    BY <2>1 DEF vars, writeVars, readVars, QueueTyped, TypeOK, ReadAssertHolds
  <2> QED BY <2>1, LoggerStepsQueue, ProduceTyped, ConsumeTyped
<1>3. I => TypeOK /\ ReadAssertHolds
  BY DEF QueueTyped
<1> QED BY <1>1, <1>2, <1>3, PTL DEF LogSpec

\* The same under the logger's threads, whose pushLine and flushQueue are the two sides of
\* the queue: both indices stay inside store_, whoever logs.
THEOREM LoggerStaysTyped == LogSpec => []TypeOK
BY LoggerTyped, PTL

\* ... and the logger thread never fails updateReadIndex's ASSERT(num_elements_ != 0).
THEOREM LoggerReadAssertHolds == LogSpec => []ReadAssertHolds
BY LoggerTyped, PTL

\* With no producer under way, a queue the destructor saw empty stays empty.
LEMMA EmptyStaysEmpty ==
  ASSUME QueueTyped, ReadAssertHolds, LogInv, [LogNext]_<<vars, logVars>>
  PROVE  LogInv'
<1>1. CASE \E p \in Producer : pushLine(p)
  BY <1>1 DEF pushLine, logVars, LogInv
<1>2. CASE writeLine
  <2>1. pc' = pc /\ closing' = closing
    BY <1>2 DEF writeLine, Consume, getNextToRead, useElement, advanceReadIndex, countRead,
       writeVars, logVars
  <2>2. ASSUME num_elements = 0 PROVE num_elements' = 0
    BY <1>2, <2>2 DEF writeLine, Consume, getNextToRead, Readable, useElement, advanceReadIndex,
       countRead, writeVars
  <2> QED BY <2>1, <2>2 DEF LogInv
<1>3. CASE testRunning \/ queueDrained
  BY <1>3 DEF testRunning, queueDrained, LogInv, vars, writeVars
<1>4. CASE destroy
  BY <1>4 DEF destroy, LogInv, vars, writeVars
<1>5. CASE Destructor
  BY <1>5 DEF Destructor, seeEmptyQueue, QueueEmpty, stopFlusher, joinFlusher, LogInv, vars, writeVars
<1>6. CASE UNCHANGED <<vars, logVars>>
  BY <1>6 DEF LogInv, vars, writeVars, logVars
<1> QED BY <1>1, <1>2, <1>3, <1>4, <1>5, <1>6 DEF LogNext, flushQueue

LEMMA LoggerInvariant ==
  ASSUME NEW p, Producer = {p}
  PROVE  LogSpec => [](QueueInv(p) /\ LogInv)
<1>1. LogInit => QueueInv(p) /\ LogInv
  BY InitTyped, InitRing DEF LogInit, QueueInv, LogInv
<1>2. QueueInv(p) /\ LogInv /\ [LogNext]_<<vars, logVars>> => (QueueInv(p) /\ LogInv)'
  <2> SUFFICES ASSUME QueueInv(p), LogInv, [LogNext]_<<vars, logVars>>
               PROVE  QueueInv(p)' /\ LogInv'
    OBVIOUS
  <2>1. QueueInv(p)'
    BY LoggerStepsQueue, QueueStep
  <2>2. LogInv'
    BY EmptyStaysEmpty DEF QueueInv
  <2> QED BY <2>1, <2>2
<1> QED BY <1>1, <1>2, PTL DEF LogSpec

\* With one thread logging, as long as no line is pushed to a full queue: the logger thread
\* writes the lines that were pushed, in that order, whatever the queue's size and however
\* often it wraps.
THEOREM LinesAreFifo ==
  ASSUME NEW p, Producer = {p}
  PROVE  LogSpec => []FifoUnlessOverrun
<1>1. QueueInv(p) => FifoUnlessOverrun
  BY RingIsFifo
<1> QED BY <1>1, LoggerInvariant, PTL

\* ... and pushLine never copies into the slot flushQueue is writing out.
THEOREM LinesAreNotTorn ==
  ASSUME NEW p, Producer = {p}
  PROVE  LogSpec => []NoSlotRaceUnlessOverrun
<1>1. QueueInv(p) => NoSlotRaceUnlessOverrun
  BY RingIsFifo
<1> QED BY <1>1, LoggerInvariant, PTL

\* ... and when the destructor has closed the file, every line is in it: it closes only a
\* queue it saw empty, to which nobody pushed since.
THEOREM ClosedLogIsComplete ==
  ASSUME NEW p, Producer = {p}
  PROVE  LogSpec => []LogComplete
<1>1. QueueInv(p) /\ LogInv => LogComplete
  <2> SUFFICES ASSUME QueueInv(p), LogInv, closing = "closed", ~overrun
               PROVE  consumed = published
    BY DEF LogComplete
  <2>1. num_elements = 0 /\ rpc = "idle" /\ QueueTyped /\ RingSound(p)
    BY DEF LogInv, QueueInv, ReadAssertHolds, QueueTyped, TypeOK
  <2>2. Len(consumed) = Len(published)
    <3>1. Waiting = 0
      BY <2>1 DEF RingSound, One
    <3>2. Passed = Len(consumed)
      BY <2>1, Lengths DEF Passed, One
    <3> QED BY <2>1, <3>1, <3>2, Lengths DEF Waiting
  <2>3. \A k \in 1 .. Len(consumed) : consumed[k] = published[k]
    BY <2>1 DEF RingSound
  <2> QED BY <2>1, <2>2, <2>3, SeqEqual DEF QueueTyped
<1> QED BY <1>1, LoggerInvariant, PTL
==============================================================================
