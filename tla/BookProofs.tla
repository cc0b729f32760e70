------------------------------ MODULE BookProofs ------------------------------
(***************************************************************************)
(* Proofs about one symbol's order book, for any set of clients, orders,   *)
(* prices and requests.                                                    *)
(***************************************************************************)
EXTENDS BookProperties, SequenceTheorems, TLAPS

Levels == [{"BUY", "SELL"} -> [Price -> Seq(OrderId)]]

IsIndex(index) == DOMAIN index \subseteq OrderId /\ index \in [DOMAIN index -> BookOrder]

(***************************************************************************)
(* Removing the k-th element of a sequence, as unlinking a list node does. *)
(***************************************************************************)

\* Unlinking shortens the sequence by one and moves the later elements down.
LEMMA UnlinkedProperties ==
  ASSUME NEW S, NEW s \in Seq(S), NEW k \in 1 .. Len(s)
  PROVE  /\ Unlinked(s, k) \in Seq(S)
         /\ Len(Unlinked(s, k)) = Len(s) - 1
         /\ \A i \in 1 .. (Len(s) - 1) :
              Unlinked(s, k)[i] = IF i < k THEN s[i] ELSE s[i + 1]
<1> DEFINE l == SubSeq(s, 1, k - 1)
           r == SubSeq(s, k + 1, Len(s))
<1>1. \A i \in 1 .. Len(s) : s[i] \in S
  BY ElementOfSeq
<1>2. /\ l \in Seq(S) /\ Len(l) = k - 1
      /\ \A i \in 1 .. (k - 1) : l[i] = s[i]
  <2>1. \A i \in 1 .. (k - 1) : s[i] \in S
    BY <1>1
  <2>2. Len(s) \in Nat /\ k \in Int /\ k - 1 \in Int
    OBVIOUS
  <2> QED BY <2>1, <2>2, SubSeqProperties
<1>3. /\ r \in Seq(S) /\ Len(r) = Len(s) - k
      /\ \A i \in 1 .. (Len(s) - k) : r[i] = s[k + i]
  <2>1. \A i \in (k + 1) .. Len(s) : s[i] \in S
    BY <1>1
  <2>2. Len(s) \in Nat /\ k + 1 \in Int
    OBVIOUS
  <2> QED BY <2>1, <2>2, SubSeqProperties
<1> HIDE DEF l, r
<1>4. /\ l \o r \in Seq(S) /\ Len(l \o r) = Len(l) + Len(r)
      /\ \A i \in 1 .. Len(l) + Len(r) : (l \o r)[i] = IF i <= Len(l) THEN l[i] ELSE r[i - Len(l)]
  BY <1>2, <1>3, ConcatProperties, Zenon
<1>5. Unlinked(s, k) = l \o r
  BY DEF Unlinked, l, r
<1>6. ASSUME NEW i \in 1 .. (Len(s) - 1)
      PROVE  (l \o r)[i] = IF i < k THEN s[i] ELSE s[i + 1]
  <2>1. Len(s) \in Nat
    OBVIOUS
  <2>2. CASE i < k
    BY <1>2, <1>3, <1>4, <2>1, <2>2
  <2>3. CASE i >= k
    <3>1. (l \o r)[i] = r[i - (k - 1)]
      BY <1>2, <1>3, <1>4, <2>1, <2>3
    <3>2. i - (k - 1) \in 1 .. (Len(s) - k) /\ k + (i - (k - 1)) = i + 1
      BY <2>1, <2>3
    <3> QED BY <3>1, <3>2, <1>3, <2>3
  <2>4. i < k \/ i >= k
    BY <2>1
  <2> QED BY <2>2, <2>3, <2>4, Zenon
<1>7. Len(l \o r) = Len(s) - 1
  BY <1>2, <1>3, <1>4, Len(s) \in Nat
<1> QED BY <1>4, <1>5, <1>6, <1>7

(***************************************************************************)
(* Unlinking an order and appending one keep index and levels consistent.  *)
(***************************************************************************)

\* Every order stands in one of the two books.
LEMMA BookSideType == \A side : BookSide(side) \in {"BUY", "SELL"}
BY DEF BookSide

\* Position i of a level's list holds an order of that side and price, and no other
\* position holds it.
SoundAt(list, index, bs, p, i) ==
  /\ list[i] \in DOMAIN index
  /\ BookSide(index[list[i]].side) = bs
  /\ index[list[i]].price = p
  /\ \A j \in DOMAIN list : list[j] = list[i] => j = i

\* What consistency says of an order that stands in a level.
LEMMA LevelOrders ==
  ASSUME NEW lvls, NEW index, Consistent(lvls, index),
         NEW bs \in {"BUY", "SELL"}, NEW p \in Price, NEW i \in DOMAIN lvls[bs][p]
  PROVE  SoundAt(lvls[bs][p], index, bs, p, i)
BY SMTT(30) DEF Consistent, SoundAt

\* An index with the same orders, this one with the same side and price.
LEMMA SoundAtSame ==
  ASSUME NEW list, NEW index, NEW I2, NEW bs, NEW p, NEW i,
         SoundAt(list, index, bs, p, i), DOMAIN I2 = DOMAIN index,
         I2[list[i]].side = index[list[i]].side, I2[list[i]].price = index[list[i]].price
  PROVE  SoundAt(list, I2, bs, p, i)
BY DEF SoundAt

\* Consistency from its two halves.
LEMMA ConsistentIf ==
  ASSUME NEW lvls, NEW index,
         \A id \in DOMAIN index :
           /\ index[id].qty > 0
           /\ \E k \in DOMAIN lvls[BookSide(index[id].side)][index[id].price] :
                lvls[BookSide(index[id].side)][index[id].price][k] = id,
         \A bs \in {"BUY", "SELL"}, p \in Price : \A i \in DOMAIN lvls[bs][p] :
           SoundAt(lvls[bs][p], index, bs, p, i)
  PROVE  Consistent(lvls, index)
BY DEF Consistent, SoundAt

\* removeOrder's pointer surgery: taking an order out of its level and out of
\* the index leaves every other order where it can be found, once.
LEMMA UnlinkConsistent ==
  ASSUME NEW lvls \in Levels, NEW index, IsIndex(index), Consistent(lvls, index),
         NEW id \in DOMAIN index, NEW bs, bs = BookSide(index[id].side),
         NEW p, p = index[id].price,
         NEW k \in DOMAIN lvls[bs][p], lvls[bs][p][k] = id
  PROVE  LET L2 == [lvls EXCEPT ![bs][p] = Unlinked(@, k)]
             I2 == [o \in DOMAIN index \ {id} |-> index[o]]
         IN  L2 \in Levels /\ IsIndex(I2) /\ Consistent(L2, I2)
<1> DEFINE s == lvls[bs][p]
           t == Unlinked(s, k)
           L2 == [lvls EXCEPT ![bs][p] = t]
           I2 == [o \in DOMAIN index \ {id} |-> index[o]]
<1>1. bs \in {"BUY", "SELL"} /\ p \in Price /\ s \in Seq(OrderId)
  BY BookSideType DEF IsIndex, BookOrder, Levels
<1>2. k \in 1 .. Len(s) /\ Len(s) \in Nat
  BY <1>1, LenProperties
<1>s. s = lvls[bs][p]
  OBVIOUS
<1> HIDE DEF s
<1>3. /\ t \in Seq(OrderId) /\ Len(t) = Len(s) - 1
      /\ \A i \in 1 .. (Len(s) - 1) : t[i] = IF i < k THEN s[i] ELSE s[i + 1]
  BY <1>1, <1>2, UnlinkedProperties
<1> HIDE DEF t
<1>4. /\ L2 \in Levels
      /\ L2[bs][p] = t
      /\ \A b \in {"BUY", "SELL"}, q \in Price : <<b, q>> # <<bs, p>> => L2[b][q] = lvls[b][q]
  BY <1>1, <1>3 DEF Levels
<1>5. IsIndex(I2)
  BY DEF IsIndex
<1>6. DOMAIN I2 = DOMAIN index \ {id} /\ \A o \in DOMAIN I2 : I2[o] = index[o]
  OBVIOUS
<1>7. DOMAIN t = 1 .. (Len(s) - 1) /\ DOMAIN s = 1 .. Len(s)
  BY <1>1, <1>3, LenProperties
<1>8. /\ \A i, j \in 1 .. Len(s) : s[i] = s[j] => i = j
      /\ \A i \in 1 .. Len(s) :
           s[i] \in DOMAIN index /\ BookSide(index[s[i]].side) = bs /\ index[s[i]].price = p
      /\ s[k] = id
  <2>1. \A i \in DOMAIN s : SoundAt(s, index, bs, p, i)
    BY <1>1, <1>s, LevelOrders, Zenon
  <2>2. s[k] = id
    BY <1>s
  <2> QED BY <2>1, <2>2, <1>7 DEF SoundAt
<1> HIDE DEF L2, I2
<1>9. ASSUME NEW o \in DOMAIN I2
      PROVE  /\ I2[o].qty > 0
             /\ \E j \in DOMAIN L2[BookSide(I2[o].side)][I2[o].price] :
                  L2[BookSide(I2[o].side)][I2[o].price][j] = o
  <2> DEFINE b == BookSide(index[o].side)
             q == index[o].price
  <2>1. o \in DOMAIN index /\ o # id /\ I2[o] = index[o] /\ index[o] \in BookOrder
    BY <1>6 DEF IsIndex
  <2>2. /\ index[o].qty > 0
        /\ \E j \in DOMAIN lvls[b][q] : lvls[b][q][j] = o
    BY <2>1 DEF Consistent
  <2>3. b \in {"BUY", "SELL"} /\ q \in Price
    BY <2>1, BookSideType DEF BookOrder
  <2> SUFFICES \E i \in DOMAIN L2[b][q] : L2[b][q][i] = o
    BY <2>1, <2>2
  <2> HIDE DEF b, q
  <2>4. PICK j \in DOMAIN lvls[b][q] : lvls[b][q][j] = o
    BY <2>2
  <2>5. CASE <<b, q>> # <<bs, p>>
    <3>1. L2[b][q] = lvls[b][q]
      BY <2>3, <2>5, <1>4
    <3> QED BY <2>4, <3>1
  <2>6. CASE <<b, q>> = <<bs, p>>
    <3>1. L2[b][q] = t /\ lvls[b][q] = s
      BY <2>6, <1>4, <1>s
    <3>2. j \in 1 .. Len(s) /\ s[j] = o /\ j # k
      BY <2>1, <2>4, <3>1, <1>7, <1>8
    <3>3. CASE j < k
      <4>1. j \in 1 .. (Len(s) - 1)
        BY <1>2, <3>2, <3>3
      <4> QED BY <4>1, <1>3, <1>7, <3>1, <3>2, <3>3
    <3>4. CASE j > k
      <4>1. j - 1 \in 1 .. (Len(s) - 1) /\ ~(j - 1 < k) /\ (j - 1) + 1 = j
        BY <1>2, <3>2, <3>4
      <4>2. j - 1 \in DOMAIN t /\ t[j - 1] = o
        BY <4>1, <1>3, <1>7, <3>2
      <4> QED BY <4>2, <3>1
    <3>5. j < k \/ j > k
      BY <1>2, <3>2
    <3> QED BY <3>3, <3>4, <3>5
  <2> QED BY <2>5, <2>6
<1>10. ASSUME NEW b \in {"BUY", "SELL"}, NEW q \in Price, NEW j \in DOMAIN L2[b][q]
       PROVE  /\ L2[b][q][j] \in DOMAIN I2
              /\ BookSide(I2[L2[b][q][j]].side) = b
              /\ I2[L2[b][q][j]].price = q
              /\ \A i \in DOMAIN L2[b][q] : L2[b][q][i] = L2[b][q][j] => i = j
  <2>1. CASE <<b, q>> # <<bs, p>>
    <3>1. L2[b][q] = lvls[b][q]
      BY <2>1, <1>4
    <3>2. /\ lvls[b][q][j] \in DOMAIN index
          /\ BookSide(index[lvls[b][q][j]].side) = b
          /\ index[lvls[b][q][j]].price = q
          /\ \A i \in DOMAIN lvls[b][q] : lvls[b][q][i] = lvls[b][q][j] => i = j
      <4>1. SoundAt(lvls[b][q], index, b, q, j)
        BY <3>1, LevelOrders, Zenon
      <4> QED BY <4>1, Zenon DEF SoundAt
    <3>3. lvls[b][q][j] # id
      BY <2>1, <3>2
    <3> QED BY <3>1, <3>2, <3>3, <1>6
  <2>2. CASE <<b, q>> = <<bs, p>>
    <3>1. L2[b][q] = t /\ b = bs /\ q = p /\ j \in 1 .. (Len(s) - 1)
      BY <2>2, <1>4, <1>7
    <3>2. PICK jj \in 1 .. Len(s) : t[j] = s[jj] /\ jj # k
      <4>1. CASE j < k
        <5>1. j \in 1 .. Len(s) /\ t[j] = s[j] /\ j # k
          BY <3>1, <4>1, <1>2, <1>3
        <5> QED BY <5>1
      <4>2. CASE ~(j < k)
        <5>1. j + 1 \in 1 .. Len(s) /\ t[j] = s[j + 1] /\ j + 1 # k
          BY <3>1, <4>2, <1>2, <1>3
        <5> QED BY <5>1
      <4> QED BY <4>1, <4>2
    <3>3. /\ s[jj] \in DOMAIN index /\ s[jj] # id
          /\ BookSide(index[s[jj]].side) = bs /\ index[s[jj]].price = p
      BY <3>2, <1>2, <1>8
    <3>4. ASSUME NEW i \in DOMAIN t, t[i] = t[j]
          PROVE  i = j
      <4>1. i \in 1 .. (Len(s) - 1)
        BY <1>7
      <4>2. \A x \in 1 .. (Len(s) - 1) : x \in 1 .. Len(s) /\ x + 1 \in 1 .. Len(s) /\ x \in Int
        BY <1>2
      <4>3. (IF i < k THEN i ELSE i + 1) = (IF j < k THEN j ELSE j + 1)
        BY <4>1, <4>2, <3>1, <3>4, <1>3, <1>8
      <4> QED BY <4>1, <4>2, <4>3, <3>1, <1>2
    <3> QED BY <3>1, <3>2, <3>3, <3>4, <1>6
  <2> QED BY <2>1, <2>2
<1>11. Consistent(L2, I2)
  BY <1>9, <1>10 DEF Consistent
<1>12. L2 = [lvls EXCEPT ![bs][p] = Unlinked(@, k)]
  BY DEF L2, t, s
<1> QED BY <1>4, <1>5, <1>11, <1>12 DEF I2

\* restOrder: an order appended at the tail of its level and entered in the
\* index is found there, once, and disturbs no other.
LEMMA AppendConsistent ==
  ASSUME NEW lvls \in Levels, NEW index, IsIndex(index), Consistent(lvls, index),
         NEW id \in OrderId, id \notin DOMAIN index,
         NEW order \in BookOrder, order.qty > 0
  PROVE  /\ Appended(lvls, id, order) \in Levels
         /\ IsIndex(Rested(index, id, order))
         /\ Consistent(Appended(lvls, id, order), Rested(index, id, order))
<1> DEFINE bs == BookSide(order.side)
           p == order.price
           s == lvls[bs][p]
           t == Append(s, id)
           L2 == Appended(lvls, id, order)
           I2 == Rested(index, id, order)
<1>1. bs \in {"BUY", "SELL"} /\ p \in Price /\ s \in Seq(OrderId)
  BY BookSideType DEF BookOrder, Levels
<1>2. /\ t \in Seq(OrderId) /\ Len(t) = Len(s) + 1 /\ Len(s) \in Nat
      /\ t[Len(s) + 1] = id
      /\ \A i \in 1 .. Len(s) : t[i] = s[i]
  BY <1>1, AppendProperties, LenProperties
<1> HIDE DEF t
<1>3. /\ L2 \in Levels
      /\ L2[bs][p] = t
      /\ \A b \in {"BUY", "SELL"}, q \in Price : <<b, q>> # <<bs, p>> => L2[b][q] = lvls[b][q]
  <2>1. L2 = [lvls EXCEPT ![bs][p] = t]
    BY DEF Appended, t
  <2> QED BY <1>1, <1>2, <2>1 DEF Levels
<1>4. /\ DOMAIN I2 = DOMAIN index \cup {id}
      /\ I2[id] = order
      /\ \A o \in DOMAIN index : I2[o] = index[o]
  BY DEF Rested
<1>5. IsIndex(I2)
  BY DEF Rested, IsIndex
<1>6. DOMAIN t = 1 .. (Len(s) + 1) /\ DOMAIN s = 1 .. Len(s)
  BY <1>1, <1>2, LenProperties
<1>s. s = lvls[bs][p]
  OBVIOUS
<1> HIDE DEF s
<1>e. \A i \in 1 .. Len(s) :
        /\ s[i] \in DOMAIN index /\ s[i] # id
        /\ BookSide(index[s[i]].side) = bs /\ index[s[i]].price = p
        /\ \A x \in 1 .. Len(s) : s[x] = s[i] => x = i
  <2>1. \A i \in DOMAIN s : SoundAt(s, index, bs, p, i)
    BY <1>1, <1>s, LevelOrders, Zenon
  <2> QED BY <2>1, <1>6 DEF SoundAt
<1> HIDE DEF L2, I2
<1>7. ASSUME NEW o \in DOMAIN I2
      PROVE  /\ I2[o].qty > 0
             /\ \E j \in DOMAIN L2[BookSide(I2[o].side)][I2[o].price] :
                  L2[BookSide(I2[o].side)][I2[o].price][j] = o
  <2>1. CASE o = id
    <3>1. Len(s) + 1 \in DOMAIN t /\ t[Len(s) + 1] = id
      BY <1>2, <1>6
    <3> QED BY <2>1, <3>1, <1>3, <1>4
  <2>2. CASE o # id
    <3> DEFINE b == BookSide(index[o].side)
               q == index[o].price
    <3>1. o \in DOMAIN index /\ I2[o] = index[o] /\ b \in {"BUY", "SELL"} /\ q \in Price
      BY <1>4, <2>2, BookSideType DEF IsIndex, BookOrder
    <3>2. PICK j \in DOMAIN lvls[b][q] : lvls[b][q][j] = o
      BY <3>1 DEF Consistent
    <3>3. j \in DOMAIN L2[b][q] /\ L2[b][q][j] = o
      <4>1. CASE <<b, q>> # <<bs, p>>
        BY <1>3, <3>1, <3>2, <4>1
      <4>2. CASE <<b, q>> = <<bs, p>>
        <5>1. j \in 1 .. Len(s) /\ s[j] = o /\ b = bs /\ q = p
          BY <1>6, <1>s, <3>2, <4>2
        <5>2. j \in DOMAIN t /\ t[j] = o
          BY <1>2, <1>6, <5>1
        <5> QED BY <5>1, <5>2, <1>3
      <4> QED BY <4>1, <4>2
    <3> QED BY <3>1, <3>3 DEF Consistent
  <2> QED BY <2>1, <2>2
<1>8. ASSUME NEW b \in {"BUY", "SELL"}, NEW q \in Price, NEW j \in DOMAIN L2[b][q]
      PROVE  /\ L2[b][q][j] \in DOMAIN I2
             /\ BookSide(I2[L2[b][q][j]].side) = b
             /\ I2[L2[b][q][j]].price = q
             /\ \A i \in DOMAIN L2[b][q] : L2[b][q][i] = L2[b][q][j] => i = j
  <2>1. CASE <<b, q>> # <<bs, p>>
    <3>1. L2[b][q] = lvls[b][q]
      BY <2>1, <1>3
    <3>2. SoundAt(lvls[b][q], index, b, q, j)
      BY <3>1, LevelOrders, Zenon
    <3> QED BY <3>1, <3>2, <1>4, Zenon DEF SoundAt
  <2>2. CASE <<b, q>> = <<bs, p>>
    <3>1. L2[b][q] = t /\ b = bs /\ q = p /\ j \in 1 .. (Len(s) + 1)
      BY <2>2, <1>3, <1>6
    <3>3. j \in 1 .. Len(s) \/ j = Len(s) + 1
      BY <3>1, <1>2
    <3>4. CASE j \in 1 .. Len(s)
      <4>1. t[j] = s[j]
        BY <1>2, <3>4
      <4>2. ASSUME NEW i \in DOMAIN t, t[i] = t[j]
            PROVE  i = j
        <5>1. i \in 1 .. Len(s) \/ i = Len(s) + 1
          BY <1>2, <1>6
        <5> QED BY <5>1, <1>2, <1>e, <3>4, <4>1, <4>2
      <4>3. t[j] \in DOMAIN index /\ I2[t[j]] = index[t[j]]
        BY <4>1, <3>4, <1>4, <1>e
      <4> QED BY <3>1, <3>4, <4>1, <4>2, <4>3, <1>4, <1>e
    <3>5. CASE j = Len(s) + 1
      <4>1. ASSUME NEW i \in DOMAIN t, t[i] = t[j]
            PROVE  i = j
        <5>1. i \in 1 .. Len(s) \/ i = Len(s) + 1
          BY <1>2, <1>6
        <5> QED BY <5>1, <1>2, <1>e, <3>5, <4>1
      <4> QED BY <3>1, <3>5, <4>1, <1>2, <1>4
    <3> QED BY <3>3, <3>4, <3>5
  <2> QED BY <2>1, <2>2
<1>9. Consistent(L2, I2)
  BY <1>7, <1>8 DEF Consistent
<1> QED BY <1>3, <1>5, <1>9 DEF L2, I2

\* removeOrder of an indexed order never takes its early return, finds the order
\* in its level and leaves a consistent book without it.
LEMMA RemoveEffect ==
  ASSUME WellTyped, BookConsistent, NEW id \in DOMAIN order_index
  PROVE  /\ PositionOf(id) \in DOMAIN LevelOf(id)
         /\ LevelOf(id)[PositionOf(id)] = id
         /\ UnlinkedLevels(id) =
              [levels EXCEPT ![BookSide(order_index[id].side)][order_index[id].price] =
                               Unlinked(@, PositionOf(id))]
         /\ IndexWithout(id) = [o \in DOMAIN order_index \ {id} |-> order_index[o]]
         /\ UnlinkedLevels(id) \in Levels
         /\ IsIndex(IndexWithout(id))
         /\ Consistent(UnlinkedLevels(id), IndexWithout(id))
<1> DEFINE bs == BookSide(order_index[id].side)
           p == order_index[id].price
<1>1. levels \in Levels /\ IsIndex(order_index)
  BY DEF WellTyped, Levels, IsIndex
<1>2. \E k \in DOMAIN LevelOf(id) : LevelOf(id)[k] = id
  BY DEF BookConsistent, Consistent, LevelOf
<1>3. PositionOf(id) \in DOMAIN LevelOf(id) /\ LevelOf(id)[PositionOf(id)] = id
  BY <1>2 DEF PositionOf
<1>4. LevelOf(id) # <<>>
  BY <1>2
<1>5. LevelOf(id) = levels[bs][p]
  BY DEF LevelOf
<1>6. /\ UnlinkedLevels(id) = [levels EXCEPT ![bs][p] = Unlinked(@, PositionOf(id))]
      /\ IndexWithout(id) = [o \in DOMAIN order_index \ {id} |-> order_index[o]]
  BY <1>4 DEF UnlinkedLevels, IndexWithout
<1>7. UnlinkedLevels(id) \in Levels /\ IsIndex(IndexWithout(id))
      /\ Consistent(UnlinkedLevels(id), IndexWithout(id))
  <2> DEFINE k == PositionOf(id)
             L2 == [levels EXCEPT ![bs][p] = Unlinked(@, k)]
             I2 == [o \in DOMAIN order_index \ {id} |-> order_index[o]]
  <2>1. k \in DOMAIN levels[bs][p] /\ levels[bs][p][k] = id
    BY <1>3, <1>5
  <2>2. bs = BookSide(order_index[id].side) /\ p = order_index[id].price
    OBVIOUS
  <2>3. Consistent(levels, order_index)
    BY DEF BookConsistent
  <2>4. UnlinkedLevels(id) = L2 /\ IndexWithout(id) = I2
    BY <1>6
  <2> HIDE DEF k, bs, p
  <2>5. L2 \in Levels /\ IsIndex(I2) /\ Consistent(L2, I2)
    BY <1>1, <2>1, <2>2, <2>3, UnlinkConsistent, Zenon
  <2> HIDE DEF L2, I2
  <2> QED BY <2>4, <2>5
<1> QED BY <1>3, <1>6, <1>7

(***************************************************************************)
(* Types, consistency of index and levels, and the incoming order outside  *)
(* the book: inductive together.                                           *)
(***************************************************************************)
ConsistencyInv == WellTyped /\ BookConsistent /\ IncomingOutsideBook

\* The facts about the cursor that every step of matchIncoming starts from.
LEMMA NodeIsIndexed ==
  ASSUME ConsistencyInv, incoming # None, ~LevelSwept, incoming.level_price # None
  PROVE  /\ incoming \in IncomingOrder
         /\ incoming.level_price \in Price
         /\ OppositeSide(incoming.side) \in {"BUY", "SELL"}
         /\ incoming.pos \in DOMAIN OppositeLevels[incoming.level_price]
         /\ Node \in DOMAIN order_index
         /\ order_index[Node] \in BookOrder
         /\ BookSide(order_index[Node].side) = OppositeSide(incoming.side)
         /\ order_index[Node].price = incoming.level_price
         /\ order_index[Node].qty > 0
         /\ LevelOf(Node) = OppositeLevels[incoming.level_price]
         /\ PositionOf(Node) = incoming.pos
<1>1. incoming \in IncomingOrder /\ incoming.level_price \in Price /\ incoming.pos \in Nat \ {0}
  BY DEF ConsistencyInv, WellTyped, IncomingOrder
<1>2. OppositeSide(incoming.side) \in {"BUY", "SELL"}
  BY DEF OppositeSide
<1>3. OppositeLevels[incoming.level_price] \in Seq(OrderId)
  BY <1>1, <1>2 DEF ConsistencyInv, WellTyped, OppositeLevels
<1>4. incoming.pos \in DOMAIN OppositeLevels[incoming.level_price]
  BY <1>1, <1>3, LenProperties DEF LevelSwept
<1>5. /\ Node \in DOMAIN order_index
      /\ BookSide(order_index[Node].side) = OppositeSide(incoming.side)
      /\ order_index[Node].price = incoming.level_price
      /\ \A j \in DOMAIN OppositeLevels[incoming.level_price] :
           OppositeLevels[incoming.level_price][j] = Node => j = incoming.pos
  <2> DEFINE bs == OppositeSide(incoming.side)
             p == incoming.level_price
             i == incoming.pos
  <2>1. Consistent(levels, order_index) /\ bs \in {"BUY", "SELL"} /\ p \in Price
    BY <1>1, <1>2 DEF ConsistencyInv, BookConsistent
  <2>2. i \in DOMAIN levels[bs][p]
    BY <1>4 DEF OppositeLevels
  <2> HIDE DEF bs, p, i
  <2>3. SoundAt(levels[bs][p], order_index, bs, p, i)
    BY <2>1, <2>2, LevelOrders, Zenon
  <2> QED BY <2>3, Zenon DEF SoundAt, Node, OppositeLevels, bs, p, i
<1>6. order_index[Node] \in BookOrder /\ order_index[Node].qty > 0
  BY <1>5 DEF ConsistencyInv, WellTyped, BookConsistent, Consistent
<1>7. LevelOf(Node) = OppositeLevels[incoming.level_price]
  BY <1>5 DEF LevelOf, OppositeLevels
<1>8. PositionOf(Node) \in DOMAIN LevelOf(Node) /\ LevelOf(Node)[PositionOf(Node)] = Node
  BY <1>5, RemoveEffect, Zenon DEF ConsistencyInv
<1>9. PositionOf(Node) = incoming.pos
  BY <1>5, <1>7, <1>8
<1> QED BY <1>1, <1>2, <1>4, <1>5, <1>6, <1>7, <1>9

\* Changing only quantities of indexed orders, to positive ones, keeps the book
\* consistent.
LEMMA RequantifyConsistent ==
  ASSUME ConsistencyInv, NEW id \in DOMAIN order_index,
         NEW order \in BookOrder, order.qty > 0,
         order.side = order_index[id].side, order.price = order_index[id].price
  PROVE  LET I2 == [order_index EXCEPT ![id] = order]
         IN  DOMAIN I2 = DOMAIN order_index /\ IsIndex(I2) /\ Consistent(levels, I2)
<1> DEFINE I2 == [order_index EXCEPT ![id] = order]
<1>1. DOMAIN I2 = DOMAIN order_index /\ IsIndex(I2)
  BY DEF ConsistencyInv, WellTyped, IsIndex
<1>2. \A o \in DOMAIN order_index :
        /\ I2[o].qty > 0
        /\ I2[o].side = order_index[o].side /\ I2[o].price = order_index[o].price
  BY DEF ConsistencyInv, WellTyped, BookConsistent, Consistent
<1> HIDE DEF I2
<1>3. Consistent(levels, I2)
  <2>1. Consistent(levels, order_index)
    BY DEF ConsistencyInv, BookConsistent
  <2>2. ASSUME NEW o \in DOMAIN I2
        PROVE  /\ I2[o].qty > 0
               /\ \E k \in DOMAIN levels[BookSide(I2[o].side)][I2[o].price] :
                    levels[BookSide(I2[o].side)][I2[o].price][k] = o
    <3>1. o \in DOMAIN order_index /\ I2[o].qty > 0
      BY <1>1, <1>2
    <3>2. I2[o].side = order_index[o].side /\ I2[o].price = order_index[o].price
      BY <3>1, <1>2
    <3>3. \E k \in DOMAIN levels[BookSide(order_index[o].side)][order_index[o].price] :
            levels[BookSide(order_index[o].side)][order_index[o].price][k] = o
      BY <2>1, <3>1, Zenon DEF Consistent
    <3> QED BY <3>1, <3>2, <3>3
  <2>3. ASSUME NEW bs \in {"BUY", "SELL"}, NEW p \in Price, NEW i \in DOMAIN levels[bs][p]
        PROVE  SoundAt(levels[bs][p], I2, bs, p, i)
    <3>1. SoundAt(levels[bs][p], order_index, bs, p, i)
      BY <2>1, LevelOrders, Zenon
    <3>2. levels[bs][p][i] \in DOMAIN order_index
      BY <3>1 DEF SoundAt
    <3>3. /\ I2[levels[bs][p][i]].side = order_index[levels[bs][p][i]].side
          /\ I2[levels[bs][p][i]].price = order_index[levels[bs][p][i]].price
      BY <1>2, <3>2
    <3> QED BY <3>1, <3>3, <1>1, SoundAtSame, Zenon
  <2> QED BY <2>2, <2>3, ConsistentIf
<1> QED BY <1>1, <1>3 DEF I2

IncomingTyped(order) ==
  /\ order \in IncomingOrder \cup {None}
  /\ order # None =>
       /\ order.rests => order.has_limit_price
       /\ order.has_limit_price => order.limit_price \in Price

\* The invariant after a step, from its three parts.
LEMMA ConsistencyParts ==
  /\ ConsistencyInv <=>
       /\ levels \in Levels /\ IsIndex(order_index) /\ IncomingTyped(incoming)
       /\ Consistent(levels, order_index)
       /\ incoming # None => incoming.order_id \notin DOMAIN order_index
  /\ (levels' \in Levels /\ IsIndex(order_index') /\ IncomingTyped(incoming')
      /\ Consistent(levels', order_index')
      /\ (incoming' # None => incoming'.order_id \notin DOMAIN order_index'))
     => ConsistencyInv'
BY DEF ConsistencyInv, WellTyped, BookConsistent, IncomingOutsideBook, Levels, IsIndex, IncomingTyped

\* A request that starts matching: every field of the incoming order is typed.
LEMMA StartTyped ==
  ASSUME NEW c \in ClientId, NEW o \in OrderId, NEW side \in Side, NEW price,
         NEW limited \in BOOLEAN, NEW rests \in BOOLEAN, NEW qty \in Nat,
         price \in Price \cup {Invalid_Price}, limited => price \in Price, rests => limited,
         StartMatching(c, o, side, price, limited, rests, qty)
  PROVE  IncomingTyped(incoming') /\ incoming'.order_id = o
<1>1. incoming' \in IncomingOrder
  BY DEF StartMatching, IncomingOrder
<1>2. /\ incoming'.rests = rests /\ incoming'.has_limit_price = limited
      /\ incoming'.limit_price = price /\ incoming'.order_id = o
  BY DEF StartMatching
<1> QED BY <1>1, <1>2 DEF IncomingTyped

\* One step of matchIncoming.
LEMMA MatchingKeepsConsistency ==
  ASSUME ConsistencyInv, matchIncoming
  PROVE  ConsistencyInv'
<1> USE ConsistencyParts
<1>1. CASE enterLevel
  <2>1. PICK p \in Price : incoming' = [incoming EXCEPT !.level_price = p, !.pos = 1]
    BY <1>1, Zenon DEF enterLevel
  <2>2. incoming # None /\ incoming \in IncomingOrder /\ UNCHANGED <<levels, order_index>>
    BY <1>1 DEF enterLevel, IncomingTyped
  <2>3. IncomingTyped(incoming') /\ incoming'.order_id = incoming.order_id
    <3>1. incoming' \in IncomingOrder
      <4> DEFINE entered == [incoming EXCEPT !.level_price = p]
      <4>1. entered \in IncomingOrder
        BY <2>2 DEF IncomingOrder
      <4>2. incoming' = [entered EXCEPT !.pos = 1]
        BY <2>1
      <4> HIDE DEF entered
      <4> QED BY <4>1, <4>2 DEF IncomingOrder
    <3>2. /\ incoming'.rests = incoming.rests
          /\ incoming'.has_limit_price = incoming.has_limit_price
          /\ incoming'.limit_price = incoming.limit_price
          /\ incoming'.order_id = incoming.order_id
      BY <2>1, <2>2 DEF IncomingOrder
    <3> QED BY <2>2, <3>1, <3>2 DEF IncomingTyped
  <2> QED BY <2>2, <2>3
<1>2. CASE skipNode
  <2>1. incoming # None /\ incoming \in IncomingOrder /\ UNCHANGED <<levels, order_index>>
    BY <1>2 DEF skipNode, IncomingTyped
  <2>2. incoming' = [incoming EXCEPT !.pos = incoming.pos + 1]
    BY <1>2 DEF skipNode
  <2>3. IncomingTyped(incoming') /\ incoming'.order_id = incoming.order_id
    BY <2>1, <2>2 DEF IncomingTyped, IncomingOrder
  <2> QED BY <2>1, <2>3
<1>3. CASE fillNodeFully
  <2> DEFINE node == order_index[Node]
  <2>1. /\ incoming # None /\ ~LevelSwept /\ incoming.level_price # None
        /\ node.qty <= incoming.leaves_qty
        /\ incoming' = [incoming EXCEPT !.leaves_qty = incoming.leaves_qty - node.qty]
        /\ levels' = UnlinkedLevels(Node) /\ order_index' = IndexWithout(Node)
    BY <1>3 DEF fillNodeFully, removeOrder
  <2>2. incoming \in IncomingOrder /\ Node \in DOMAIN order_index /\ node \in BookOrder
    BY <2>1, NodeIsIndexed
  <2>3. incoming.leaves_qty - node.qty \in Nat
    BY <2>1, <2>2 DEF IncomingOrder, BookOrder
  <2>4. IncomingTyped(incoming') /\ incoming'.order_id = incoming.order_id
    <3> HIDE DEF node
    <3> QED BY <2>1, <2>2, <2>3 DEF IncomingTyped, IncomingOrder
  <2>5. /\ UnlinkedLevels(Node) \in Levels /\ IsIndex(IndexWithout(Node))
        /\ Consistent(UnlinkedLevels(Node), IndexWithout(Node))
        /\ DOMAIN IndexWithout(Node) \subseteq DOMAIN order_index
    BY <2>2, RemoveEffect, ZenonT(60) DEF ConsistencyInv
  <2> QED BY <2>1, <2>4, <2>5
<1>4. CASE fillNodePartly
  <2> DEFINE node == order_index[Node]
             fill_qty == MinQty(incoming.leaves_qty, node.qty)
             order == [node EXCEPT !.qty = node.qty - fill_qty]
  <2>1. /\ incoming # None /\ ~LevelSwept /\ incoming.level_price # None /\ CanFill
        /\ fill_qty < node.qty
        /\ incoming' = [incoming EXCEPT !.leaves_qty = incoming.leaves_qty - fill_qty,
                                        !.pos = incoming.pos + 1]
        /\ order_index' = [order_index EXCEPT ![Node].qty = order_index[Node].qty - fill_qty]
        /\ levels' = levels
    BY <1>4 DEF fillNodePartly
  <2>2. incoming \in IncomingOrder /\ Node \in DOMAIN order_index /\ node \in BookOrder
    BY <2>1, NodeIsIndexed
  <2>3. /\ incoming.leaves_qty - fill_qty \in Nat
        /\ node.qty - fill_qty \in Nat /\ node.qty - fill_qty > 0
    BY <2>1, <2>2 DEF IncomingOrder, BookOrder, MinQty
  <2>4. IncomingTyped(incoming') /\ incoming'.order_id = incoming.order_id
    <3> HIDE DEF fill_qty
    <3>1. incoming' \in IncomingOrder
      <4> DEFINE filled == [incoming EXCEPT !.leaves_qty = incoming.leaves_qty - fill_qty]
      <4>1. filled \in IncomingOrder
        BY <2>2, <2>3 DEF IncomingOrder
      <4>2. incoming' = [filled EXCEPT !.pos = incoming.pos + 1]
        BY <2>1
      <4>3. incoming.pos + 1 \in Nat \ {0}
        BY <2>2 DEF IncomingOrder
      <4> HIDE DEF filled
      <4> QED BY <4>1, <4>2, <4>3 DEF IncomingOrder
    <3>2. /\ incoming'.rests = incoming.rests
          /\ incoming'.has_limit_price = incoming.has_limit_price
          /\ incoming'.limit_price = incoming.limit_price
          /\ incoming'.order_id = incoming.order_id
      BY <2>1, <2>2 DEF IncomingOrder
    <3> QED BY <2>1, <3>1, <3>2 DEF IncomingTyped
  <2>5. order \in BookOrder /\ order.qty > 0 /\ order.side = node.side /\ order.price = node.price
    <3> HIDE DEF fill_qty
    <3> QED BY <2>2, <2>3 DEF BookOrder
  <2>6. order_index' = [order_index EXCEPT ![Node] = order]
    BY <2>1
  <2>7. DOMAIN order_index' = DOMAIN order_index /\ IsIndex(order_index')
        /\ Consistent(levels, order_index')
    <3> HIDE DEF order
    <3> QED BY <2>2, <2>5, <2>6, RequantifyConsistent, Zenon
  <2> QED BY <2>1, <2>4, <2>7
<1> QED BY <1>1, <1>2, <1>3, <1>4 DEF matchIncoming

\* What happens to the remainder.
LEMMA FinishKeepsConsistency ==
  ASSUME ConsistencyInv, restRemainder \/ cancelRemainder \/ completelyFilled
  PROVE  ConsistencyInv'
<1> USE ConsistencyParts
<1>1. incoming' = None /\ IncomingTyped(incoming')
  BY DEF restRemainder, cancelRemainder, completelyFilled, IncomingTyped
<1>2. CASE restRemainder
  <2> DEFINE order == [client_id |-> incoming.client_id, side |-> incoming.side,
                       price |-> incoming.limit_price,
                       original_qty |-> incoming.qty, qty |-> incoming.leaves_qty]
             id == incoming.order_id
  <2>1. /\ incoming # None /\ incoming.leaves_qty > 0 /\ incoming.rests
        /\ levels' = Appended(levels, id, order)
        /\ order_index' = Rested(order_index, id, order)
    BY <1>2 DEF restRemainder, restOrder, MatchingDone
  <2>2. incoming \in IncomingOrder /\ incoming.limit_price \in Price
    BY <2>1 DEF IncomingTyped
  <2>3. order \in BookOrder /\ order.qty > 0 /\ id \in OrderId /\ id \notin DOMAIN order_index
    BY <2>1, <2>2 DEF IncomingOrder, BookOrder
  <2> HIDE DEF order, id
  <2>4. /\ levels' \in Levels /\ IsIndex(order_index')
        /\ Consistent(levels', order_index')
    BY <2>1, <2>3, AppendConsistent
  <2> QED BY <1>1, <2>4
<1>3. CASE cancelRemainder
  BY <1>1, <1>3 DEF cancelRemainder
<1>4. CASE completelyFilled
  BY <1>1, <1>4 DEF completelyFilled
<1> QED BY <1>2, <1>3, <1>4

\* addLimitOrder, addMarketOrder and addIOCOrder, up to the start of matching.
LEMMA AddOrderKeepsConsistency ==
  ASSUME ConsistencyInv, NEW req \in Request, req.qty \in Nat, incoming = None,
         NEW price, NEW limited \in BOOLEAN, NEW rests \in BOOLEAN,
         price \in Price \cup {Invalid_Price}, limited => price \in Price, rests => limited,
         AddOrder(req, price, limited, rests)
  PROVE  ConsistencyInv'
<1> USE ConsistencyParts
<1>1. req.client_id \in ClientId /\ req.order_id \in OrderId /\ req.side \in Side
  BY RequestAssumption
<1>2. CASE req.order_id \in DOMAIN order_index
  <2>1. UNCHANGED <<levels, order_index, incoming>>
    BY <1>2 DEF AddOrder, Reject
  <2> QED BY <2>1
<1>3. CASE req.order_id \notin DOMAIN order_index
  <2>1. /\ StartMatching(req.client_id, req.order_id, req.side, price, limited, rests, req.qty)
        /\ UNCHANGED <<levels, order_index>>
    BY <1>3 DEF AddOrder
  <2>2. incoming' \in IncomingOrder
    BY <1>1, <2>1 DEF StartMatching, IncomingOrder
  <2>3. /\ incoming'.rests = rests /\ incoming'.has_limit_price = limited
        /\ incoming'.limit_price = price /\ incoming'.order_id = req.order_id
    BY <2>1 DEF StartMatching
  <2>4. IncomingTyped(incoming')
    BY <2>2, <2>3 DEF IncomingTyped
  <2> QED BY <1>3, <2>1, <2>3, <2>4
<1> QED BY <1>2, <1>3

\* modifyOrder of an order the client owns.
LEMMA ModifyKeepsConsistency ==
  ASSUME ConsistencyInv, NEW req \in Request, incoming = None, ~BadModify(req),
         NEW order, order = order_index[req.order_id],
         \/ repriceOrder(req, order) \/ decreaseOrder(req, order)
         \/ increaseOrder(req, order) \/ keepOrder(req, order)
  PROVE  ConsistencyInv'
<1> USE ConsistencyParts
<1> DEFINE id == req.order_id
<1>1. /\ req.client_id \in ClientId /\ id \in OrderId /\ req.price \in Price
      /\ req.qty \in Nat /\ req.qty > 0
  BY RequestAssumption DEF BadModify
<1>2. id \in DOMAIN order_index /\ order \in BookOrder
  BY DEF BadModify, OwnsResting, IsIndex
<1>3. /\ UnlinkedLevels(id) \in Levels /\ IsIndex(IndexWithout(id))
      /\ Consistent(UnlinkedLevels(id), IndexWithout(id))
      /\ id \notin DOMAIN IndexWithout(id)
  BY <1>2, RemoveEffect, Zenon DEF ConsistencyInv
<1>4. CASE repriceOrder(req, order)
  <2>1. /\ levels' = UnlinkedLevels(id) /\ order_index' = IndexWithout(id)
        /\ StartMatching(req.client_id, id, order.side, req.price, TRUE, TRUE, req.qty)
    BY <1>4, Zenon DEF repriceOrder, removeOrder
  <2>2. order.side \in Side
    BY <1>2 DEF BookOrder
  <2>3. IncomingTyped(incoming') /\ incoming'.order_id = id
    <3> HIDE DEF id
    <3> QED BY <1>1, <2>1, <2>2, StartTyped, Zenon
  <2> QED BY <1>3, <2>1, <2>3
<1>5. CASE decreaseOrder(req, order)
  <2> DEFINE smaller == [order EXCEPT !.qty = req.qty, !.original_qty = req.qty]
  <2>1. smaller \in BookOrder /\ smaller.qty > 0 /\ smaller.side = order.side
        /\ smaller.price = order.price
    BY <1>1, <1>2, Zenon DEF BookOrder
  <2>2. order_index' = [order_index EXCEPT ![id] = smaller] /\ UNCHANGED <<levels, incoming>>
    BY <1>2, <1>5, Zenon DEF decreaseOrder, IsIndex
  <2> HIDE DEF smaller
  <2>3. IsIndex(order_index') /\ Consistent(levels, order_index')
    BY <1>2, <2>1, <2>2, RequantifyConsistent, Zenon
  <2> QED BY <2>2, <2>3
<1>6. CASE increaseOrder(req, order)
  <2> DEFINE larger == [order EXCEPT !.qty = req.qty, !.original_qty = req.qty]
  <2>1. larger \in BookOrder /\ larger.qty > 0
    BY <1>1, <1>2, Zenon DEF BookOrder
  <2>2. /\ levels' = Appended(UnlinkedLevels(id), id, larger)
        /\ order_index' = Rested(IndexWithout(id), id, larger)
        /\ incoming' = incoming
    BY <1>6 DEF increaseOrder, restOrder
  <2> HIDE DEF larger, id
  <2>3. levels' \in Levels /\ IsIndex(order_index') /\ Consistent(levels', order_index')
    BY <1>1, <1>3, <2>1, <2>2, AppendConsistent
  <2> QED BY <2>2, <2>3
<1>7. CASE keepOrder(req, order)
  BY <1>7 DEF keepOrder
<1> QED BY <1>4, <1>5, <1>6, <1>7

\* processRequest.
LEMMA RequestKeepsConsistency ==
  ASSUME ConsistencyInv, NEW req \in Request, processRequest(req)
  PROVE  ConsistencyInv'
<1> USE ConsistencyParts
<1>1. incoming = None /\ req.qty \in Nat /\ req.price \in Int
  BY RequestAssumption DEF processRequest
<1>2. CASE UNCHANGED <<levels, order_index, incoming>>
  BY <1>2
<1>3. CASE ~Malformed(req) /\ req.order_type = "LIMIT" /\ addLimitOrder(req)
  <2>1. req.price \in Price
    BY <1>1, <1>3, RequestAssumption DEF Malformed
  <2> QED BY <1>1, <1>3, <2>1, AddOrderKeepsConsistency, Zenon DEF addLimitOrder
<1>4. CASE addMarketOrder(req)
  BY <1>1, <1>4, AddOrderKeepsConsistency, Zenon DEF addMarketOrder
<1>5. CASE ~Malformed(req) /\ req.order_type = "IOC" /\ addIOCOrder(req)
  <2>1. req.price \in Price
    BY <1>1, <1>5, RequestAssumption DEF Malformed
  <2> QED BY <1>1, <1>5, <2>1, AddOrderKeepsConsistency, Zenon DEF addIOCOrder
<1>6. CASE OwnsResting(req) /\ removeOrder(req.order_id) /\ UNCHANGED incoming
  <2>1. req.order_id \in DOMAIN order_index
    BY <1>6 DEF OwnsResting
  <2>2. /\ levels' = UnlinkedLevels(req.order_id) /\ order_index' = IndexWithout(req.order_id)
    BY <1>6 DEF removeOrder
  <2> QED BY <1>1, <1>6, <2>1, <2>2, RemoveEffect, Zenon DEF ConsistencyInv
<1>7. CASE modifyOrder(req)
  <2>1. CASE BadModify(req) /\ Reject("MODIFY_REJECTED", req)
    BY <1>2, <2>1 DEF Reject
  <2>2. CASE ~BadModify(req)
    BY <1>1, <1>7, <2>2, ModifyKeepsConsistency DEF modifyOrder
  <2> QED BY <1>7, <2>1, <2>2 DEF modifyOrder
<1>8. CASE cancelOrder(req)
  BY <1>2, <1>6, <1>8 DEF cancelOrder, Reject
<1>9. CASE Malformed(req) /\ Reject("REJECTED", req)
  BY <1>2, <1>9 DEF Reject
<1> QED BY <1>3, <1>4, <1>5, <1>7, <1>8, <1>9 DEF processRequest

LEMMA InitConsistent == Init => ConsistencyInv
<1> SUFFICES ASSUME Init PROVE ConsistencyInv
  OBVIOUS
<1>1. levels \in Levels /\ IsIndex(order_index) /\ incoming = None
  BY DEF Init, Levels, IsIndex
<1>2. Consistent(levels, order_index)
  BY DEF Init, Consistent
<1> QED BY <1>1, <1>2, ConsistencyParts DEF IncomingTyped

LEMMA ConsistencyStep == ConsistencyInv /\ [Next]_vars => ConsistencyInv'
<1> SUFFICES ASSUME ConsistencyInv, [Next]_vars PROVE ConsistencyInv'
  OBVIOUS
<1>1. CASE matchIncoming
  BY <1>1, MatchingKeepsConsistency
<1>2. CASE restRemainder \/ cancelRemainder \/ completelyFilled
  BY <1>2, FinishKeepsConsistency
<1>3. CASE \E req \in Request : processRequest(req)
  BY <1>3, RequestKeepsConsistency
<1>4. CASE UNCHANGED vars
  BY <1>4, ConsistencyParts DEF vars
<1> QED BY <1>1, <1>2, <1>3, <1>4 DEF Next, Matching

\* WellTyped, BookConsistent and IncomingOutsideBook hold in every reachable state:
\* however requests, fills and modifications follow one another, order_index_ and
\* the price levels describe the same orders, so removeOrder's defensive return
\* is dead code.
THEOREM BookStaysConsistent == Spec => [](WellTyped /\ BookConsistent /\ IncomingOutsideBook)
<1>1. ConsistencyInv <=> WellTyped /\ BookConsistent /\ IncomingOutsideBook
  BY DEF ConsistencyInv
<1> QED BY <1>1, InitConsistent, ConsistencyStep, PTL DEF Spec

\* The order being matched is never in the book, also while a re-pricing
\* modifyOrder is under way.
THEOREM IncomingStaysOutside == Spec => []IncomingOutsideBook
BY BookStaysConsistent, PTL

(***************************************************************************)
(* What each step of matchIncoming does to the quantities, for the modules *)
(* that compose the book with readers of its output.                       *)
(***************************************************************************)
LEMMA MovingEffect ==
  ASSUME ConsistencyInv, enterLevel \/ skipNode
  PROVE  /\ incoming # None /\ incoming \in IncomingOrder /\ incoming' # None
         /\ incoming'.order_id = incoming.order_id /\ incoming'.qty = incoming.qty
         /\ incoming'.leaves_qty = incoming.leaves_qty
         /\ order_index' = order_index /\ responses' = <<>> /\ updates' = <<>>
<1>1. /\ incoming # None /\ incoming \in IncomingOrder
      /\ order_index' = order_index /\ responses' = <<>> /\ updates' = <<>>
  BY Zenon DEF enterLevel, skipNode, Publish, ConsistencyInv, WellTyped
<1>2. CASE enterLevel
  <2>1. PICK p \in Price : incoming' = [incoming EXCEPT !.level_price = p, !.pos = 1]
    BY <1>2, Zenon DEF enterLevel
  <2> DEFINE entered == [incoming EXCEPT !.level_price = p]
  <2>2. /\ entered \in IncomingOrder /\ incoming' = [entered EXCEPT !.pos = 1]
        /\ entered.order_id = incoming.order_id /\ entered.qty = incoming.qty
        /\ entered.leaves_qty = incoming.leaves_qty
    BY <1>1, <2>1 DEF IncomingOrder
  <2> HIDE DEF entered
  <2>3. incoming' \in IncomingOrder
    BY <2>2 DEF IncomingOrder
  <2>4. /\ incoming'.order_id = incoming.order_id /\ incoming'.qty = incoming.qty
        /\ incoming'.leaves_qty = incoming.leaves_qty
    BY <2>2 DEF IncomingOrder
  <2> QED BY <1>1, <2>3, <2>4, NoneAssumption
<1>3. CASE skipNode
  <2>1. incoming' \in IncomingOrder
    BY <1>1, <1>3 DEF skipNode, IncomingOrder
  <2>2. /\ incoming'.order_id = incoming.order_id /\ incoming'.qty = incoming.qty
        /\ incoming'.leaves_qty = incoming.leaves_qty
    BY <1>1, <1>3 DEF skipNode, IncomingOrder
  <2> QED BY <1>1, <2>1, <2>2, NoneAssumption
<1> QED BY <1>2, <1>3

FillQty == MinQty(incoming.leaves_qty, order_index[Node].qty)

\* What the two ways to fill the order at the cursor have in common.
LEMMA FillEffect ==
  ASSUME ConsistencyInv, fillNodeFully \/ fillNodePartly
  PROVE  /\ incoming # None /\ incoming \in IncomingOrder /\ incoming.leaves_qty > 0
         /\ Node \in DOMAIN order_index /\ order_index[Node] \in BookOrder /\ order_index[Node].qty > 0
         /\ FillQty \in Nat /\ FillQty <= incoming.leaves_qty /\ FillQty <= order_index[Node].qty
         /\ incoming' # None /\ incoming'.order_id = incoming.order_id /\ incoming'.qty = incoming.qty
         /\ incoming'.leaves_qty = incoming.leaves_qty - FillQty
         /\ responses' = FillResponses(order_index[Node], FillQty)
<1> DEFINE node == order_index[Node]
<1>1. incoming # None /\ ~LevelSwept /\ incoming.level_price # None /\ CanFill
  BY DEF fillNodeFully, fillNodePartly
<1>2. incoming \in IncomingOrder /\ Node \in DOMAIN order_index /\ node \in BookOrder /\ node.qty > 0
  BY <1>1, NodeIsIndexed
<1>3. /\ incoming.leaves_qty > 0 /\ incoming.leaves_qty \in Nat /\ node.qty \in Nat
      /\ incoming.pos + 1 \in Nat \ {0}
  BY <1>1, <1>2 DEF CanFill, IncomingOrder, BookOrder
<1>4. FillQty \in Nat /\ FillQty <= incoming.leaves_qty /\ FillQty <= node.qty
      /\ incoming.leaves_qty - FillQty \in Nat
  BY <1>3 DEF FillQty, MinQty
<1> DEFINE filled == [incoming EXCEPT !.leaves_qty = incoming.leaves_qty - FillQty]
<1>5. /\ filled \in IncomingOrder /\ filled.order_id = incoming.order_id
      /\ filled.qty = incoming.qty /\ filled.leaves_qty = incoming.leaves_qty - FillQty
  BY <1>2, <1>4 DEF IncomingOrder
<1>6. CASE fillNodeFully
  <2>1. FillQty = node.qty
    BY <1>3, <1>6 DEF fillNodeFully, FillQty, MinQty
  <2>2. incoming' = filled /\ responses' = FillResponses(node, FillQty)
    BY <1>6, <2>1 DEF fillNodeFully, Publish
  <2> QED BY <1>1, <1>2, <1>3, <1>4, <1>5, <2>2, NoneAssumption
<1>7. CASE fillNodePartly
  <2>1. incoming' = [filled EXCEPT !.pos = incoming.pos + 1] /\ responses' = FillResponses(node, FillQty)
    BY <1>2, <1>7 DEF fillNodePartly, Publish, FillQty, IncomingOrder
  <2> HIDE DEF filled
  <2>2. incoming' \in IncomingOrder
    BY <1>3, <1>5, <2>1 DEF IncomingOrder
  <2>3. /\ incoming'.order_id = incoming.order_id /\ incoming'.qty = incoming.qty
        /\ incoming'.leaves_qty = incoming.leaves_qty - FillQty
    BY <1>5, <2>1 DEF IncomingOrder
  <2> QED BY <1>1, <1>2, <1>3, <1>4, <2>1, <2>2, <2>3, NoneAssumption
<1> QED BY <1>6, <1>7

\* A full fill takes the order at the cursor out of the index.
LEMMA FullFillIndex ==
  ASSUME ConsistencyInv, fillNodeFully
  PROVE  /\ FillQty = order_index[Node].qty
         /\ order_index' = [o \in DOMAIN order_index \ {Node} |-> order_index[o]]
<1>1. /\ incoming # None /\ ~LevelSwept /\ incoming.level_price # None
      /\ order_index[Node].qty <= incoming.leaves_qty /\ order_index' = IndexWithout(Node)
  BY DEF fillNodeFully, removeOrder
<1>2. Node \in DOMAIN order_index /\ incoming \in IncomingOrder /\ order_index[Node] \in BookOrder
  BY <1>1, NodeIsIndexed
<1>3. FillQty = order_index[Node].qty
  BY <1>1, <1>2 DEF FillQty, MinQty, IncomingOrder, BookOrder
<1> QED BY <1>1, <1>2, <1>3, RemoveEffect, Zenon DEF ConsistencyInv

\* A partial fill reduces its quantity.
LEMMA PartialFillIndex ==
  ASSUME ConsistencyInv, fillNodePartly
  PROVE  /\ DOMAIN order_index' = DOMAIN order_index
         /\ order_index'[Node].qty = order_index[Node].qty - FillQty
         /\ order_index'[Node].side = order_index[Node].side
         /\ order_index'[Node].price = order_index[Node].price
         /\ order_index'[Node].original_qty = order_index[Node].original_qty
         /\ \A o \in DOMAIN order_index : o # Node => order_index'[o] = order_index[o]
<1>1. /\ incoming # None /\ ~LevelSwept /\ incoming.level_price # None
      /\ order_index' = [order_index EXCEPT ![Node].qty = order_index[Node].qty - FillQty]
  BY DEF fillNodePartly, FillQty
<1>2. Node \in DOMAIN order_index /\ order_index[Node] \in BookOrder /\ IsIndex(order_index)
  BY <1>1, NodeIsIndexed, ConsistencyParts
<1> QED BY <1>1, <1>2 DEF BookOrder, IsIndex

(***************************************************************************)
(* What a request does before matching starts, in five kinds.              *)
(***************************************************************************)
\* One response, of which the composed modules read these fields.
Responds(status, id, exec_qty, leaves_qty) ==
  \E x : /\ responses' = <<x>> /\ x.status = status /\ x.order_id = id
         /\ x.exec_qty = exec_qty /\ x.leaves_qty = leaves_qty

Rejecting ==
  /\ UNCHANGED <<order_index, incoming>> /\ updates' = <<>>
  /\ \E x : /\ responses' = <<x>>
            /\ x.status \in {"REJECTED", "CANCEL_REJECTED", "MODIFY_REJECTED"}

\* Matching starts for order id.
Taking(id, q) ==
  /\ q \in Nat /\ q > 0 /\ id \in OrderId
  /\ incoming' # None /\ incoming'.order_id = id /\ incoming'.qty = q /\ incoming'.leaves_qty = q

Accepting(id, q) ==
  /\ id \notin DOMAIN order_index /\ order_index' = order_index
  /\ Taking(id, q) /\ Responds("ACCEPTED", id, 0, q) /\ updates' = <<>>

Cancelling(id) ==
  /\ id \in DOMAIN order_index /\ order_index' = [o \in DOMAIN order_index \ {id} |-> order_index[o]]
  /\ incoming' = None /\ Responds("CANCELED", id, 0, 0)
  /\ \E side \in Side, price \in Price, q \in Nat : updates' = << BookUpdate("CANCEL", id, side, price, q) >>

Repricing(id, q) ==
  /\ id \in DOMAIN order_index /\ order_index' = [o \in DOMAIN order_index \ {id} |-> order_index[o]]
  /\ Taking(id, q) /\ Responds("MODIFIED", id, 0, q) /\ updates' = <<>>

Requantifying(id, q) ==
  /\ q \in Nat /\ q > 0
  /\ id \in DOMAIN order_index /\ DOMAIN order_index' = DOMAIN order_index
  /\ order_index'[id].qty = q /\ order_index'[id].side = order_index[id].side
  /\ order_index'[id].price = order_index[id].price
  /\ \A o \in DOMAIN order_index : o # id => order_index'[o] = order_index[o]
  /\ incoming' = None /\ Responds("MODIFIED", id, 0, q)
  /\ \/ updates' = <<>> /\ order_index' = order_index
     \/ \E side \in Side, price \in Price : updates' = << BookUpdate("MODIFY", id, side, price, q) >>

LEMMA RespondsIs ==
  ASSUME NEW status, NEW c, NEW id, NEW price, NEW e, NEW l,
         responses' = << Response(status, c, id, price, e, l) >>
  PROVE  Responds(status, id, e, l)
<1> DEFINE x == Response(status, c, id, price, e, l)
<1>1. x.status = status /\ x.order_id = id /\ x.exec_qty = e /\ x.leaves_qty = l
  BY DEF Response
<1> HIDE DEF x
<1>2. responses' = <<x>>
  BY DEF x
<1> QED BY <1>1, <1>2 DEF Responds

LEMMA RejectEffect ==
  ASSUME NEW req, NEW status \in {"REJECTED", "CANCEL_REJECTED", "MODIFY_REJECTED"},
         Reject(status, req)
  PROVE  Rejecting
<1> DEFINE x == IF status = "REJECTED"
                THEN Response(status, req.client_id, req.order_id, req.price, 0, req.qty)
                ELSE Response(status, req.client_id, req.order_id, Invalid_Price,
                              Invalid_Qty, Invalid_Qty)
<1>1. x.status = status
  BY DEF Response
<1>2. responses' = <<x>> /\ updates' = <<>> /\ UNCHANGED <<order_index, incoming>>
  BY DEF Reject, Publish
<1> HIDE DEF x
<1> QED BY <1>1, <1>2 DEF Rejecting

LEMMA TakingIs ==
  ASSUME NEW c \in ClientId, NEW o \in OrderId, NEW side \in Side, NEW price,
         NEW limited \in BOOLEAN, NEW rests \in BOOLEAN, NEW q \in Nat, q > 0,
         price \in Price \cup {Invalid_Price},
         StartMatching(c, o, side, price, limited, rests, q)
  PROVE  Taking(o, q)
<1>1. incoming' \in IncomingOrder
  BY DEF StartMatching, IncomingOrder
<1>2. incoming'.order_id = o /\ incoming'.qty = q /\ incoming'.leaves_qty = q
  BY DEF StartMatching
<1> QED BY <1>1, <1>2, NoneAssumption DEF Taking

LEMMA AddEffect ==
  ASSUME NEW req \in Request, req.qty > 0,
         NEW price, price \in Price \cup {Invalid_Price},
         NEW limited \in BOOLEAN, NEW rests \in BOOLEAN,
         AddOrder(req, price, limited, rests)
  PROVE  Rejecting \/ Accepting(req.order_id, req.qty)
<1>1. /\ req.client_id \in ClientId /\ req.order_id \in OrderId /\ req.side \in Side /\ req.qty \in Nat
  BY RequestAssumption
<1>2. CASE req.order_id \in DOMAIN order_index /\ Reject("REJECTED", [req EXCEPT !.price = price])
  BY <1>2, RejectEffect
<1>3. CASE /\ req.order_id \notin DOMAIN order_index
           /\ StartMatching(req.client_id, req.order_id, req.side, price, limited, rests, req.qty)
           /\ Publish(<< Response("ACCEPTED", req.client_id, req.order_id, price, 0, req.qty) >>, <<>>)
           /\ UNCHANGED <<levels, order_index>>
  <2>1. Taking(req.order_id, req.qty)
    BY <1>1, <1>3, TakingIs
  <2>2. Responds("ACCEPTED", req.order_id, 0, req.qty) /\ updates' = <<>>
    BY <1>3, RespondsIs DEF Publish
  <2> QED BY <1>3, <2>1, <2>2 DEF Accepting
<1> QED BY <1>2, <1>3 DEF AddOrder

LEMMA ModifyEffect ==
  ASSUME ConsistencyInv, NEW req \in Request, incoming = None, ~BadModify(req),
         NEW order, order = order_index[req.order_id],
         \/ repriceOrder(req, order) \/ decreaseOrder(req, order)
         \/ increaseOrder(req, order) \/ keepOrder(req, order)
  PROVE  Repricing(req.order_id, req.qty) \/ Requantifying(req.order_id, req.qty)
<1> DEFINE id == req.order_id
           q == req.qty
<1>1. /\ req.client_id \in ClientId /\ id \in OrderId /\ req.price \in Price /\ q \in Nat /\ q > 0
  BY RequestAssumption DEF BadModify
<1>2. id \in DOMAIN order_index /\ order \in BookOrder /\ IsIndex(order_index)
  BY ConsistencyParts DEF BadModify, OwnsResting, IsIndex
<1>3. IndexWithout(id) = [o \in DOMAIN order_index \ {id} |-> order_index[o]]
  BY <1>2, RemoveEffect, Zenon DEF ConsistencyInv
<1>4. CASE repriceOrder(req, order)
  <2>1. /\ order_index' = IndexWithout(id)
        /\ StartMatching(req.client_id, id, order.side, req.price, TRUE, TRUE, q)
        /\ responses' = << Response("MODIFIED", req.client_id, id, req.price, 0, q) >>
        /\ updates' = <<>> /\ order.side \in Side
    BY <1>2, <1>4 DEF repriceOrder, removeOrder, Publish, Modified, BookOrder
  <2>2. Taking(id, q)
    <3> HIDE DEF id, q
    <3> QED BY <1>1, <2>1, TakingIs
  <2>3. Responds("MODIFIED", id, 0, q)
    BY <2>1, RespondsIs
  <2> QED BY <1>2, <1>3, <2>1, <2>2, <2>3 DEF Repricing
<1>5. CASE decreaseOrder(req, order) \/ increaseOrder(req, order)
  <2> DEFINE changed == [order EXCEPT !.qty = q, !.original_qty = q]
  <2>1. changed.qty = q /\ changed.side = order.side /\ changed.price = order.price
    BY <1>1, <1>2 DEF BookOrder
  <2>2. /\ incoming' = None
        /\ responses' = << Response("MODIFIED", req.client_id, id, order.price, 0, q) >>
        /\ updates' = << BookUpdate("MODIFY", id, order.side, order.price, q) >>
        /\ order.side \in Side /\ order.price \in Price
    BY <1>2, <1>5 DEF decreaseOrder, increaseOrder, Publish, Modified, BookOrder
  <2>3. /\ DOMAIN order_index' = DOMAIN order_index /\ order_index'[id] = changed
        /\ \A o \in DOMAIN order_index : o # id => order_index'[o] = order_index[o]
    <3>1. CASE decreaseOrder(req, order)
      <4>1. order_index' = [order_index EXCEPT ![id] = changed]
        BY <1>2, <3>1 DEF decreaseOrder, IsIndex
      <4> HIDE DEF changed
      <4> QED BY <1>2, <4>1 DEF IsIndex
    <3>2. CASE increaseOrder(req, order)
      <4>1. order_index' = Rested(IndexWithout(id), id, changed)
        BY <3>2 DEF increaseOrder, restOrder
      <4> HIDE DEF changed, id
      <4> QED BY <1>2, <1>3, <4>1 DEF Rested
    <3> QED BY <1>5, <3>1, <3>2
  <2> HIDE DEF changed
  <2>4. Responds("MODIFIED", id, 0, q)
    BY <2>2, RespondsIs
  <2> QED BY <1>1, <1>2, <2>1, <2>2, <2>3, <2>4 DEF Requantifying
<1>6. CASE keepOrder(req, order)
  <2>1. /\ order_index' = order_index /\ incoming' = None /\ updates' = <<>> /\ order.qty = q
        /\ responses' = << Response("MODIFIED", req.client_id, id, order.price, 0, q) >>
    BY <1>6 DEF keepOrder, Publish, Modified
  <2>2. Responds("MODIFIED", id, 0, q)
    BY <2>1, RespondsIs
  <2> QED BY <1>1, <1>2, <2>1, <2>2 DEF Requantifying
<1> QED BY <1>4, <1>5, <1>6

\* Every request is of one of the five kinds.
RequestKinds(id, q) ==
  \/ Rejecting \/ Accepting(id, q) \/ Cancelling(id) \/ Repricing(id, q) \/ Requantifying(id, q)

LEMMA RequestEffect ==
  ASSUME ConsistencyInv, NEW req \in Request, processRequest(req)
  PROVE  /\ incoming = None /\ req.order_id \in OrderId
         /\ RequestKinds(req.order_id, req.qty)
<1> USE DEF RequestKinds
<1>1. incoming = None /\ req.qty \in Nat /\ req.order_id \in OrderId
  BY RequestAssumption DEF processRequest
<1>2. CASE Malformed(req) /\ Reject("REJECTED", req)
  BY <1>1, <1>2, RejectEffect
<1>3. CASE ~Malformed(req) /\ req.order_type \in {"LIMIT", "IOC"} /\ (addLimitOrder(req) \/ addIOCOrder(req))
  <2>1. req.price \in Price /\ req.qty > 0
    BY <1>1, <1>3, RequestAssumption DEF Malformed
  <2> QED BY <1>1, <1>3, <2>1, AddEffect DEF addLimitOrder, addIOCOrder
<1>4. CASE ~Malformed(req) /\ req.order_type = "MARKET" /\ addMarketOrder(req)
  <2>1. req.qty > 0
    BY <1>1, <1>4 DEF Malformed
  <2> QED BY <1>1, <1>4, <2>1, AddEffect DEF addMarketOrder
<1>5. CASE cancelOrder(req)
  <2>1. CASE Reject("CANCEL_REJECTED", req)
    BY <1>1, <2>1, RejectEffect
  <2>2. CASE /\ OwnsResting(req)
             /\ LET order == order_index[req.order_id] IN
                  /\ removeOrder(req.order_id)
                  /\ Publish(<< Response("CANCELED", req.client_id, req.order_id, order.price, 0, 0) >>,
                             << BookUpdate("CANCEL", req.order_id, order.side, order.price, order.qty) >>)
             /\ UNCHANGED incoming
    <3>1. req.order_id \in DOMAIN order_index /\ order_index' = IndexWithout(req.order_id)
      BY <2>2 DEF OwnsResting, removeOrder
    <3>2. order_index' = [o \in DOMAIN order_index \ {req.order_id} |-> order_index[o]]
      BY <3>1, RemoveEffect DEF ConsistencyInv
    <3>3. Responds("CANCELED", req.order_id, 0, 0)
      BY <2>2, RespondsIs DEF Publish
    <3>4. order_index[req.order_id] \in BookOrder
      BY <3>1 DEF ConsistencyInv, WellTyped
    <3>5. /\ incoming' = None
          /\ \E side \in Side, price \in Price, q \in Nat :
               updates' = << BookUpdate("CANCEL", req.order_id, side, price, q) >>
      BY <1>1, <2>2, <3>4 DEF Publish, BookOrder
    <3> QED BY <1>1, <3>1, <3>2, <3>3, <3>5 DEF Cancelling
  <2> QED BY <1>5, <2>1, <2>2 DEF cancelOrder
<1>6. CASE modifyOrder(req)
  <2>1. CASE Reject("MODIFY_REJECTED", req)
    BY <1>1, <2>1, RejectEffect
  <2>2. CASE ~BadModify(req)
    BY <1>1, <1>6, <2>2, ModifyEffect DEF modifyOrder
  <2> QED BY <1>6, <2>1, <2>2 DEF modifyOrder
<1> QED BY <1>2, <1>3, <1>4, <1>5, <1>6 DEF processRequest

(***************************************************************************)
(* The quantities.                                                         *)
(***************************************************************************)
SoundOrder(order) ==
  order.qty \in ValidQty /\ order.original_qty \in ValidQty /\ order.qty <= order.original_qty

SoundIncoming(order) == order # None => order.qty \in ValidQty /\ order.leaves_qty <= order.qty

LEMMA TypeParts ==
  /\ TypeOK <=> /\ WellTyped /\ SoundIncoming(incoming)
                /\ \A o \in DOMAIN order_index : SoundOrder(order_index[o])
  /\ TypeOK' <=> /\ WellTyped' /\ SoundIncoming(incoming')
                 /\ \A o \in DOMAIN order_index' : SoundOrder(order_index'[o])
BY Zenon DEF TypeOK, SoundOrder, SoundIncoming

\* A fill takes from both sides no more than they have left.
LEMMA MatchingKeepsQuantities ==
  ASSUME ConsistencyInv, TypeOK, matchIncoming
  PROVE  SoundIncoming(incoming') /\ \A o \in DOMAIN order_index' : SoundOrder(order_index'[o])
<1>0. SoundIncoming(incoming) /\ \A o \in DOMAIN order_index : SoundOrder(order_index[o])
  BY TypeParts
<1>1. CASE enterLevel \/ skipNode
  BY <1>0, <1>1, MovingEffect DEF SoundIncoming
<1>2. CASE fillNodeFully \/ fillNodePartly
  <2>1. /\ incoming # None /\ incoming \in IncomingOrder /\ FillQty \in Nat
        /\ incoming'.qty = incoming.qty /\ incoming'.leaves_qty = incoming.leaves_qty - FillQty
        /\ Node \in DOMAIN order_index /\ order_index[Node] \in BookOrder
    BY <1>2, FillEffect
  <2>2. SoundIncoming(incoming')
    BY <1>0, <2>1 DEF SoundIncoming, IncomingOrder, ValidQty
  <2>3. CASE fillNodeFully
    BY <1>0, <2>2, <2>3, FullFillIndex
  <2>4. CASE fillNodePartly
    <3>1. FillQty < order_index[Node].qty
      BY <2>4 DEF fillNodePartly, FillQty
    <3>2. /\ order_index'[Node].qty = order_index[Node].qty - FillQty
          /\ order_index'[Node].original_qty = order_index[Node].original_qty
      BY <2>4, PartialFillIndex
    <3>3. SoundOrder(order_index[Node]) /\ Invalid_Qty \in Nat
      BY <1>0, <2>1, PriceAssumption
    <3>4. SoundOrder(order_index'[Node])
      BY <2>1, <3>1, <3>2, <3>3 DEF SoundOrder, ValidQty
    <3> QED BY <1>0, <2>2, <2>4, <3>4, PartialFillIndex
  <2> QED BY <1>2, <2>3, <2>4
<1> QED BY <1>1, <1>2 DEF matchIncoming

\* What rests is what is left of the order.
LEMMA FinishKeepsQuantities ==
  ASSUME ConsistencyInv, TypeOK, restRemainder \/ cancelRemainder \/ completelyFilled
  PROVE  SoundIncoming(incoming') /\ \A o \in DOMAIN order_index' : SoundOrder(order_index'[o])
<1>0. SoundIncoming(incoming) /\ \A o \in DOMAIN order_index : SoundOrder(order_index[o])
  BY TypeParts
<1>1. incoming' = None
  BY DEF restRemainder, cancelRemainder, completelyFilled
<1>2. CASE restRemainder
  <2> DEFINE order == [client_id |-> incoming.client_id, side |-> incoming.side,
                       price |-> incoming.limit_price,
                       original_qty |-> incoming.qty, qty |-> incoming.leaves_qty]
  <2>1. /\ incoming # None /\ incoming.leaves_qty > 0
        /\ order_index' = Rested(order_index, incoming.order_id, order)
    BY <1>2 DEF restRemainder, restOrder, MatchingDone
  <2>2. incoming \in IncomingOrder
    BY <2>1 DEF ConsistencyInv, WellTyped
  <2>3. /\ incoming.qty \in ValidQty /\ incoming.leaves_qty <= incoming.qty
        /\ incoming.leaves_qty \in Nat /\ Invalid_Qty \in Nat
    BY <1>0, <2>1, <2>2, PriceAssumption DEF SoundIncoming, IncomingOrder
  <2>4. order.qty = incoming.leaves_qty /\ order.original_qty = incoming.qty
    OBVIOUS
  <2> HIDE DEF order
  <2>5. SoundOrder(order)
    BY <2>1, <2>3, <2>4 DEF SoundOrder, ValidQty
  <2> QED BY <1>0, <1>1, <2>1, <2>5 DEF Rested, SoundIncoming
<1>3. CASE cancelRemainder \/ completelyFilled
  BY <1>0, <1>1, <1>3 DEF cancelRemainder, completelyFilled, SoundIncoming
<1> QED BY <1>2, <1>3

\* A modification: the quantity asked for is both the order's quantity and its original one.
LEMMA ModifyKeepsQuantities ==
  ASSUME ConsistencyInv, TypeOK, NEW req \in Request, incoming = None, ~BadModify(req),
         NEW order, order = order_index[req.order_id],
         \/ repriceOrder(req, order) \/ decreaseOrder(req, order)
         \/ increaseOrder(req, order) \/ keepOrder(req, order)
  PROVE  SoundIncoming(incoming') /\ \A o \in DOMAIN order_index' : SoundOrder(order_index'[o])
<1> DEFINE id == req.order_id
           changed == [order EXCEPT !.qty = req.qty, !.original_qty = req.qty]
<1>0. \A o \in DOMAIN order_index : SoundOrder(order_index[o])
  BY TypeParts
<1>1. req.qty \in ValidQty /\ req.qty \in Nat
  BY RequestAssumption, PriceAssumption DEF BadModify, ValidQty
<1>2. id \in DOMAIN order_index /\ order \in BookOrder /\ IsIndex(order_index)
  BY ConsistencyParts DEF BadModify, OwnsResting, IsIndex
<1>3. SoundOrder(changed)
  BY <1>1, <1>2 DEF SoundOrder, BookOrder, ValidQty
<1>4. IndexWithout(id) = [o \in DOMAIN order_index \ {id} |-> order_index[o]]
  BY <1>2, RemoveEffect, Zenon DEF ConsistencyInv
<1>5. CASE repriceOrder(req, order)
  <2>1. order_index' = IndexWithout(id)
    BY <1>5 DEF repriceOrder, removeOrder
  <2>2. incoming'.qty = req.qty /\ incoming'.leaves_qty = req.qty
    BY <1>5 DEF repriceOrder, StartMatching
  <2> QED BY <1>0, <1>1, <1>4, <2>1, <2>2 DEF SoundIncoming
<1>6. CASE decreaseOrder(req, order)
  <2>1. incoming' = None /\ order_index' = [order_index EXCEPT ![id] = changed]
    BY <1>2, <1>6, Zenon DEF decreaseOrder, IsIndex
  <2> HIDE DEF changed, id
  <2> QED BY <1>0, <1>2, <1>3, <2>1 DEF IsIndex, SoundIncoming
<1>7. CASE increaseOrder(req, order)
  <2>1. incoming' = None /\ order_index' = Rested(IndexWithout(id), id, changed)
    BY <1>7 DEF increaseOrder, restOrder
  <2> HIDE DEF changed, id
  <2> QED BY <1>0, <1>3, <1>4, <2>1 DEF Rested, SoundIncoming
<1>8. CASE keepOrder(req, order)
  BY <1>0, <1>8 DEF keepOrder, SoundIncoming
<1> QED BY <1>5, <1>6, <1>7, <1>8

\* processRequest lets no other quantity into the matching.
LEMMA RequestKeepsQuantities ==
  ASSUME ConsistencyInv, TypeOK, NEW req \in Request, processRequest(req)
  PROVE  SoundIncoming(incoming') /\ \A o \in DOMAIN order_index' : SoundOrder(order_index'[o])
<1>0. incoming = None /\ \A o \in DOMAIN order_index : SoundOrder(order_index[o])
  BY TypeParts DEF processRequest
<1>1. CASE UNCHANGED <<order_index, incoming>>
  BY <1>0, <1>1 DEF SoundIncoming
<1>2. CASE /\ req.order_type \in {"LIMIT", "MARKET", "IOC"} /\ ~Malformed(req)
           /\ \E price, limited, rests : AddOrder(req, price, limited, rests)
  <2>1. req.qty \in ValidQty /\ req.qty \in Nat
    BY <1>2, RequestAssumption, PriceAssumption DEF Malformed, ValidQty
  <2>2. PICK price, limited, rests : AddOrder(req, price, limited, rests)
    BY <1>2
  <2>3. CASE /\ StartMatching(req.client_id, req.order_id, req.side, price, limited, rests, req.qty)
             /\ order_index' = order_index
    <3>1. incoming'.qty = req.qty /\ incoming'.leaves_qty = req.qty
      BY <2>3 DEF StartMatching
    <3> QED BY <1>0, <2>1, <2>3, <3>1 DEF SoundIncoming
  <2> QED BY <1>1, <2>2, <2>3 DEF AddOrder, Reject
<1>3. CASE cancelOrder(req)
  <2>1. CASE order_index' = IndexWithout(req.order_id) /\ incoming' = incoming
    BY <1>0, <2>1 DEF IndexWithout, SoundIncoming
  <2> QED BY <1>1, <1>3, <2>1 DEF cancelOrder, removeOrder, Reject
<1>4. CASE modifyOrder(req)
  <2>1. CASE Reject("MODIFY_REJECTED", req)
    BY <1>1, <2>1 DEF Reject
  <2>2. CASE ~BadModify(req)
    BY <1>0, <1>4, <2>2, ModifyKeepsQuantities DEF modifyOrder
  <2> QED BY <1>4, <2>1, <2>2 DEF modifyOrder
<1>5. CASE Reject("REJECTED", req)
  BY <1>1, <1>5 DEF Reject
<1> QED
  BY <1>2, <1>3, <1>4, <1>5, Zenon
  DEF processRequest, addLimitOrder, addMarketOrder, addIOCOrder

LEMMA QuantitiesStep == ConsistencyInv /\ TypeOK /\ [Next]_vars => TypeOK'
<1> SUFFICES ASSUME ConsistencyInv, TypeOK, [Next]_vars PROVE TypeOK'
  OBVIOUS
<1>1. WellTyped'
  BY ConsistencyStep DEF ConsistencyInv
<1>2. CASE matchIncoming
  BY <1>1, <1>2, MatchingKeepsQuantities, TypeParts
<1>3. CASE restRemainder \/ cancelRemainder \/ completelyFilled
  BY <1>1, <1>3, FinishKeepsQuantities, TypeParts
<1>4. CASE \E req \in Request : processRequest(req)
  BY <1>1, <1>4, RequestKeepsQuantities, TypeParts
<1>5. CASE UNCHANGED vars
  BY <1>1, <1>5, TypeParts DEF vars
<1> QED BY <1>2, <1>3, <1>4, <1>5 DEF Next, Matching

\* In every reachable state, whatever quantities are submitted: the book is typed, no order
\* rests or is matched with quantity zero or Invalid_Qty, and none has more left than it
\* was entered or last resubmitted with.
THEOREM BookStaysTyped == Spec => []TypeOK
<1>1. Init => TypeOK
  <2>1. Init => WellTyped
    BY InitConsistent DEF ConsistencyInv
  <2> QED BY <2>1 DEF Init, TypeOK
<1>2. ConsistencyInv <=> WellTyped /\ BookConsistent /\ IncomingOutsideBook
  BY DEF ConsistencyInv
<1> QED BY <1>1, <1>2, QuantitiesStep, BookStaysConsistent, PTL DEF Spec
===============================================================================
