--------------------------- MODULE LateJoinerProofs ---------------------------
(***************************************************************************)
(* A late consumer ends up with the mirror's book except for the orders of *)
(* the updates that neither the mirror nor the consumer had, for any       *)
(* orders, prices and quantities, any stream of updates and any length of  *)
(* the queue and of the backlog.                                           *)
(***************************************************************************)
EXTENDS LateJoiner, MirrorProofs

Entry == [side : Side, price : Price, qty : Qty]

IsBook(b) == DOMAIN b \subseteq OrderId /\ b \in [DOMAIN b -> Entry]

LEMMA SameBooks ==
  ASSUME NEW a, NEW b, IsBook(a), IsBook(b), \A o \in OrderId : SameAt(a, b, o)
  PROVE  a = b
<1>1. DOMAIN a = DOMAIN b /\ \A o \in DOMAIN a : a[o] = b[o]
  BY DEF IsBook, SameAt
<1>2. a = [o \in DOMAIN a |-> a[o]] /\ b = [o \in DOMAIN b |-> b[o]]
  BY DEF IsBook
<1> QED BY <1>1, <1>2

(***************************************************************************)
(* One update.                                                             *)
(***************************************************************************)
\* c is b after update u.
Follows(b, u, c) ==
  /\ \A o : o # u.order_id => SameAt(b, c, o)
  /\ u.type = "ADD" =>
       u.order_id \in DOMAIN c /\ c[u.order_id] = SnapshotEntry(u.side, u.price, u.qty)
  /\ u.type = "MODIFY" =>
       /\ u.order_id \in DOMAIN b <=> u.order_id \in DOMAIN c
       /\ u.order_id \in DOMAIN b =>
            c[u.order_id] = SnapshotEntry(b[u.order_id].side, b[u.order_id].price, u.qty)
  /\ u.type = "CANCEL" => u.order_id \notin DOMAIN c
  /\ u.type = "TRADE" => c = b

LEMMA UpdateTypes ==
  ASSUME NEW u \in Update
  PROVE  /\ u.type \in {"ADD", "MODIFY", "CANCEL", "TRADE"} /\ u.order_id \in OrderId
         /\ u.type \in {"ADD", "MODIFY"} => SnapshotEntry(u.side, u.price, u.qty) \in Entry
BY DEF Update, SnapshotEntry, Entry

LEMMA AppliedFollows ==
  ASSUME NEW b, IsBook(b), NEW u \in Update
  PROVE  IsBook(Applied(b, u)) /\ Follows(b, u, Applied(b, u))
<1>0. /\ u.type \in {"ADD", "MODIFY", "CANCEL", "TRADE"} /\ u.order_id \in OrderId
      /\ u.type \in {"ADD", "MODIFY"} => SnapshotEntry(u.side, u.price, u.qty) \in Entry
  BY UpdateTypes
<1>1. CASE u.type = "ADD"
  <2> DEFINE e == SnapshotEntry(u.side, u.price, u.qty)
             c == [o \in DOMAIN b \cup {u.order_id} |-> IF o = u.order_id THEN e ELSE b[o]]
  <2>1. Applied(b, u) = c
    BY <1>1 DEF Applied, Added, With
  <2>2. e \in Entry
    BY <1>0, <1>1
  <2> HIDE DEF e
  <2>3. /\ DOMAIN c = DOMAIN b \cup {u.order_id} /\ c[u.order_id] = e
        /\ \A o : o # u.order_id => (o \in DOMAIN c <=> o \in DOMAIN b) /\ (o \in DOMAIN b => c[o] = b[o])
    OBVIOUS
  <2>4. IsBook(c)
    BY <1>0, <2>2 DEF IsBook
  <2> HIDE DEF c
  <2>5. Follows(b, u, c)
    BY <1>1, <2>3 DEF Follows, SameAt, e
  <2> QED BY <2>1, <2>4, <2>5
<1>2. CASE u.type = "MODIFY"
  <2> DEFINE c == [o \in DOMAIN b |-> IF o = u.order_id THEN [b[o] EXCEPT !.qty = u.qty] ELSE b[o]]
  <2>1. Applied(b, u) = c
    BY <1>2 DEF Applied, Requantified
  <2>2. /\ DOMAIN c = DOMAIN b /\ \A o : o # u.order_id /\ o \in DOMAIN b => c[o] = b[o]
        /\ u.order_id \in DOMAIN b => c[u.order_id] = [b[u.order_id] EXCEPT !.qty = u.qty]
    OBVIOUS
  <2>3. \A e \in Entry : [e EXCEPT !.qty = u.qty] = SnapshotEntry(e.side, e.price, u.qty)
    BY DEF Entry, SnapshotEntry
  <2>4. \A e \in Entry : SnapshotEntry(e.side, e.price, u.qty) \in Entry
    BY <1>0, <1>2 DEF Entry, SnapshotEntry
  <2>5. \A o \in DOMAIN b : b[o] \in Entry
    BY DEF IsBook
  <2>6. \A o \in DOMAIN b : c[o] \in Entry
    BY <2>2, <2>3, <2>4, <2>5
  <2>7. c = [o \in DOMAIN c |-> c[o]]
    OBVIOUS
  <2> HIDE DEF c
  <2>8. IsBook(c)
    BY <2>2, <2>6, <2>7 DEF IsBook
  <2>9. Follows(b, u, c)
    BY <1>2, <2>2, <2>3, <2>5 DEF Follows, SameAt
  <2> QED BY <2>1, <2>8, <2>9
<1>3. CASE u.type = "CANCEL"
  <2> DEFINE c == [o \in DOMAIN b \ {u.order_id} |-> b[o]]
  <2>1. Applied(b, u) = c
    BY <1>3 DEF Applied, Erased
  <2>2. /\ DOMAIN c = DOMAIN b \ {u.order_id}
        /\ \A o : o # u.order_id /\ o \in DOMAIN b => c[o] = b[o]
    OBVIOUS
  <2>3. IsBook(c)
    BY DEF IsBook
  <2> HIDE DEF c
  <2>4. Follows(b, u, c)
    BY <1>3, <2>2 DEF Follows, SameAt
  <2> QED BY <2>1, <2>3, <2>4
<1>4. CASE u.type = "TRADE"
  <2>1. Applied(b, u) = b
    BY <1>4 DEF Applied
  <2> QED BY <1>4, <2>1 DEF Follows, SameAt
<1> QED BY <1>0, <1>1, <1>2, <1>3, <1>4

\* What an order becomes depends on nothing but that order.
LEMMA AppliedSameAt ==
  ASSUME NEW a, NEW b, IsBook(a), IsBook(b), NEW u \in Update, NEW o, SameAt(a, b, o)
  PROVE  SameAt(Applied(a, u), Applied(b, u), o)
<1> DEFINE c == Applied(a, u)
           d == Applied(b, u)
<1>1. Follows(a, u, c) /\ Follows(b, u, d)
  BY AppliedFollows
<1>2. u.type \in {"ADD", "MODIFY", "CANCEL", "TRADE"}
  BY UpdateTypes
<1> HIDE DEF c, d
<1>3. SameAt(c, d, o)
  <2>1. CASE o # u.order_id
    BY <1>1, <2>1 DEF Follows, SameAt
  <2>2. CASE o = u.order_id
    BY <1>1, <1>2, <2>2 DEF Follows, SameAt
  <2> QED BY <2>1, <2>2
<1> QED BY <1>3 DEF c, d

\* Two books that one more u makes equal.
Near(a, b, u) ==
  /\ \A o : o # u.order_id => SameAt(a, b, o)
  /\ u.type = "MODIFY" =>
       /\ u.order_id \in DOMAIN a <=> u.order_id \in DOMAIN b
       /\ u.order_id \in DOMAIN a =>
            a[u.order_id].side = b[u.order_id].side /\ a[u.order_id].price = b[u.order_id].price
  /\ u.type = "TRADE" => SameAt(a, b, u.order_id)

LEMMA AppliedIsNear ==
  ASSUME NEW b, IsBook(b), NEW u \in Update
  PROVE  Near(b, Applied(b, u), u)
<1> DEFINE c == Applied(b, u)
<1>1. Follows(b, u, c)
  BY AppliedFollows
<1> HIDE DEF c
<1>2. Near(b, c, u)
  BY <1>1 DEF Follows, Near, SameAt, SnapshotEntry
<1> QED BY <1>2 DEF c

LEMMA NearBecomesEqual ==
  ASSUME NEW a, NEW b, IsBook(a), IsBook(b), NEW u \in Update, Near(a, b, u)
  PROVE  Applied(a, u) = Applied(b, u)
<1> DEFINE c == Applied(a, u)
           d == Applied(b, u)
<1>1. Follows(a, u, c) /\ Follows(b, u, d) /\ IsBook(c) /\ IsBook(d)
  BY AppliedFollows
<1>2. u.type \in {"ADD", "MODIFY", "CANCEL", "TRADE"}
  BY UpdateTypes
<1> HIDE DEF c, d
<1>3. \A o : o # u.order_id => SameAt(c, d, o)
  BY <1>1 DEF Follows, Near, SameAt
<1>4. SameAt(c, d, u.order_id)
  BY <1>1, <1>2 DEF Follows, Near, SameAt
<1>5. c = d
  BY <1>1, <1>3, <1>4, SameBooks
<1> QED BY <1>5 DEF c, d

LEMMA NearStaysNear ==
  ASSUME NEW a, NEW b, IsBook(a), IsBook(b), NEW u \in Update, NEW v \in Update, Near(a, b, u)
  PROVE  Near(Applied(a, v), Applied(b, v), u)
<1> DEFINE c == Applied(a, v)
           d == Applied(b, v)
<1>1. Follows(a, v, c) /\ Follows(b, v, d)
  BY AppliedFollows
<1>2. v.type \in {"ADD", "MODIFY", "CANCEL", "TRADE"}
  BY UpdateTypes
<1>3. \A o : SameAt(a, b, o) => SameAt(c, d, o)
  BY AppliedSameAt
<1> HIDE DEF c, d
<1>4. ASSUME u.type = "MODIFY"
      PROVE  /\ u.order_id \in DOMAIN c <=> u.order_id \in DOMAIN d
             /\ u.order_id \in DOMAIN c =>
                  c[u.order_id].side = d[u.order_id].side /\ c[u.order_id].price = d[u.order_id].price
  <2>1. CASE v.order_id = u.order_id
    BY <1>1, <1>2, <1>4, <2>1 DEF Follows, Near, SnapshotEntry
  <2>2. CASE v.order_id # u.order_id
    BY <1>1, <1>4, <2>2 DEF Follows, Near, SameAt
  <2> QED BY <2>1, <2>2
<1>5. Near(c, d, u)
  BY <1>3, <1>4 DEF Near
<1> QED BY <1>5 DEF c, d

(***************************************************************************)
(* A sequence of updates.                                                  *)
(***************************************************************************)
LEMMA ChainSteps ==
  ASSUME NEW f, NEW b, NEW upds \in Seq(Update), IsChain(f, b, upds, Len(upds))
  PROVE  /\ Len(upds) \in Nat /\ f[0] = b
         /\ \A k \in 1 .. Len(upds) : f[k] = Applied(f[k - 1], upds[k]) /\ upds[k] \in Update
<1> DEFINE n == Len(upds)
<1>1. n \in Nat /\ \A k \in 1 .. n : upds[k] \in Update
  BY LenProperties, ElementOfSeq
<1>2. \A k \in 0 .. n : f[k] = IF k = 0 THEN b ELSE Applied(f[k - 1], upds[k])
  BY DEF IsChain
<1> HIDE DEF n
<1>3. f[0] = b /\ \A k \in 1 .. n : f[k] = Applied(f[k - 1], upds[k])
  BY <1>1, <1>2
<1> QED BY <1>1, <1>3 DEF n

LEMMA ChainOfBooks ==
  ASSUME NEW f, NEW b, NEW upds \in Seq(Update), IsBook(b), IsChain(f, b, upds, Len(upds))
  PROVE  \A k \in 0 .. Len(upds) : IsBook(f[k])
<1> DEFINE n == Len(upds)
           D == {k \in 0 .. n : ~IsBook(f[k])}
<1>1. n \in Nat /\ f[0] = b /\ \A k \in 1 .. n : f[k] = Applied(f[k - 1], upds[k]) /\ upds[k] \in Update
  BY ChainSteps
<1> HIDE DEF n
<1>2. D = {}
  <2> SUFFICES ASSUME D # {} PROVE FALSE
    OBVIOUS
  <2>1. PICK k \in D : \A j \in D : k <= j
    <3>1. D \subseteq Nat
      OBVIOUS
    <3> HIDE DEF D
    <3> QED BY <3>1, LeastNumber, Zenon
  <2>2. k \in 1 .. n /\ k - 1 \in 0 .. n /\ ~(k <= k - 1)
    BY <1>1, <2>1
  <2>3. IsBook(f[k - 1])
    BY <2>1, <2>2
  <2> QED BY <1>1, <2>1, <2>2, <2>3, AppliedFollows
<1> QED BY <1>2 DEF n

LEMMA ReplayedIsBook ==
  ASSUME NEW b, IsBook(b), NEW upds \in Seq(Update)
  PROVE  IsBook(Replayed(b, upds))
<1> DEFINE n == Len(upds)
<1>1. n \in Nat
  BY LenProperties
<1>2. PICK f : IsChain(f, b, upds, n)
  <2> HIDE DEF n
  <2> QED BY <1>1, ChainExists
<1>3. Replayed(b, upds) = f[n]
  BY <1>1, <1>2, ReplayedIs
<1>4. n \in 0 .. n
  BY <1>1
<1>5. IsBook(f[n])
  BY <1>2, <1>4, ChainOfBooks
<1> QED BY <1>3, <1>5

LEMMA ReplayedSameAt ==
  ASSUME NEW a, NEW b, IsBook(a), IsBook(b), NEW upds \in Seq(Update), NEW o, SameAt(a, b, o)
  PROVE  SameAt(Replayed(a, upds), Replayed(b, upds), o)
<1> DEFINE n == Len(upds)
<1>1. n \in Nat
  BY LenProperties
<1>2. (\E f : IsChain(f, a, upds, n)) /\ (\E g : IsChain(g, b, upds, n))
  <2> HIDE DEF n
  <2> QED BY <1>1, ChainExists, Zenon
<1>3. PICK f : IsChain(f, a, upds, n)
  BY <1>2
<1>4. PICK g : IsChain(g, b, upds, n)
  BY <1>2
<1>5. Replayed(a, upds) = f[n] /\ Replayed(b, upds) = g[n]
  BY <1>1, <1>3, <1>4, ReplayedIs
<1>6. /\ f[0] = a /\ \A k \in 1 .. n : f[k] = Applied(f[k - 1], upds[k]) /\ upds[k] \in Update
      /\ g[0] = b /\ \A k \in 1 .. n : g[k] = Applied(g[k - 1], upds[k])
  BY <1>3, <1>4, ChainSteps
<1>7. \A k \in 0 .. n : IsBook(f[k]) /\ IsBook(g[k])
  BY <1>3, <1>4, ChainOfBooks
<1> DEFINE D == {k \in 0 .. n : ~SameAt(f[k], g[k], o)}
<1> HIDE DEF n
<1>8. D = {}
  <2> SUFFICES ASSUME D # {} PROVE FALSE
    OBVIOUS
  <2>1. PICK k \in D : \A j \in D : k <= j
    <3>1. D \subseteq Nat
      OBVIOUS
    <3> HIDE DEF D
    <3> QED BY <3>1, LeastNumber, Zenon
  <2>2. k \in 1 .. n /\ k - 1 \in 0 .. n /\ ~(k <= k - 1)
    BY <1>1, <1>6, <2>1
  <2>3. SameAt(f[k - 1], g[k - 1], o)
    BY <2>1, <2>2
  <2>4. SameAt(Applied(f[k - 1], upds[k]), Applied(g[k - 1], upds[k]), o)
    BY <1>6, <1>7, <2>2, <2>3, AppliedSameAt
  <2> QED BY <1>6, <2>1, <2>2, <2>4
<1>9. n \in 0 .. n
  BY <1>1
<1> QED BY <1>5, <1>8, <1>9

\* A replay that contains u does not tell whether u had been applied before.
LEMMA ReplayAbsorbs ==
  ASSUME NEW b, IsBook(b), NEW upds \in Seq(Update), NEW j \in DOMAIN upds
  PROVE  Replayed(Applied(b, upds[j]), upds) = Replayed(b, upds)
<1> DEFINE n == Len(upds)
           u == upds[j]
           a == Applied(b, u)
<1>1. n \in Nat /\ j \in 1 .. n /\ u \in Update
  BY LenProperties, ElementOfSeq
<1>2. IsBook(a) /\ Near(b, a, u)
  BY <1>1, AppliedFollows, AppliedIsNear
<1> HIDE DEF a
<1>3. (\E f : IsChain(f, b, upds, n)) /\ (\E g : IsChain(g, a, upds, n))
  <2> HIDE DEF n, u
  <2> QED BY <1>1, ChainExists, Zenon
<1>4. PICK f : IsChain(f, b, upds, n)
  BY <1>3
<1>5. PICK g : IsChain(g, a, upds, n)
  BY <1>3
<1>6. Replayed(b, upds) = f[n] /\ Replayed(a, upds) = g[n]
  BY <1>1, <1>4, <1>5, ReplayedIs
<1>7. /\ f[0] = b /\ \A k \in 1 .. n : f[k] = Applied(f[k - 1], upds[k]) /\ upds[k] \in Update
      /\ g[0] = a /\ \A k \in 1 .. n : g[k] = Applied(g[k - 1], upds[k])
  BY <1>4, <1>5, ChainSteps
<1>8. \A k \in 0 .. n : IsBook(f[k]) /\ IsBook(g[k])
  BY <1>2, <1>4, <1>5, ChainOfBooks
<1> DEFINE D == {k \in 0 .. n : ~(Near(f[k], g[k], u) /\ (k >= j => f[k] = g[k]))}
<1>9. upds[j] = u
  OBVIOUS
<1> HIDE DEF n, u
<1>10. D = {}
  <2> SUFFICES ASSUME D # {} PROVE FALSE
    OBVIOUS
  <2>1. PICK k \in D : \A i \in D : k <= i
    <3>1. D \subseteq Nat
      OBVIOUS
    <3> HIDE DEF D
    <3> QED BY <3>1, LeastNumber, Zenon
  <2>2. k \in 1 .. n /\ k - 1 \in 0 .. n /\ ~(k <= k - 1)
    BY <1>1, <1>2, <1>7, <2>1
  <2>3. Near(f[k - 1], g[k - 1], u) /\ (k - 1 >= j => f[k - 1] = g[k - 1])
    BY <2>1, <2>2
  <2>4. IsBook(f[k - 1]) /\ IsBook(g[k - 1])
    BY <1>8, <2>2
  <2>5. Near(Applied(f[k - 1], upds[k]), Applied(g[k - 1], upds[k]), u)
    BY <1>1, <1>7, <2>2, <2>3, <2>4, NearStaysNear
  <2>6. k = j => f[k] = g[k]
    BY <1>1, <1>7, <1>9, <2>2, <2>3, <2>4, NearBecomesEqual
  <2>7. k > j => f[k] = g[k]
    BY <1>1, <1>7, <2>2, <2>3
  <2>8. k >= j => f[k] = g[k]
    BY <1>1, <2>2, <2>6, <2>7
  <2> QED BY <1>7, <2>1, <2>2, <2>5, <2>8
<1>11. n \in 0 .. n /\ n >= j
  BY <1>1
<1> QED BY <1>6, <1>10, <1>11 DEF a, u

(***************************************************************************)
(* The invariant.                                                          *)
(***************************************************************************)
\* The backlog has every update on order o the mirror still lacks, and repeating the others
\* changes nothing of o.
RecordedAt(book, feed, upds, o) ==
  /\ \A i \in DOMAIN feed : feed[i].order_id = o => \E j \in DOMAIN upds : upds[j] = feed[i]
  /\ SameAt(Replayed(book, upds), Replayed(book, feed), o)

Recorded(book, feed, upds, orders) == \A o \in orders : RecordedAt(book, feed, upds, o)

\* The copy, after the replay, is right about these orders, but for those the iterator will
\* come to.
Settled(book, feed, upds, orders, copy, away) ==
  \A o \in orders : o \in DOMAIN copy \/ o \notin away =>
    SameAt(Replayed(copy, upds), Replayed(book, feed), o)

\* The backlog is what was sent after the first m updates of the queue.
Aligned(feed, upds, m) ==
  Len(feed) = m + Len(upds) /\ \A k \in 1 .. Len(upds) : upds[k] = feed[m + k]

JoinerTypes ==
  /\ IsBook(mirror) /\ IsBook(view) /\ IsBook(out)
  /\ snapshot_feed \in Seq(Update) /\ backlog \in Seq(Update) /\ missed \in Nat
  /\ joined \in {"no", "waiting", "walking", "synced", "undefined"}
  /\ joined = "no" => backlog = <<>>
  /\ joined # "waiting" => missed = 0

WalkTypes ==
  /\ joined # "walking" => iterator = End /\ out = EmptyMirror
  /\ iterator = End => ahead = {}
  /\ iterator # End => iterator \in DOMAIN mirror
  /\ ahead \subseteq DOMAIN mirror /\ inserted \subseteq DOMAIN mirror

CatchesUp ==
  /\ joined = "waiting" /\ missed > 0 => Aligned(snapshot_feed, backlog, missed)
  /\ joined = "waiting" /\ missed = 0 => Recorded(mirror, snapshot_feed, backlog, OrderId)
  /\ joined = "walking" =>
       /\ Recorded(mirror, snapshot_feed, backlog, OrderId \ stale)
       /\ Settled(mirror, snapshot_feed, backlog, OrderId \ stale, out, ahead \cup {iterator})

JoinerInv == JoinerTypes /\ WalkTypes /\ CatchesUp /\ OnlyStaleDiffer

(***************************************************************************)
(* What each action does to it.                                            *)
(***************************************************************************)
LEMMA AppendedTo ==
  ASSUME NEW upds \in Seq(Update), NEW u \in Update
  PROVE  LET more == Append(upds, u) IN
         /\ more \in Seq(Update) /\ Len(more) = Len(upds) + 1
         /\ \A i \in DOMAIN more : more[i] = u \/ (i \in DOMAIN upds /\ more[i] = upds[i])
         /\ \A i \in DOMAIN upds : i \in DOMAIN more /\ more[i] = upds[i]
         /\ Len(more) \in DOMAIN more /\ more[Len(more)] = u
<1> DEFINE more == Append(upds, u)
           n == Len(upds)
<1>1. /\ more \in Seq(Update) /\ Len(more) = n + 1 /\ more[n + 1] = u /\ n \in Nat
      /\ \A i \in 1 .. n : more[i] = upds[i]
      /\ DOMAIN upds = 1 .. n /\ DOMAIN more = 1 .. (n + 1)
  BY AppendProperties, LenProperties
<1> HIDE DEF more, n
<1>2. /\ \A i \in DOMAIN more : more[i] = u \/ (i \in DOMAIN upds /\ more[i] = upds[i])
      /\ \A i \in DOMAIN upds : i \in DOMAIN more /\ more[i] = upds[i]
      /\ n + 1 \in DOMAIN more
  BY <1>1
<1> QED BY <1>1, <1>2 DEF more, n

LEMMA DeliverRecorded ==
  ASSUME NEW book, NEW feed \in Seq(Update), NEW upds \in Seq(Update), NEW u \in Update, NEW orders,
         IsBook(book), Recorded(book, feed, upds, orders)
  PROVE  Recorded(book, Append(feed, u), Append(upds, u), orders)
<1> DEFINE f == Append(feed, u)
           b == Append(upds, u)
<1>1. \A i \in DOMAIN f : f[i] = u \/ (i \in DOMAIN feed /\ f[i] = feed[i])
  BY AppendedTo
<1>2. (\A i \in DOMAIN upds : i \in DOMAIN b /\ b[i] = upds[i]) /\ \E i \in DOMAIN b : b[i] = u
  BY AppendedTo
<1>3. Replayed(book, f) = Applied(Replayed(book, feed), u) /\ Replayed(book, b) = Applied(Replayed(book, upds), u)
  BY ReplayAppend
<1>4. IsBook(Replayed(book, feed)) /\ IsBook(Replayed(book, upds))
  BY ReplayedIsBook
<1> HIDE DEF f, b
<1>5. ASSUME NEW o \in orders PROVE RecordedAt(book, f, b, o)
  <2>1. RecordedAt(book, feed, upds, o)
    BY DEF Recorded
  <2>2. ASSUME NEW i \in DOMAIN f, f[i].order_id = o PROVE \E j \in DOMAIN b : b[j] = f[i]
    <3>1. CASE f[i] = u
      BY <1>2, <3>1
    <3>2. CASE i \in DOMAIN feed /\ f[i] = feed[i]
      <4>1. PICK j \in DOMAIN upds : upds[j] = feed[i]
        BY <2>1, <2>2, <3>2 DEF RecordedAt
      <4> QED BY <1>2, <3>2, <4>1
    <3> QED BY <1>1, <3>1, <3>2
  <2>3. SameAt(Applied(Replayed(book, upds), u), Applied(Replayed(book, feed), u), o)
    BY <1>4, <2>1, AppliedSameAt DEF RecordedAt
  <2> QED BY <1>3, <2>2, <2>3 DEF RecordedAt
<1>6. Recorded(book, f, b, orders)
  BY <1>5 DEF Recorded
<1> QED BY <1>6 DEF f, b

LEMMA DeliverSettled ==
  ASSUME NEW book, NEW feed \in Seq(Update), NEW upds \in Seq(Update), NEW u \in Update, NEW orders,
         NEW copy, NEW away, IsBook(book), IsBook(copy), Settled(book, feed, upds, orders, copy, away)
  PROVE  Settled(book, Append(feed, u), Append(upds, u), orders, copy, away)
<1> SUFFICES ASSUME NEW o \in orders, o \in DOMAIN copy \/ o \notin away
             PROVE  SameAt(Replayed(copy, Append(upds, u)), Replayed(book, Append(feed, u)), o)
  BY DEF Settled
<1> DEFINE x == Replayed(copy, upds)
           y == Replayed(book, feed)
<1>1. IsBook(x) /\ IsBook(y) /\ SameAt(x, y, o)
  BY ReplayedIsBook DEF Settled
<1>2. Replayed(copy, Append(upds, u)) = Applied(x, u) /\ Replayed(book, Append(feed, u)) = Applied(y, u)
  BY ReplayAppend
<1> HIDE DEF x, y
<1>3. SameAt(Applied(x, u), Applied(y, u), o)
  BY <1>1, AppliedSameAt
<1> QED BY <1>2, <1>3

LEMMA RestOf ==
  ASSUME NEW feed \in Seq(Update), feed # <<>>
  PROVE  /\ Tail(feed) \in Seq(Update) /\ Len(feed) \in Nat \ {0} /\ Len(Tail(feed)) = Len(feed) - 1
         /\ 1 \in DOMAIN feed /\ Head(feed) = feed[1] /\ Head(feed) \in Update
         /\ \A i \in DOMAIN Tail(feed) : i \in Nat /\ i + 1 \in DOMAIN feed /\ Tail(feed)[i] = feed[i + 1]
<1> DEFINE t == Tail(feed)
           n == Len(feed)
<1>1. /\ t \in Seq(Update) /\ n \in Nat \ {0} /\ Len(t) = n - 1 /\ Head(feed) = feed[1] /\ Head(feed) \in Update
      /\ \A i \in 1 .. (n - 1) : t[i] = feed[i + 1]
  BY HeadTailProperties, EmptySeq
<1>2. DOMAIN feed = 1 .. n /\ DOMAIN t = 1 .. Len(t)
  BY <1>1, LenProperties
<1> HIDE DEF t, n
<1>3. 1 \in DOMAIN feed /\ \A i \in DOMAIN t : i \in Nat /\ i + 1 \in DOMAIN feed /\ t[i] = feed[i + 1]
  BY <1>1, <1>2
<1> QED BY <1>1, <1>3 DEF t, n

LEMMA MirrorRecorded ==
  ASSUME NEW book, NEW feed \in Seq(Update), NEW upds \in Seq(Update), IsBook(book), feed # <<>>,
         NEW orders, Recorded(book, feed, upds, orders)
  PROVE  Recorded(Applied(book, Head(feed)), Tail(feed), upds, orders)
<1> DEFINE u == Head(feed)
           new == Applied(book, u)
           t == Tail(feed)
<1>1. /\ 1 \in DOMAIN feed /\ u = feed[1] /\ u \in Update
      /\ \A i \in DOMAIN t : i + 1 \in DOMAIN feed /\ t[i] = feed[i + 1]
  BY RestOf
<1>2. IsBook(new) /\ Follows(book, u, new)
  BY <1>1, AppliedFollows
<1>3. Replayed(new, t) = Replayed(book, feed)
  BY ReplayHead
<1>4. \A j \in DOMAIN upds : upds[j] = u => Replayed(new, upds) = Replayed(book, upds)
  BY ReplayAbsorbs
<1> HIDE DEF new, t, u
<1>5. ASSUME NEW o \in orders PROVE RecordedAt(new, t, upds, o)
  <2>1. RecordedAt(book, feed, upds, o)
    BY DEF Recorded
  <2>2. \A i \in DOMAIN t : t[i].order_id = o => \E j \in DOMAIN upds : upds[j] = t[i]
    BY <1>1, <2>1 DEF RecordedAt
  <2>3. SameAt(Replayed(new, upds), Replayed(book, upds), o)
    <3>1. CASE u.order_id = o
      <4>1. PICK j \in DOMAIN upds : upds[j] = u
        BY <1>1, <2>1, <3>1 DEF RecordedAt
      <4> QED BY <1>4, <4>1 DEF SameAt
    <3>2. CASE u.order_id # o
      <4>1. SameAt(new, book, o)
        BY <1>2, <3>2 DEF Follows, SameAt
      <4> QED BY <1>2, <4>1, ReplayedSameAt
    <3> QED BY <3>1, <3>2
  <2>4. SameAt(Replayed(new, upds), Replayed(new, t), o)
    BY <1>3, <2>1, <2>3 DEF RecordedAt, SameAt
  <2> QED BY <2>2, <2>4 DEF RecordedAt
<1>6. Recorded(new, t, upds, orders)
  BY <1>5 DEF Recorded
<1> QED BY <1>6 DEF new, t, u

\* Orders leave `away' when the mirror erases them.
LEMMA MirrorSettled ==
  ASSUME NEW book, NEW feed \in Seq(Update), NEW upds \in Seq(Update), IsBook(book), feed # <<>>,
         NEW orders, Recorded(book, feed, upds, orders), NEW copy, IsBook(copy), NEW away, NEW still,
         Settled(book, feed, upds, orders, copy, away),
         \A o \in orders : o \in away /\ o \notin still => o \notin DOMAIN Applied(book, Head(feed))
  PROVE  Settled(Applied(book, Head(feed)), Tail(feed), upds, orders, copy, still)
<1> DEFINE new == Applied(book, Head(feed))
<1>1. Replayed(new, Tail(feed)) = Replayed(book, feed)
  BY ReplayHead
<1>2. \A o \in orders : SameAt(Replayed(new, upds), Replayed(new, Tail(feed)), o)
  BY MirrorRecorded DEF Recorded, RecordedAt
<1>3. IsBook(new)
  BY RestOf, AppliedFollows
<1>4. \A o \in orders : o \in away /\ o \notin still => o \notin DOMAIN new
  OBVIOUS
<1> HIDE DEF new
<1>5. ASSUME NEW o \in orders, o \in DOMAIN copy \/ o \notin still
      PROVE  SameAt(Replayed(copy, upds), Replayed(new, Tail(feed)), o)
  <2>1. CASE o \in DOMAIN copy \/ o \notin away
    BY <1>1, <2>1 DEF Settled
  <2>2. CASE o \notin DOMAIN copy /\ o \in away
    <3>1. SameAt(copy, new, o)
      BY <1>4, <1>5, <2>2 DEF SameAt
    <3>2. SameAt(Replayed(copy, upds), Replayed(new, upds), o)
      BY <1>3, <3>1, ReplayedSameAt
    <3> QED BY <1>2, <3>2 DEF SameAt
  <2> QED BY <2>1, <2>2
<1>6. Settled(new, Tail(feed), upds, orders, copy, still)
  BY <1>5 DEF Settled
<1> QED BY <1>6 DEF new

LEMMA StartSettled ==
  ASSUME NEW book, NEW feed \in Seq(Update), NEW upds \in Seq(Update), IsBook(book), NEW orders,
         Recorded(book, feed, upds, orders), NEW copy, IsBook(copy), DOMAIN copy = {}, NEW away, DOMAIN book \subseteq away
  PROVE  Settled(book, feed, upds, orders, copy, away)
<1> SUFFICES ASSUME NEW o \in orders, o \in DOMAIN copy \/ o \notin away
             PROVE  SameAt(Replayed(copy, upds), Replayed(book, feed), o)
  BY DEF Settled
<1>1. SameAt(copy, book, o)
  BY DEF SameAt
<1>2. SameAt(Replayed(copy, upds), Replayed(book, upds), o)
  BY <1>1, ReplayedSameAt
<1> QED BY <1>2 DEF Recorded, RecordedAt, SameAt

CopiedInto(more, copy, it, book) ==
  /\ DOMAIN more = DOMAIN copy \cup {it}
  /\ \A o \in DOMAIN more : more[o] = IF o = it THEN book[o] ELSE copy[o]

Covers(still, it, away) == \A o \in away : o \in still \/ o = it

LEMMA CopySettled ==
  ASSUME NEW book, NEW feed \in Seq(Update), NEW upds \in Seq(Update), IsBook(book), NEW orders,
         Recorded(book, feed, upds, orders), NEW copy, IsBook(copy), NEW away, NEW still, NEW it \in DOMAIN book,
         Settled(book, feed, upds, orders, copy, away), Covers(still, it, away),
         NEW more, IsBook(more), CopiedInto(more, copy, it, book)
  PROVE  Settled(book, feed, upds, orders, more, still)
<1> SUFFICES ASSUME NEW o \in orders, o \in DOMAIN more \/ o \notin still
             PROVE  SameAt(Replayed(more, upds), Replayed(book, feed), o)
  BY DEF Settled
<1>1. CASE o = it
  <2>1. SameAt(more, book, o)
    BY <1>1 DEF SameAt, CopiedInto
  <2>2. SameAt(Replayed(more, upds), Replayed(book, upds), o)
    BY <2>1, ReplayedSameAt
  <2> QED BY <2>2 DEF Recorded, RecordedAt, SameAt
<1>2. CASE o # it
  <2>1. SameAt(more, copy, o)
    BY <1>2 DEF SameAt, CopiedInto
  <2>2. SameAt(Replayed(more, upds), Replayed(copy, upds), o)
    BY <2>1, ReplayedSameAt
  <2>3. o \in DOMAIN copy \/ o \notin away
    BY <1>2 DEF CopiedInto, Covers
  <2>4. SameAt(Replayed(copy, upds), Replayed(book, feed), o)
    BY <2>3 DEF Settled
  <2> QED BY <2>2, <2>4 DEF SameAt
<1> QED BY <1>1, <1>2

LEMMA DeliverAligned ==
  ASSUME NEW feed \in Seq(Update), NEW upds \in Seq(Update), NEW u \in Update, NEW m \in Nat,
         Aligned(feed, upds, m)
  PROVE  Aligned(Append(feed, u), Append(upds, u), m)
<1> DEFINE f == Append(feed, u)
           b == Append(upds, u)
           l == Len(upds)
<1>1. l \in Nat /\ Len(feed) = m + l /\ \A k \in 1 .. l : upds[k] = feed[m + k]
  BY LenProperties DEF Aligned
<1>2. /\ Len(f) = Len(feed) + 1 /\ f[Len(feed) + 1] = u /\ \A k \in 1 .. Len(feed) : f[k] = feed[k]
      /\ Len(b) = l + 1 /\ b[l + 1] = u /\ \A k \in 1 .. l : b[k] = upds[k]
  BY AppendProperties
<1> HIDE DEF f, b, l
<1>3. ASSUME NEW k \in 1 .. Len(b) PROVE b[k] = f[m + k]
  <2>1. CASE k = l + 1
    BY <1>1, <1>2, <2>1
  <2>2. CASE k # l + 1
    <3>1. k \in 1 .. l /\ m + k \in 1 .. Len(feed)
      BY <1>1, <1>2, <2>2
    <3> QED BY <1>1, <1>2, <3>1
  <2> QED BY <2>1, <2>2
<1>4. Len(f) = m + Len(b)
  BY <1>1, <1>2
<1>5. Aligned(f, b, m)
  BY <1>3, <1>4 DEF Aligned
<1> QED BY <1>5 DEF f, b

LEMMA MirrorAligned ==
  ASSUME NEW feed \in Seq(Update), NEW upds \in Seq(Update), NEW m \in Nat, m > 0,
         Aligned(feed, upds, m), feed # <<>>
  PROVE  Aligned(Tail(feed), upds, m - 1)
<1> DEFINE t == Tail(feed)
           l == Len(upds)
           n == Len(feed)
<1>1. l \in Nat /\ n = m + l /\ \A k \in 1 .. l : upds[k] = feed[m + k]
  BY LenProperties DEF Aligned
<1>2. Len(t) = n - 1 /\ \A k \in 1 .. (n - 1) : t[k] = feed[k + 1]
  BY HeadTailProperties
<1> HIDE DEF t, l, n
<1>3. ASSUME NEW k \in 1 .. l PROVE upds[k] = t[m - 1 + k]
  <2>1. m - 1 + k \in 1 .. (n - 1) /\ (m - 1 + k) + 1 = m + k
    BY <1>1
  <2>2. t[m - 1 + k] = feed[(m - 1 + k) + 1]
    BY <1>2, <2>1
  <2> QED BY <1>1, <2>1, <2>2
<1>4. Len(t) = (m - 1) + l
  BY <1>1, <1>2
<1> QED BY <1>3, <1>4 DEF Aligned, t, l

\* The backlog lacks the first m updates of the queue: it is complete for all other orders.
LEMMA AlignedRecords ==
  ASSUME NEW book, IsBook(book), NEW feed \in Seq(Update), NEW upds \in Seq(Update), NEW m \in Nat,
         Aligned(feed, upds, m), NEW o, \A k \in 1 .. m : feed[k].order_id # o
  PROVE  RecordedAt(book, feed, upds, o)
<1> DEFINE l == Len(upds)
           n == Len(feed)
<1>1. /\ l \in Nat /\ n = m + l /\ DOMAIN feed = 1 .. n /\ DOMAIN upds = 1 .. l
      /\ \A k \in 1 .. l : upds[k] = feed[m + k]
  BY LenProperties DEF Aligned
<1>2. (\E f : IsChain(f, book, feed, n)) /\ (\E g : IsChain(g, book, upds, l))
  <2>1. n \in Nat /\ l \in Nat
    BY <1>1
  <2> HIDE DEF n, l
  <2> QED BY <2>1, ChainExists, Zenon
<1>3. PICK f : IsChain(f, book, feed, n)
  BY <1>2
<1>4. PICK g : IsChain(g, book, upds, l)
  BY <1>2
<1>5. Replayed(book, feed) = f[n] /\ Replayed(book, upds) = g[l]
  BY <1>1, <1>3, <1>4, ReplayedIs
<1>6. /\ f[0] = book /\ \A k \in 1 .. n : f[k] = Applied(f[k - 1], feed[k]) /\ feed[k] \in Update
      /\ g[0] = book /\ \A k \in 1 .. l : g[k] = Applied(g[k - 1], upds[k])
  BY <1>3, <1>4, ChainSteps
<1>7. (\A k \in 0 .. n : IsBook(f[k])) /\ (\A k \in 0 .. l : IsBook(g[k]))
  BY <1>3, <1>4, ChainOfBooks
<1> DEFINE D == {k \in 0 .. m : ~SameAt(f[k], book, o)}
           E == {k \in 0 .. l : ~SameAt(f[m + k], g[k], o)}
<1> HIDE DEF n, l
<1>8. D = {}
  <2> SUFFICES ASSUME D # {} PROVE FALSE
    OBVIOUS
  <2>1. PICK k \in D : \A i \in D : k <= i
    <3>1. D \subseteq Nat
      OBVIOUS
    <3> HIDE DEF D
    <3> QED BY <3>1, LeastNumber, Zenon
  <2>2. SameAt(f[0], book, o)
    BY <1>6 DEF SameAt
  <2>3. k \in 1 .. m /\ k \in 1 .. n /\ k - 1 \in 0 .. m /\ k - 1 \in 0 .. n /\ ~(k <= k - 1)
    BY <1>1, <2>1, <2>2
  <2>4. SameAt(f[k - 1], book, o)
    BY <2>1, <2>3
  <2>5. Follows(f[k - 1], feed[k], f[k])
    BY <1>6, <1>7, <2>3, AppliedFollows
  <2>6. SameAt(f[k - 1], f[k], o)
    BY <2>3, <2>5 DEF Follows
  <2> QED BY <2>1, <2>4, <2>6 DEF SameAt
<1>9. E = {}
  <2> SUFFICES ASSUME E # {} PROVE FALSE
    OBVIOUS
  <2>1. PICK k \in E : \A i \in E : k <= i
    <3>1. E \subseteq Nat
      OBVIOUS
    <3> HIDE DEF E
    <3> QED BY <3>1, LeastNumber, Zenon
  <2>2. SameAt(f[m + 0], g[0], o)
    <3>1. m + 0 = m /\ m \in 0 .. m
      OBVIOUS
    <3> QED BY <1>6, <1>8, <3>1
  <2>3. /\ k \in 1 .. l /\ m + k \in 1 .. n /\ k - 1 \in 0 .. l /\ (m + k) - 1 \in 0 .. n
        /\ (m + k) - 1 = m + (k - 1) /\ ~(k <= k - 1)
    <3>1. k \in 0 .. l /\ k # 0
      BY <2>1, <2>2
    <3> HIDE DEF E
    <3> QED BY <1>1, <3>1
  <2>4. SameAt(f[(m + k) - 1], g[k - 1], o)
    BY <2>1, <2>3
  <2>5. /\ f[m + k] = Applied(f[(m + k) - 1], feed[m + k]) /\ feed[m + k] \in Update
        /\ g[k] = Applied(g[k - 1], feed[m + k])
    BY <1>1, <1>6, <2>3
  <2>6. SameAt(f[m + k], g[k], o)
    BY <1>7, <2>3, <2>4, <2>5, AppliedSameAt
  <2> QED BY <2>1, <2>6
<1>10. SameAt(g[l], f[n], o)
  <2>1. l \in 0 .. l /\ m + l = n
    BY <1>1
  <2>2. SameAt(f[m + l], g[l], o)
    BY <1>9, <2>1
  <2> QED BY <2>1, <2>2 DEF SameAt
<1>11. ASSUME NEW i \in DOMAIN feed, feed[i].order_id = o PROVE \E j \in DOMAIN upds : upds[j] = feed[i]
  <2>1. i \notin 1 .. m
    BY <1>11
  <2>2. i - m \in 1 .. l /\ m + (i - m) = i
    BY <1>1, <2>1
  <2> QED BY <1>1, <2>2
<1> QED BY <1>5, <1>10, <1>11 DEF RecordedAt

LEMMA AlignedAtOnce ==
  ASSUME NEW book, IsBook(book), NEW feed \in Seq(Update), NEW upds \in Seq(Update), Aligned(feed, upds, 0)
  PROVE  Recorded(book, feed, upds, OrderId)
BY AlignedRecords DEF Recorded

LEMMA EmptyMirrorIsBook == IsBook(EmptyMirror) /\ DOMAIN EmptyMirror = {}
BY DEF IsBook, EmptyMirror

LEMMA JoinerInitially ==
  ASSUME JoinerInit
  PROVE  JoinerInv
<1>1. JoinerTypes
  BY EmptyMirrorIsBook, EmptySeq DEF JoinerInit, MirrorInit, JoinerTypes
<1>2. WalkTypes /\ CatchesUp /\ OnlyStaleDiffer
  BY DEF JoinerInit, MirrorInit, WalkTypes, CatchesUp, OnlyStaleDiffer
<1> QED BY <1>1, <1>2 DEF JoinerInv

LEMMA ConnectKeeps ==
  ASSUME JoinerInv, connect
  PROVE  JoinerInv'
<1>1. /\ joined = "no" /\ joined' = "waiting" /\ missed' = Len(snapshot_feed) /\ snapshot_feed' = snapshot_feed
      /\ mirror' = mirror /\ stale' = stale /\ backlog' = backlog /\ out' = out /\ view' = view
      /\ iterator' = iterator /\ ahead' = ahead /\ inserted' = inserted
  BY DEF connect, walkVars
<1>2. JoinerTypes'
  <2>1. Len(snapshot_feed) \in Nat
    BY LenProperties DEF JoinerInv, JoinerTypes
  <2> QED BY <1>1, <2>1 DEF JoinerInv, JoinerTypes
<1>3. WalkTypes'
  BY <1>1 DEF JoinerInv, WalkTypes
<1>4. Aligned(snapshot_feed, backlog, Len(snapshot_feed))
  <2>1. backlog = <<>> /\ Len(snapshot_feed) \in Nat /\ Len(<<>>) = 0
    BY <1>1, LenProperties, EmptySeq DEF JoinerInv, JoinerTypes
  <2> QED BY <2>1 DEF Aligned
<1>5. Len(snapshot_feed) = 0 => Recorded(mirror, snapshot_feed, backlog, OrderId)
  BY <1>4, AlignedAtOnce, Zenon DEF JoinerInv, JoinerTypes
<1>6. CatchesUp'
  BY <1>1, <1>4, <1>5 DEF CatchesUp
<1>7. OnlyStaleDiffer'
  BY <1>1 DEF OnlyStaleDiffer
<1> QED BY <1>2, <1>3, <1>6, <1>7 DEF JoinerInv

LEMMA DeliverKeeps ==
  ASSUME JoinerInv, NEW u \in Update, deliver(u)
  PROVE  JoinerInv'
<1>1. /\ snapshot_feed' = Append(snapshot_feed, u) /\ mirror' = mirror /\ joined' = joined /\ missed' = missed /\ stale' = stale
      /\ iterator' = iterator /\ ahead' = ahead /\ inserted' = inserted /\ out' = out
  BY DEF deliver, forward, walkVars
<1>2. /\ snapshot_feed \in Seq(Update) /\ backlog \in Seq(Update) /\ missed \in Nat
      /\ IsBook(mirror) /\ IsBook(out) /\ IsBook(view)
  BY DEF JoinerInv, JoinerTypes
<1>3. Append(snapshot_feed, u) \in Seq(Update) /\ Append(backlog, u) \in Seq(Update)
  BY <1>2, AppendProperties
<1>4. WalkTypes'
  BY <1>1 DEF JoinerInv, WalkTypes
<1>5. CASE joined \in {"waiting", "walking"}
  <2>1. backlog' = Append(backlog, u) /\ view' = view
    BY <1>5 DEF deliver
  <2>2. JoinerTypes'
    BY <1>1, <1>3, <1>5, <2>1 DEF JoinerInv, JoinerTypes
  <2>3. joined = "waiting" /\ missed > 0 => Aligned(Append(snapshot_feed, u), Append(backlog, u), missed)
    BY <1>2, DeliverAligned DEF JoinerInv, CatchesUp
  <2>4. /\ joined = "waiting" /\ missed = 0 =>
             Recorded(mirror, Append(snapshot_feed, u), Append(backlog, u), OrderId)
        /\ joined = "walking" =>
             Recorded(mirror, Append(snapshot_feed, u), Append(backlog, u), OrderId \ stale)
    BY <1>2, DeliverRecorded DEF JoinerInv, CatchesUp
  <2>5. joined = "walking" =>
          Settled(mirror, Append(snapshot_feed, u), Append(backlog, u), OrderId \ stale, out, ahead \cup {iterator})
    BY <1>2, DeliverSettled DEF JoinerInv, CatchesUp
  <2>6. CatchesUp'
    BY <1>1, <2>1, <2>3, <2>4, <2>5 DEF CatchesUp
  <2>7. OnlyStaleDiffer'
    BY <1>1, <1>5 DEF OnlyStaleDiffer
  <2> QED BY <1>4, <2>2, <2>6, <2>7 DEF JoinerInv
<1>6. CASE joined = "synced"
  <2>1. backlog' = backlog /\ view' = Applied(view, u)
    BY <1>6 DEF deliver
  <2>2. IsBook(Applied(view, u))
    BY <1>2, AppliedFollows
  <2>3. JoinerTypes'
    BY <1>1, <1>3, <1>6, <2>1, <2>2 DEF JoinerInv, JoinerTypes
  <2>4. CatchesUp'
    BY <1>1, <1>6 DEF CatchesUp
  <2>5. Replayed(mirror, Append(snapshot_feed, u)) = Applied(Replayed(mirror, snapshot_feed), u)
    BY <1>2, ReplayAppend
  <2>6. \A o \in OrderId \ stale : SameAt(Applied(view, u), Applied(Replayed(mirror, snapshot_feed), u), o)
    BY <1>2, <1>6, ReplayedIsBook, AppliedSameAt DEF JoinerInv, OnlyStaleDiffer
  <2>7. OnlyStaleDiffer'
    BY <1>1, <1>6, <2>1, <2>5, <2>6 DEF OnlyStaleDiffer
  <2> QED BY <1>4, <2>3, <2>4, <2>7 DEF JoinerInv
<1>7. CASE joined \in {"no", "undefined"}
  <2>1. backlog' = backlog /\ view' = view
    BY <1>7 DEF deliver
  <2>2. JoinerTypes'
    BY <1>1, <1>3, <2>1 DEF JoinerInv, JoinerTypes
  <2>3. CatchesUp' /\ OnlyStaleDiffer'
    BY <1>1, <1>7 DEF CatchesUp, OnlyStaleDiffer
  <2> QED BY <1>4, <2>2, <2>3 DEF JoinerInv
<1> QED BY <1>5, <1>6, <1>7 DEF JoinerInv, JoinerTypes

\* The iterator's next position, and that no order is skipped.
LEMMA Advances ==
  ASSUME NEW certain, NEW possible, certain \subseteq OrderId, advanceTo(certain, possible)
  PROVE  /\ iterator' \in certain \cup possible \cup {End}
         /\ iterator' = End => ahead' = {} \/ End \in possible
         /\ certain \subseteq ahead' \cup {iterator'}
         /\ ahead' \subseteq certain /\ inserted' \subseteq possible
<1>1. iterator' = End => certain = {} \/ End \in possible
  BY JoinerAssumption DEF advanceTo
<1> QED BY <1>1 DEF advanceTo

LEMMA CallKeeps ==
  ASSUME JoinerInv, callSnapshotFor
  PROVE  JoinerInv'
<1>1. /\ joined = "waiting" /\ joined' = "walking" /\ advanceTo(DOMAIN mirror, {})
      /\ snapshot_feed' = snapshot_feed /\ mirror' = mirror /\ missed' = 0 /\ backlog' = backlog
      /\ stale' = {snapshot_feed[k].order_id : k \in 1 .. missed} /\ out' = out /\ view' = view
  BY DEF callSnapshotFor
<1>2. /\ snapshot_feed \in Seq(Update) /\ backlog \in Seq(Update)
      /\ IsBook(mirror) /\ IsBook(out) /\ DOMAIN out = {}
  BY <1>1, EmptyMirrorIsBook DEF JoinerInv, JoinerTypes, WalkTypes
<1>3. DOMAIN mirror \subseteq OrderId
  BY <1>2 DEF IsBook
<1>4. /\ iterator' \in DOMAIN mirror \cup {End}
      /\ iterator' = End => ahead' = {}
      /\ DOMAIN mirror \subseteq ahead' \cup {iterator'}
      /\ ahead' \subseteq DOMAIN mirror /\ inserted' \subseteq DOMAIN mirror
  BY <1>1, <1>3, Advances
<1>5. JoinerTypes'
  BY <1>1 DEF JoinerInv, JoinerTypes
<1>6. WalkTypes'
  BY <1>1, <1>4 DEF WalkTypes
<1>7. Recorded(mirror, snapshot_feed, backlog, OrderId \ stale')
  <2>1. missed \in Nat /\ (missed = 0 \/ missed > 0)
    BY DEF JoinerInv, JoinerTypes
  <2>2. CASE missed = 0
    BY <1>1, <2>2 DEF JoinerInv, CatchesUp, Recorded
  <2>3. CASE missed > 0
    <3>1. Aligned(snapshot_feed, backlog, missed)
      BY <1>1, <2>3 DEF JoinerInv, CatchesUp
    <3>2. \A o \in OrderId \ stale' : \A k \in 1 .. missed : snapshot_feed[k].order_id # o
      BY <1>1
    <3> QED BY <1>2, <2>1, <3>1, <3>2, AlignedRecords DEF Recorded
  <2> QED BY <2>1, <2>2, <2>3
<1>8. Settled(mirror, snapshot_feed, backlog, OrderId \ stale', out, ahead' \cup {iterator'})
  BY <1>2, <1>4, <1>7, StartSettled
<1>9. CatchesUp' /\ OnlyStaleDiffer'
  BY <1>1, <1>7, <1>8 DEF CatchesUp, OnlyStaleDiffer
<1> QED BY <1>5, <1>6, <1>9 DEF JoinerInv

LEMMA CopyKeeps ==
  ASSUME JoinerInv, copyEntry
  PROVE  JoinerInv'
<1>1. /\ joined = "walking" /\ iterator # End /\ advanceTo(ahead, inserted)
      /\ out' = [o \in DOMAIN out \cup {iterator} |-> IF o = iterator THEN mirror[o] ELSE out[o]]
      /\ snapshot_feed' = snapshot_feed /\ mirror' = mirror /\ missed' = missed /\ backlog' = backlog
      /\ joined' = joined /\ stale' = stale /\ view' = view
  BY DEF copyEntry
<1>2. /\ snapshot_feed \in Seq(Update) /\ backlog \in Seq(Update)
      /\ IsBook(mirror) /\ IsBook(out)
  BY <1>1 DEF JoinerInv, JoinerTypes
<1>3. /\ iterator \in DOMAIN mirror /\ ahead \subseteq DOMAIN mirror /\ inserted \subseteq DOMAIN mirror
      /\ DOMAIN mirror \subseteq OrderId
  BY <1>1, <1>2 DEF JoinerInv, WalkTypes, IsBook
<1>4. /\ iterator' \in ahead \cup inserted \cup {End}
      /\ iterator' = End => ahead' = {}
      /\ ahead \subseteq ahead' \cup {iterator'} /\ ahead' \subseteq ahead /\ inserted' \subseteq inserted
  BY <1>1, <1>3, Advances, JoinerAssumption
<1>5. IsBook(out')
  BY <1>1, <1>2, <1>3 DEF IsBook
<1>6. JoinerTypes'
  BY <1>1, <1>5 DEF JoinerInv, JoinerTypes
<1>7. WalkTypes'
  BY <1>1, <1>3, <1>4 DEF WalkTypes
<1>8. /\ Recorded(mirror, snapshot_feed, backlog, OrderId \ stale)
      /\ Settled(mirror, snapshot_feed, backlog, OrderId \ stale, out, ahead \cup {iterator})
  BY <1>1 DEF JoinerInv, CatchesUp
<1>9. Settled(mirror, snapshot_feed, backlog, OrderId \ stale, out', ahead' \cup {iterator'})
  <2> DEFINE more == out'
             still == ahead' \cup {iterator'}
             away == ahead \cup {iterator}
             it == iterator
             orders == OrderId \ stale
  <2>1. CopiedInto(more, out, it, mirror) /\ IsBook(more) /\ it \in DOMAIN mirror
    BY <1>1, <1>3, <1>5 DEF CopiedInto
  <2>2. Covers(still, it, away)
    BY <1>4 DEF Covers
  <2>3. Recorded(mirror, snapshot_feed, backlog, orders) /\ Settled(mirror, snapshot_feed, backlog, orders, out, away)
    BY <1>8
  <2> HIDE DEF more, still, away, it, orders
  <2>4. Settled(mirror, snapshot_feed, backlog, orders, more, still)
    BY <1>2, <2>1, <2>2, <2>3, CopySettled
  <2> QED BY <2>4 DEF more, still, orders
<1>10. CatchesUp' /\ OnlyStaleDiffer'
  BY <1>1, <1>8, <1>9 DEF CatchesUp, OnlyStaleDiffer
<1> QED BY <1>6, <1>7, <1>10 DEF JoinerInv

LEMMA LoadKeeps ==
  ASSUME JoinerInv, loadSnapshot
  PROVE  JoinerInv'
<1>1. /\ joined = "walking" /\ iterator = End /\ joined' = "synced" /\ view' = Replayed(out, backlog)
      /\ backlog' = <<>> /\ out' = EmptyMirror /\ inserted' = {}
      /\ snapshot_feed' = snapshot_feed /\ mirror' = mirror /\ missed' = missed /\ stale' = stale
      /\ iterator' = iterator /\ ahead' = ahead
  BY DEF loadSnapshot
<1>2. /\ snapshot_feed \in Seq(Update) /\ backlog \in Seq(Update)
      /\ IsBook(mirror) /\ IsBook(out)
  BY DEF JoinerInv, JoinerTypes
<1>3. (ahead \cup {iterator}) \cap OrderId = {}
  BY <1>1, JoinerAssumption DEF JoinerInv, WalkTypes
<1>4. Settled(mirror, snapshot_feed, backlog, OrderId \ stale, out, ahead \cup {iterator})
  BY <1>1 DEF JoinerInv, CatchesUp
<1>5. \A o \in OrderId \ stale : SameAt(Replayed(out, backlog), Replayed(mirror, snapshot_feed), o)
  BY <1>3, <1>4 DEF Settled
<1>6. IsBook(Replayed(out, backlog)) /\ <<>> \in Seq(Update)
  BY <1>2, ReplayedIsBook, EmptySeq
<1>7. JoinerTypes'
  BY <1>1, <1>6, EmptyMirrorIsBook DEF JoinerInv, JoinerTypes
<1>8. WalkTypes'
  BY <1>1 DEF JoinerInv, WalkTypes
<1>9. CatchesUp' /\ OnlyStaleDiffer'
  BY <1>1, <1>5 DEF CatchesUp, OnlyStaleDiffer
<1> QED BY <1>7, <1>8, <1>9 DEF JoinerInv

LEMMA MirrorKeeps ==
  ASSUME JoinerInv, mirrorUpdate
  PROVE  JoinerInv'
<1> DEFINE new == DOMAIN mirror' \ DOMAIN mirror
           freed == iterator # End /\ iterator \notin DOMAIN mirror'
           Broken == /\ joined = "walking" /\ joined' = "undefined"
                     /\ iterator' = End /\ ahead' = {} /\ inserted' = {} /\ out' = EmptyMirror /\ backlog' = <<>>
           Whole == /\ ~freed /\ ahead' = ahead \cap DOMAIN mirror'
                    /\ inserted' = IF iterator # End THEN (inserted \cap DOMAIN mirror') \cup new ELSE {}
                    /\ joined' = joined /\ stale' = stale /\ iterator' = iterator /\ out' = out /\ backlog' = backlog
<1>1. /\ snapshot_feed # <<>> /\ mirror' = Applied(mirror, Head(snapshot_feed))
      /\ snapshot_feed' = Tail(snapshot_feed) /\ view' = view
      /\ missed' = IF missed > 0 THEN missed - 1 ELSE 0
  BY DEF mirrorUpdate, applyUpdate
<1>2. Broken \/ Whole
  BY DEF mirrorUpdate
<1>3. /\ snapshot_feed \in Seq(Update) /\ backlog \in Seq(Update) /\ missed \in Nat
      /\ IsBook(mirror) /\ IsBook(out) /\ IsBook(view)
  BY DEF JoinerInv, JoinerTypes
<1>4. Tail(snapshot_feed) \in Seq(Update) /\ Head(snapshot_feed) \in Update
  BY <1>1, <1>3, RestOf
<1>5. IsBook(mirror')
  BY <1>1, <1>3, <1>4, AppliedFollows
<1>6. missed' \in Nat /\ (missed = 0 => missed' = 0)
  BY <1>1, <1>3
<1>7. CASE Broken
  <2>1. JoinerTypes'
    BY <1>1, <1>3, <1>4, <1>5, <1>6, <1>7, EmptyMirrorIsBook, EmptySeq DEF JoinerInv, JoinerTypes
  <2>2. WalkTypes' /\ CatchesUp' /\ OnlyStaleDiffer'
    BY <1>7 DEF WalkTypes, CatchesUp, OnlyStaleDiffer
  <2> QED BY <2>1, <2>2 DEF JoinerInv
<1>8. CASE Whole
  <2>1. JoinerTypes'
    BY <1>1, <1>3, <1>4, <1>5, <1>6, <1>8 DEF JoinerInv, JoinerTypes
  <2>2. WalkTypes'
    BY <1>8 DEF JoinerInv, WalkTypes
  <2>3. joined = "waiting" /\ missed > 0 => Aligned(Tail(snapshot_feed), backlog, missed - 1)
    BY <1>1, <1>3, MirrorAligned DEF JoinerInv, CatchesUp
  <2>4. /\ joined = "waiting" /\ missed = 0 => Recorded(mirror', Tail(snapshot_feed), backlog, OrderId)
        /\ joined = "walking" => Recorded(mirror', Tail(snapshot_feed), backlog, OrderId \ stale)
    BY <1>1, <1>3, MirrorRecorded DEF JoinerInv, CatchesUp
  <2>5. joined = "waiting" /\ missed > 0 /\ missed' = 0 => Recorded(mirror', Tail(snapshot_feed), backlog, OrderId)
    <3> SUFFICES ASSUME joined = "waiting", missed > 0, missed' = 0
                 PROVE  Recorded(mirror', Tail(snapshot_feed), backlog, OrderId)
      OBVIOUS
    <3>1. missed - 1 = 0
      BY <1>1, <1>3
    <3>2. Aligned(Tail(snapshot_feed), backlog, 0)
      BY <2>3, <3>1
    <3> QED BY <1>3, <1>4, <1>5, <3>2, AlignedAtOnce, Zenon
  <2>6. joined = "walking" =>
          Settled(mirror', Tail(snapshot_feed), backlog, OrderId \ stale, out, ahead' \cup {iterator})
    <3> SUFFICES ASSUME joined = "walking"
                 PROVE  Settled(mirror', Tail(snapshot_feed), backlog, OrderId \ stale, out, ahead' \cup {iterator})
      OBVIOUS
    <3> DEFINE away == ahead \cup {iterator}
               still == ahead' \cup {iterator}
               orders == OrderId \ stale
    <3>1. /\ Settled(mirror, snapshot_feed, backlog, orders, out, away)
          /\ Recorded(mirror, snapshot_feed, backlog, orders)
      BY DEF JoinerInv, CatchesUp
    <3>2. \A o \in orders : o \in away /\ o \notin still => o \notin DOMAIN Applied(mirror, Head(snapshot_feed))
      BY <1>1, <1>8
    <3> HIDE DEF away, still, orders
    <3>3. Settled(Applied(mirror, Head(snapshot_feed)), Tail(snapshot_feed), backlog, orders, out, still)
      BY <1>1, <1>3, <3>1, <3>2, MirrorSettled, Zenon
    <3> QED BY <1>1, <3>3 DEF still, orders
  <2>7. CatchesUp'
    <3>1. joined = "waiting" /\ missed' > 0 => Aligned(Tail(snapshot_feed), backlog, missed')
      BY <1>1, <1>3, <2>3
    <3>2. joined = "waiting" /\ missed' = 0 => Recorded(mirror', Tail(snapshot_feed), backlog, OrderId)
      <4>1. missed = 0 \/ missed > 0
        BY <1>3
      <4> QED BY <2>4, <2>5, <4>1
    <3> QED BY <1>1, <1>8, <2>4, <2>6, <3>1, <3>2 DEF CatchesUp
  <2>8. OnlyStaleDiffer'
    <3>1. Replayed(mirror', Tail(snapshot_feed)) = Replayed(mirror, snapshot_feed)
      BY <1>1, <1>3, ReplayHead
    <3> QED BY <1>1, <1>8, <3>1 DEF JoinerInv, OnlyStaleDiffer
  <2> QED BY <2>1, <2>2, <2>7, <2>8 DEF JoinerInv
<1> HIDE DEF Broken, Whole
<1> QED BY <1>2, <1>7, <1>8

\* A consumer that connects late, asks for the snapshot and replays what it recorded shows
\* from then on what the mirror will show, of every order but those of the updates it never
\* saw and the mirror had not applied when it asked: for any stream of updates, although the
\* copy is torn and the replay repeats updates.
THEOREM LateJoinerLacksOnlyStale == JoinerSpec => []OnlyStaleDiffer
<1>1. JoinerInv /\ [JoinerNext]_<<snapshot_feed, mirror, joinerVars>> => JoinerInv'
  <2> SUFFICES ASSUME JoinerInv, [JoinerNext]_<<snapshot_feed, mirror, joinerVars>> PROVE JoinerInv'
    OBVIOUS
  <2>1. CASE UNCHANGED <<snapshot_feed, mirror, joinerVars>>
    BY <2>1 DEF joinerVars, walkVars, JoinerInv, JoinerTypes, WalkTypes, CatchesUp, OnlyStaleDiffer
  <2> QED BY <2>1, ConnectKeeps, CallKeeps, CopyKeeps, LoadKeeps, MirrorKeeps, DeliverKeeps DEF JoinerNext
<1> QED BY <1>1, JoinerInitially, PTL DEF JoinerSpec, JoinerInv
===============================================================================
