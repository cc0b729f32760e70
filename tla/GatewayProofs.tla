----------------------------- MODULE GatewayProofs -----------------------------
(***************************************************************************)
(* The gateway loses, duplicates and overtakes nothing, for any number of  *)
(* producers, symbols and submissions and any size of the buffer.          *)
(***************************************************************************)
EXTENDS OrderGateway, SequenceTheorems, TLAPS

(***************************************************************************)
(* The line of requests, from the first routed to the last pushed.  Moving *)
(* a request on leaves it as it is; only a push and the sort change it.    *)
(***************************************************************************)
LEMMA FirstAndRest ==
  ASSUME NEW S, NEW b \in Seq(S), b # <<>>
  PROVE  Head(b) \in S /\ Tail(b) \in Seq(S) /\ <<Head(b)>> \in Seq(S) /\ b = <<Head(b)>> \o Tail(b)
<1>1. Head(b) \in S /\ Tail(b) \in Seq(S) /\ Len(b) \in Nat \ {0}
  BY HeadTailProperties, EmptySeq
<1>2. SubSeq(b, 1, Len(b)) = << b[1] >> \o SubSeq(b, 1 + 1, Len(b))
  BY <1>1, SubSeqRecursiveFirst
<1>3. SubSeq(b, 1, Len(b)) = b /\ SubSeq(b, 2, Len(b)) = Tail(b) /\ b[1] = Head(b)
  BY SubSeqFull, TailIsSubSeq
<1>4. <<Head(b)>> \in Seq(S)
  BY <1>1
<1> QED BY <1>1, <1>2, <1>3, <1>4

\* Concatenation, by its laws alone.
Cat(s, t) == s \o t

LEMMA CatTyped ==
  ASSUME NEW S, NEW s \in Seq(S), NEW t \in Seq(S)
  PROVE  Cat(s, t) \in Seq(S)
BY ConcatProperties DEF Cat

LEMMA CatAssociative ==
  ASSUME NEW S, NEW s \in Seq(S), NEW t \in Seq(S), NEW u \in Seq(S)
  PROVE  Cat(Cat(s, t), u) = Cat(s, Cat(t, u))
BY ConcatAssociative DEF Cat

LEMMA CatAppend ==
  ASSUME NEW S, NEW s \in Seq(S), NEW x \in S
  PROVE  <<x>> \in Seq(S) /\ Append(s, x) = Cat(s, <<x>>)
<1>1. <<x>> \in Seq(S)
  OBVIOUS
<1>2. Append(s, x) = s \o <<x>>
  BY AppendIsConcat
<1> QED BY <1>1, <1>2 DEF Cat

\* The head of b moves on to the end of a.
MovesOn(a, b, c) == Append(a, Head(b)) \o (Tail(b) \o c) = a \o (b \o c)

LEMMA MovedOn ==
  ASSUME NEW a \in Seq(Request), NEW b \in Seq(Request), NEW c \in Seq(Request), b # <<>>
  PROVE  MovesOn(a, b, c)
<1> DEFINE h == <<Head(b)>>
           t == Tail(b)
<1>1. Head(b) \in Request /\ t \in Seq(Request) /\ h \in Seq(Request) /\ b = Cat(h, t)
  BY FirstAndRest DEF Cat
<1>2. Append(a, Head(b)) = Cat(a, h)
  BY <1>1, CatAppend
<1> HIDE DEF h, t
<1>3. Cat(Cat(a, h), Cat(t, c)) = Cat(a, Cat(h, Cat(t, c)))
  BY <1>1, CatTyped, CatAssociative
<1>4. Cat(h, Cat(t, c)) = Cat(Cat(h, t), c)
  BY <1>1, CatAssociative
<1>5. Cat(Append(a, Head(b)), Cat(t, c)) = Cat(a, Cat(b, c))
  BY <1>1, <1>2, <1>3, <1>4, Zenon
<1> QED BY <1>5, Zenon DEF MovesOn, Cat, t

\* x is pushed to the end of the line.
PushesLast(a, b, c, d, x) == a \o (b \o (c \o Append(d, x))) = Append(a \o (b \o (c \o d)), x)

LEMMA PushedLast ==
  ASSUME NEW a \in Seq(Request), NEW b \in Seq(Request), NEW c \in Seq(Request), NEW d \in Seq(Request), NEW x \in Request
  PROVE  PushesLast(a, b, c, d, x)
<1> DEFINE y == <<x>>
<1>1. y \in Seq(Request) /\ Append(d, x) = Cat(d, y)
  BY CatAppend
<1>2. \A s \in Seq(Request) : Cat(s, y) = Append(s, x)
  BY CatAppend
<1> HIDE DEF y
<1>3. /\ Cat(c, d) \in Seq(Request) /\ Cat(b, Cat(c, d)) \in Seq(Request)
      /\ Cat(a, Cat(b, Cat(c, d))) \in Seq(Request)
  BY CatTyped
<1>4. Cat(c, Append(d, x)) = Cat(Cat(c, d), y)
  BY <1>1, CatAssociative
<1>5. Cat(b, Cat(Cat(c, d), y)) = Cat(Cat(b, Cat(c, d)), y)
  BY <1>1, <1>3, CatAssociative
<1>6. Cat(a, Cat(Cat(b, Cat(c, d)), y)) = Cat(Cat(a, Cat(b, Cat(c, d))), y)
  BY <1>1, <1>3, CatAssociative
<1>7. Cat(a, Cat(b, Cat(c, Append(d, x)))) = Append(Cat(a, Cat(b, Cat(c, d))), x)
  BY <1>2, <1>3, <1>4, <1>5, <1>6, Zenon
<1> QED BY <1>7 DEF PushesLast, Cat

\* t has the elements of s, each where g says, and swaps two of them only if the later one
\* has no later receive time.
RearrangedBy(s, t, g) ==
  /\ DOMAIN t = DOMAIN s /\ g \in [DOMAIN s -> DOMAIN s]
  /\ \A i, j \in DOMAIN s : g[i] = g[j] => i = j
  /\ \A j \in DOMAIN s : \E i \in DOMAIN s : g[i] = j
  /\ \A i \in DOMAIN s : t[i] = s[g[i]]
  /\ \A i, j \in DOMAIN s : g[i] < g[j] /\ t[i].recv_time < t[j].recv_time => i < j

\* The elements of three sequences in a row.
LEMMA ThreeInARow ==
  ASSUME NEW S, NEW a \in Seq(S), NEW b \in Seq(S), NEW c \in Seq(S)
  PROVE  /\ a \o (b \o c) \in Seq(S)
         /\ DOMAIN (a \o (b \o c)) = 1 .. (Len(a) + Len(b) + Len(c))
         /\ \A i \in 1 .. (Len(a) + Len(b) + Len(c)) :
              (a \o (b \o c))[i] = IF i <= Len(a) THEN a[i]
                                   ELSE IF i <= Len(a) + Len(b) THEN b[i - Len(a)]
                                   ELSE c[i - Len(a) - Len(b)]
<1>1. Len(a) \in Nat /\ Len(b) \in Nat /\ Len(c) \in Nat
  BY LenProperties
<1> DEFINE d == b \o c
<1>2. /\ d \in Seq(S) /\ Len(d) = Len(b) + Len(c)
      /\ \A i \in 1 .. (Len(b) + Len(c)) : d[i] = IF i <= Len(b) THEN b[i] ELSE c[i - Len(b)]
  BY ConcatProperties
<1> HIDE DEF d
<1>6. d \in Seq(S)
  BY <1>2
<1> DEFINE e == a \o d
<1>3. /\ e \in Seq(S) /\ Len(e) = Len(a) + Len(d)
      /\ \A i \in 1 .. (Len(a) + Len(d)) : e[i] = IF i <= Len(a) THEN a[i] ELSE d[i - Len(a)]
  BY <1>6, ConcatProperties
<1> HIDE DEF e
<1>4. DOMAIN e = 1 .. (Len(a) + Len(b) + Len(c))
  BY <1>1, <1>2, <1>3, LenProperties
<1>5. ASSUME NEW i \in 1 .. (Len(a) + Len(b) + Len(c))
      PROVE  e[i] = IF i <= Len(a) THEN a[i]
                    ELSE IF i <= Len(a) + Len(b) THEN b[i - Len(a)]
                    ELSE c[i - Len(a) - Len(b)]
  <2>1. e[i] = IF i <= Len(a) THEN a[i] ELSE d[i - Len(a)]
    BY <1>1, <1>2, <1>3
  <2>2. CASE i > Len(a)
    <3>1. i - Len(a) \in 1 .. (Len(b) + Len(c))
      BY <1>1, <2>2
    <3>2. d[i - Len(a)] = IF i - Len(a) <= Len(b) THEN b[i - Len(a)] ELSE c[(i - Len(a)) - Len(b)]
      BY <1>2, <3>1
    <3> QED BY <1>1, <2>1, <2>2, <3>2
  <2>3. CASE i <= Len(a)
    BY <2>1, <2>3
  <2> QED BY <1>1, <2>2, <2>3
<1> QED BY <1>3, <1>4, <1>5 DEF d, e

\* Sorting the middle of the line rearranges the line.
LEMMA SortRearranges ==
  ASSUME NEW a \in Seq(Request), NEW b \in Seq(Request), NEW c \in Seq(Request),
         NEW q \in SortedOrders(b)
  PROVE  /\ q \in Seq(Request) /\ Len(q) = Len(b)
         /\ \E g : RearrangedBy(a \o (b \o c), a \o (q \o c), g)
<1> DEFINE m == Len(a)
           n == Len(b)
           k == Len(c)
           s == a \o (b \o c)
           t == a \o (q \o c)
<1>1. m \in Nat /\ n \in Nat /\ k \in Nat /\ DOMAIN b = 1 .. n
  BY LenProperties
<1>2. PICK f \in Bijection(1 .. n, 1 .. n) :
        /\ \A i, j \in 1 .. n : i < j => b[f[i]].recv_time <= b[f[j]].recv_time
        /\ q = [i \in 1 .. n |-> b[f[i]]]
  BY <1>1, Zenon DEF SortedOrders
<1>3. /\ f \in [1 .. n -> 1 .. n]
      /\ \A i, j \in 1 .. n : f[i] = f[j] => i = j
      /\ \A j \in 1 .. n : \E i \in 1 .. n : f[i] = j
  BY DEF Bijection, Injection, Surjection, IsInjective
<1>4. q \in Seq(Request) /\ Len(q) = n /\ \A i \in 1 .. n : q[i] = b[f[i]] /\ q[i] \in Request
  <2>1. \A i \in 1 .. n : b[i] \in Request
    BY <1>1, ElementOfSeq
  <2>2. \A i \in 1 .. n : b[f[i]] \in Request
    BY <1>3, <2>1, Zenon
  <2>3. q \in [1 .. n -> Request]
    BY <1>2, <2>2
  <2>4. q \in Seq(Request)
    BY <1>1, <2>3, IsASeq
  <2>5. Len(q) = n
    BY <1>1, <2>3, <2>4, LenProperties
  <2> QED BY <1>2, <2>2, <2>4, <2>5
<1>5. /\ DOMAIN s = 1 .. (m + n + k)
      /\ \A i \in 1 .. (m + n + k) :
           s[i] = IF i <= m THEN a[i] ELSE IF i <= m + n THEN b[i - m] ELSE c[i - m - n]
  BY ThreeInARow
<1>6. /\ DOMAIN t = 1 .. (m + n + k)
      /\ \A i \in 1 .. (m + n + k) :
           t[i] = IF i <= m THEN a[i] ELSE IF i <= m + n THEN q[i - m] ELSE c[i - m - n]
  <2>1. q \in Seq(Request)
    BY <1>4
  <2>2. /\ DOMAIN t = 1 .. (Len(a) + Len(q) + Len(c))
        /\ \A i \in 1 .. (Len(a) + Len(q) + Len(c)) :
             t[i] = IF i <= Len(a) THEN a[i]
                    ELSE IF i <= Len(a) + Len(q) THEN q[i - Len(a)] ELSE c[i - Len(a) - Len(q)]
    BY <2>1, ThreeInARow
  <2>3. Len(q) = n
    BY <1>4
  <2> HIDE DEF t
  <2> QED BY <2>2, <2>3
<1> DEFINE D == 1 .. (m + n + k)
           Mid(i) == m < i /\ i <= m + n
           g == [i \in D |-> IF Mid(i) THEN m + f[i - m] ELSE i]
<1> HIDE DEF s, t, m, n, k
<1>7. ASSUME NEW i \in D, Mid(i)
      PROVE  /\ i - m \in 1 .. n /\ g[i] = m + f[i - m] /\ g[i] \in D /\ Mid(g[i])
             /\ s[g[i]] = b[f[i - m]] /\ t[i] = q[i - m]
  <2>1. i - m \in 1 .. n /\ i \in Int
    BY <1>1, <1>7
  <2>2. f[i - m] \in 1 .. n
    BY <1>3, <2>1
  <2>3. g[i] = m + f[i - m]
    BY <1>7
  <2>4. g[i] \in D /\ Mid(g[i]) /\ g[i] - m = f[i - m]
    BY <1>1, <2>2, <2>3
  <2>5. s[g[i]] = b[g[i] - m]
    BY <1>1, <1>5, <2>4
  <2>6. t[i] = q[i - m]
    BY <1>1, <1>6, <1>7
  <2> QED BY <2>1, <2>3, <2>4, <2>5, <2>6
<1>8. ASSUME NEW i \in D, ~Mid(i) PROVE g[i] = i /\ t[i] = s[i]
  BY <1>1, <1>5, <1>6, <1>8
<1>9. g \in [D -> D]
  BY <1>7, <1>8
<1>10. ASSUME NEW i \in D, NEW j \in D, g[i] = g[j] PROVE i = j
  <2>1. CASE Mid(i) /\ Mid(j)
    <3>1. i - m \in 1 .. n /\ j - m \in 1 .. n /\ m + f[i - m] = m + f[j - m]
      BY <1>7, <1>10, <2>1
    <3>2. f[i - m] \in Int /\ f[j - m] \in Int
      BY <1>3, <3>1
    <3>4. f[i - m] = f[j - m]
      BY <1>1, <3>1, <3>2
    <3>3. i - m = j - m
      BY <1>3, <3>1, <3>4
    <3> QED BY <1>1, <3>3
  <2> HIDE DEF g
  <2>2. CASE ~(Mid(i) /\ Mid(j))
    BY <1>7, <1>8, <1>10, <2>2
  <2> QED BY <2>1, <2>2
<1>11. ASSUME NEW j \in D PROVE \E i \in D : g[i] = j
  <2>1. CASE Mid(j)
    <3>1. j - m \in 1 .. n
      BY <1>1, <2>1
    <3>2. PICK h \in 1 .. n : f[h] = j - m
      BY <1>3, <3>1
    <3>3. m + h \in D /\ Mid(m + h) /\ (m + h) - m = h
      BY <1>1
    <3>4. g[m + h] = m + f[h]
      BY <1>7, <3>3
    <3>5. m + f[h] = j
      BY <1>1, <3>2
    <3> QED BY <3>3, <3>4, <3>5
  <2>2. CASE ~Mid(j)
    BY <1>8, <2>2
  <2> QED BY <2>1, <2>2
<1>12. ASSUME NEW i \in D PROVE t[i] = s[g[i]]
  <2> HIDE DEF g
  <2>1. CASE Mid(i)
    <3>1. i - m \in 1 .. n /\ s[g[i]] = b[f[i - m]] /\ t[i] = q[i - m]
      BY <1>7, <2>1
    <3>2. q[i - m] = b[f[i - m]]
      BY <1>4, <3>1
    <3> QED BY <3>1, <3>2
  <2>2. CASE ~Mid(i)
    BY <1>8, <2>2
  <2> QED BY <2>1, <2>2
<1>13. ASSUME NEW i \in D, NEW j \in D, g[i] < g[j], t[i].recv_time < t[j].recv_time PROVE i < j
  <2> HIDE DEF g
  <2>1. CASE Mid(i) /\ Mid(j)
    <3>1. i - m \in 1 .. n /\ j - m \in 1 .. n /\ t[i] = q[i - m] /\ t[j] = q[j - m]
      BY <1>7, <2>1
    <3>2. q[i - m].recv_time \in Int /\ q[j - m].recv_time \in Int
      <4>1. \A r \in Request : r.recv_time \in Int
        BY DEF Request
      <4>2. q[i - m] \in Request /\ q[j - m] \in Request
        BY <1>4, <3>1
      <4> QED BY <4>1, <4>2
    <3>3. j - m < i - m => q[j - m].recv_time <= q[i - m].recv_time
      BY <1>2, <1>4, <3>1
    <3>4. ~(j - m < i - m) /\ i # j
      BY <1>13, <3>1, <3>2, <3>3
    <3> QED BY <1>1, <3>4
  <2>2. CASE ~Mid(i) /\ ~Mid(j)
    BY <1>8, <1>13, <2>2
  <2>3. CASE Mid(i) /\ ~Mid(j)
    <3>1. g[i] \in D /\ Mid(g[i]) /\ g[j] = j
      BY <1>7, <1>8, <2>3
    <3> QED BY <1>1, <1>13, <2>3, <3>1
  <2>4. CASE ~Mid(i) /\ Mid(j)
    <3>1. g[j] \in D /\ Mid(g[j]) /\ g[i] = i
      BY <1>7, <1>8, <2>4
    <3> QED BY <1>1, <1>13, <2>4, <3>1
  <2> QED BY <2>1, <2>2, <2>3, <2>4
<1>14. RearrangedBy(s, t, g)
  <2> HIDE DEF g
  <2> QED BY <1>5, <1>6, <1>9, <1>10, <1>11, <1>12, <1>13, Zenon DEF RearrangedBy
<1>15. \E h : RearrangedBy(s, t, h)
  BY <1>14
<1> QED BY <1>4, <1>15 DEF s, t, n

(***************************************************************************)
(* What holds of the line: its requests are ones the producers have        *)
(* stamped and pushed, each once, none missing, and non-overlapping        *)
(* submissions with different receive times are in their order.            *)
(***************************************************************************)
Stamped(sub, c) == \A p \in Producer : c[p] # Idle => c[p].from = p /\ c[p].nr = sub[p]

Numbered(s, sub, c) ==
  \A i \in DOMAIN s :
    s[i].nr <= sub[s[i].from] /\ (c[s[i].from] # Idle => s[i].nr < sub[s[i].from])

NoneTwice(s) == \A i, j \in DOMAIN s : s[i].from = s[j].from /\ s[i].nr = s[j].nr => i = j

NoneMissing(s, sub, c) ==
  \A p \in Producer : \A n \in 1 .. sub[p] :
    c[p] = Idle \/ n < sub[p] => \E i \in DOMAIN s : s[i].from = p /\ s[i].nr = n

Returned(s, prec) == \A ab \in prec : \E i \in DOMAIN s : s[i] = ab[1]

InOrder(s, prec) ==
  \A ab \in prec : ab[1].recv_time < ab[2].recv_time =>
    \A j \in DOMAIN s : s[j] = ab[2] => \E i \in DOMAIN s : i < j /\ s[i] = ab[1]

LineSound(s, sub, c, prec) ==
  /\ Stamped(sub, c) /\ Numbered(s, sub, c) /\ NoneTwice(s) /\ NoneMissing(s, sub, c)
  /\ Returned(s, prec) /\ InOrder(s, prec)

LEMMA RearrangedSound ==
  ASSUME NEW s, NEW t, NEW g, RearrangedBy(s, t, g),
         NEW sub, NEW c, NEW prec, LineSound(s, sub, c, prec)
  PROVE  LineSound(t, sub, c, prec)
<1>1. DOMAIN t = DOMAIN s /\ \A i \in DOMAIN s : g[i] \in DOMAIN s /\ t[i] = s[g[i]]
  BY DEF RearrangedBy
<1>7. \A j \in DOMAIN s : \E i \in DOMAIN t : g[i] = j /\ t[i] = s[j]
  BY <1>1 DEF RearrangedBy
<1>2. Numbered(t, sub, c)
  <2> SUFFICES ASSUME NEW i \in DOMAIN t
               PROVE  t[i].nr <= sub[t[i].from] /\ (c[t[i].from] # Idle => t[i].nr < sub[t[i].from])
    BY DEF Numbered
  <2>1. g[i] \in DOMAIN s /\ t[i] = s[g[i]]
    BY <1>1
  <2> QED BY <2>1 DEF LineSound, Numbered
<1>3. NoneTwice(t)
  <2> SUFFICES ASSUME NEW i \in DOMAIN t, NEW j \in DOMAIN t, t[i].from = t[j].from, t[i].nr = t[j].nr
               PROVE  i = j
    BY DEF NoneTwice
  <2>1. g[i] \in DOMAIN s /\ t[i] = s[g[i]] /\ g[j] \in DOMAIN s /\ t[j] = s[g[j]]
    BY <1>1
  <2>2. g[i] = g[j]
    BY <2>1 DEF LineSound, NoneTwice
  <2> QED BY <1>1, <2>2 DEF RearrangedBy
<1>4. NoneMissing(t, sub, c)
  <2> SUFFICES ASSUME NEW p \in Producer, NEW n \in 1 .. sub[p], c[p] = Idle \/ n < sub[p]
               PROVE  \E i \in DOMAIN t : t[i].from = p /\ t[i].nr = n
    BY DEF NoneMissing
  <2>1. PICK j \in DOMAIN s : s[j].from = p /\ s[j].nr = n
    BY DEF LineSound, NoneMissing
  <2>2. PICK i \in DOMAIN t : t[i] = s[j]
    BY <1>7
  <2> QED BY <2>1, <2>2
<1>5. Returned(t, prec)
  <2> SUFFICES ASSUME NEW ab \in prec PROVE \E i \in DOMAIN t : t[i] = ab[1]
    BY DEF Returned
  <2>1. PICK j \in DOMAIN s : s[j] = ab[1]
    BY DEF LineSound, Returned
  <2>2. PICK i \in DOMAIN t : t[i] = s[j]
    BY <1>7
  <2> QED BY <2>1, <2>2
<1>6. InOrder(t, prec)
  <2> SUFFICES ASSUME NEW ab \in prec, ab[1].recv_time < ab[2].recv_time,
                      NEW j \in DOMAIN t, t[j] = ab[2]
               PROVE  \E i \in DOMAIN t : i < j /\ t[i] = ab[1]
    BY DEF InOrder
  <2>1. g[j] \in DOMAIN s /\ s[g[j]] = ab[2]
    BY <1>1
  <2>2. PICK h \in DOMAIN s : h < g[j] /\ s[h] = ab[1]
    BY <2>1 DEF LineSound, InOrder
  <2>3. PICK i \in DOMAIN t : g[i] = h /\ t[i] = s[h]
    BY <1>7
  <2>4. t[i] = ab[1] /\ g[i] < g[j] /\ t[i].recv_time < t[j].recv_time
    BY <2>2, <2>3
  <2>5. i < j
    BY <1>1, <2>4 DEF RearrangedBy
  <2> QED BY <1>1, <2>4, <2>5
<1> QED BY <1>2, <1>3, <1>4, <1>5, <1>6 DEF LineSound

\* A push: the request is the last its producer stamped.
LEMMA PushSound ==
  ASSUME NEW s \in Seq(Request), NEW sub \in [Producer -> Nat], NEW c \in [Producer -> Request \cup {Idle}],
         NEW prec, LineSound(s, sub, c, prec), NEW p \in Producer, c[p] # Idle
  PROVE  LineSound(Append(s, c[p]), sub, [c EXCEPT ![p] = Idle], prec)
<1> DEFINE r == c[p]
           t == Append(s, r)
           d == [c EXCEPT ![p] = Idle]
           n == Len(s)
<1>1. r \in Request /\ r.from = p /\ r.nr = sub[p] /\ sub[p] \in Nat
  BY DEF LineSound, Stamped
<1>2. /\ n \in Nat /\ DOMAIN s = 1 .. n /\ DOMAIN t = 1 .. (n + 1) /\ t[n + 1] = r
      /\ \A i \in 1 .. n : t[i] = s[i]
  BY <1>1, AppendProperties, LenProperties
<1>3. \A i \in DOMAIN s : s[i] \in Request
  BY ElementOfSeq, LenProperties
<1>4. /\ \A i \in DOMAIN s : i \in DOMAIN t /\ t[i] = s[i]
      /\ \A i \in DOMAIN t : i \in DOMAIN s \/ i = n + 1
      /\ n + 1 \in DOMAIN t /\ t[n + 1] = r /\ \A i \in DOMAIN s : i < n + 1
  BY <1>2
<1>5. d[p] = Idle /\ \A o \in Producer : o # p => d[o] = c[o]
  OBVIOUS
<1>6. \A q \in Request : q.from \in Producer /\ q.nr \in Nat
  BY DEF Request
<1>7. \A i \in DOMAIN s : s[i].from = p => s[i].nr < sub[p]
  BY <1>3 DEF LineSound, Numbered
<1> HIDE DEF r, t, d, n
<1>8. Stamped(sub, d)
  BY <1>5 DEF LineSound, Stamped
<1>9. Numbered(t, sub, d)
  <2> SUFFICES ASSUME NEW i \in DOMAIN t
               PROVE  t[i].nr <= sub[t[i].from] /\ (d[t[i].from] # Idle => t[i].nr < sub[t[i].from])
    BY DEF Numbered
  <2>1. CASE i \in DOMAIN s
    <3>1. s[i].nr <= sub[s[i].from] /\ (c[s[i].from] # Idle => s[i].nr < sub[s[i].from])
      BY <2>1 DEF LineSound, Numbered
    <3>2. s[i].from \in Producer
      BY <1>3, <1>6, <2>1
    <3> QED BY <1>4, <1>5, <2>1, <3>1, <3>2
  <2>2. CASE i = n + 1
    <3>1. t[i] = r
      BY <1>4, <2>2
    <3> QED BY <1>1, <1>5, <3>1
  <2> QED BY <1>4, <2>1, <2>2
<1>10. NoneTwice(t)
  <2> SUFFICES ASSUME NEW i \in DOMAIN t, NEW j \in DOMAIN t, t[i].from = t[j].from, t[i].nr = t[j].nr
               PROVE  i = j
    BY DEF NoneTwice
  <2>1. \A h \in DOMAIN s : ~(s[h].from = r.from /\ s[h].nr = r.nr)
    <3> SUFFICES ASSUME NEW h \in DOMAIN s, s[h].from = p, s[h].nr = sub[p] PROVE FALSE
      BY <1>1
    <3> QED BY <1>1, <1>7
  <2>2. CASE i \in DOMAIN s /\ j \in DOMAIN s
    BY <1>4, <2>2 DEF LineSound, NoneTwice
  <2> QED BY <1>4, <2>1, <2>2
<1>11. NoneMissing(t, sub, d)
  <2> SUFFICES ASSUME NEW o \in Producer, NEW k \in 1 .. sub[o], d[o] = Idle \/ k < sub[o]
               PROVE  \E i \in DOMAIN t : t[i].from = o /\ t[i].nr = k
    BY DEF NoneMissing
  <2>1. CASE o = p /\ k = sub[p]
    BY <1>1, <1>4, <2>1
  <2>2. CASE ~(o = p /\ k = sub[p])
    <3>1. sub[o] \in Nat /\ k <= sub[o]
      OBVIOUS
    <3>2. c[o] = Idle \/ k < sub[o]
      BY <1>1, <1>5, <2>2, <3>1
    <3>3. PICK i \in DOMAIN s : s[i].from = o /\ s[i].nr = k
      BY <3>2 DEF LineSound, NoneMissing
    <3> QED BY <1>4, <3>3
  <2> QED BY <2>1, <2>2
<1>12. Returned(t, prec)
  BY <1>4 DEF LineSound, Returned
<1>13. InOrder(t, prec)
  <2> SUFFICES ASSUME NEW ab \in prec, ab[1].recv_time < ab[2].recv_time,
                      NEW j \in DOMAIN t, t[j] = ab[2]
               PROVE  \E i \in DOMAIN t : i < j /\ t[i] = ab[1]
    BY DEF InOrder
  <2>1. CASE j \in DOMAIN s
    <3>1. PICK i \in DOMAIN s : i < j /\ s[i] = ab[1]
      BY <1>4, <2>1 DEF LineSound, InOrder
    <3> QED BY <1>4, <3>1
  <2>2. CASE j = n + 1
    <3>1. PICK i \in DOMAIN s : s[i] = ab[1]
      BY DEF LineSound, Returned
    <3> QED BY <1>4, <2>2, <3>1
  <2> QED BY <1>4, <2>1, <2>2
<1>14. LineSound(t, sub, d, prec)
  BY <1>8, <1>9, <1>10, <1>11, <1>12, <1>13 DEF LineSound
<1> QED BY <1>14 DEF r, t, d

LEMMA IdleIsNoRequest == Idle \notin Request
<1>1. DOMAIN Idle = {"idle"}
  BY DEF Idle
<1>2. \A r \in Request : "from" \in DOMAIN r
  BY DEF Request
<1> QED BY <1>1, <1>2

\* A stamp: a number the line does not have, behind everything that has returned.
LEMMA StampSound ==
  ASSUME NEW s \in Seq(Request), NEW sub \in [Producer -> Nat], NEW c \in [Producer -> Request \cup {Idle}],
         NEW prec, LineSound(s, sub, c, prec), NEW p \in Producer, c[p] = Idle,
         NEW r \in Request, r.from = p, r.nr = sub[p] + 1,
         NEW more, \A ab \in more : ab \in prec \/ \E i \in DOMAIN s : ab = <<s[i], r>>
  PROVE  LineSound(s, [sub EXCEPT ![p] = @ + 1], [c EXCEPT ![p] = r], more)
<1> DEFINE u == [sub EXCEPT ![p] = @ + 1]
           d == [c EXCEPT ![p] = r]
<1>1. u[p] = sub[p] + 1 /\ d[p] = r /\ \A o \in Producer : o # p => d[o] = c[o] /\ u[o] = sub[o]
  OBVIOUS
<1>2. \A i \in DOMAIN s : s[i] \in Request
  BY ElementOfSeq, LenProperties
<1>3. \A q \in Request : q.from \in Producer /\ q.nr \in Nat
  BY DEF Request
<1>4. \A i \in DOMAIN s : s[i].from \in Producer /\ s[i].nr \in Nat /\ (s[i].from = p => s[i].nr <= sub[p])
  BY <1>2, <1>3 DEF LineSound, Numbered
<1>5. sub[p] \in Nat /\ r # Idle
  BY IdleIsNoRequest
<1>6. \A ab \in more : ab \in prec \/ \E i \in DOMAIN s : ab = <<s[i], r>>
  OBVIOUS
<1> HIDE DEF u, d
<1>7. Stamped(u, d)
  BY <1>1 DEF LineSound, Stamped
<1>8. Numbered(s, u, d)
  <2> SUFFICES ASSUME NEW i \in DOMAIN s
               PROVE  s[i].nr <= u[s[i].from] /\ (d[s[i].from] # Idle => s[i].nr < u[s[i].from])
    BY DEF Numbered
  <2>1. CASE s[i].from = p
    BY <1>1, <1>4, <1>5, <2>1
  <2>2. CASE s[i].from # p
    BY <1>1, <1>4, <2>2 DEF LineSound, Numbered
  <2> QED BY <2>1, <2>2
<1>9. NoneMissing(s, u, d)
  <2> SUFFICES ASSUME NEW o \in Producer, NEW n \in 1 .. u[o], d[o] = Idle \/ n < u[o]
               PROVE  \E i \in DOMAIN s : s[i].from = o /\ s[i].nr = n
    BY DEF NoneMissing
  <2>1. CASE o = p
    <3>1. n \in 1 .. sub[p]
      BY <1>1, <1>5, <2>1
    <3> QED BY <2>1, <3>1 DEF LineSound, NoneMissing
  <2>2. CASE o # p
    BY <1>1, <2>2 DEF LineSound, NoneMissing
  <2> QED BY <2>1, <2>2
<1>10. Returned(s, more)
  <2> SUFFICES ASSUME NEW ab \in more PROVE \E i \in DOMAIN s : s[i] = ab[1]
    BY DEF Returned
  <2>1. CASE ab \in prec
    BY <2>1 DEF LineSound, Returned
  <2>2. CASE \E i \in DOMAIN s : ab = <<s[i], r>>
    BY <2>2
  <2> QED BY <1>6, <2>1, <2>2
<1>11. InOrder(s, more)
  <2> SUFFICES ASSUME NEW ab \in more, ab[1].recv_time < ab[2].recv_time,
                      NEW j \in DOMAIN s, s[j] = ab[2]
               PROVE  \E i \in DOMAIN s : i < j /\ s[i] = ab[1]
    BY DEF InOrder
  <2>1. CASE ab \in prec
    BY <2>1 DEF LineSound, InOrder
  <2>2. CASE \E i \in DOMAIN s : ab = <<s[i], r>>
    <3>1. s[j] = r
      BY <2>2
    <3>2. sub[p] + 1 <= sub[p]
      BY <1>4, <3>1
    <3> QED BY <1>5, <3>2
  <2> QED BY <1>6, <2>1, <2>2
<1>12. LineSound(s, u, d, more)
  BY <1>7, <1>8, <1>9, <1>10, <1>11 DEF LineSound
<1> QED BY <1>12 DEF u, d

(***************************************************************************)
(* The queues: each holds the routed requests of its symbol, in the order  *)
(* in which they were routed.                                              *)
(***************************************************************************)
Holds(q, r) == \A s \in DOMAIN q : \A i \in DOMAIN q[s] :
                 q[s][i].symbol = s /\ \E k \in DOMAIN r : r[k] = q[s][i]

Delivered(q, r) == \A k \in DOMAIN r : \E i \in DOMAIN q[r[k].symbol] : q[r[k].symbol][i] = r[k]

KeepsOrder(q, r) == \A s \in DOMAIN q : \A i, j \in DOMAIN q[s] :
                      i < j => \E k, l \in DOMAIN r : k < l /\ r[k] = q[s][i] /\ r[l] = q[s][j]

QueuesSound(q, r) == Holds(q, r) /\ Delivered(q, r) /\ KeepsOrder(q, r)

LEMMA AppendIs ==
  ASSUME NEW S, NEW s \in Seq(S), NEW x \in S
  PROVE  LET t == Append(s, x) IN
         /\ \A i \in DOMAIN s : i \in DOMAIN t /\ t[i] = s[i] /\ i < Len(s) + 1
         /\ \A i \in DOMAIN t : i \in DOMAIN s \/ i = Len(s) + 1
         /\ Len(s) + 1 \in DOMAIN t /\ t[Len(s) + 1] = x
         /\ DOMAIN s \subseteq Nat /\ Len(s) \in Nat
<1> DEFINE t == Append(s, x)
<1>1. /\ Len(s) \in Nat /\ DOMAIN s = 1 .. Len(s) /\ DOMAIN t = 1 .. (Len(s) + 1) /\ t[Len(s) + 1] = x
      /\ \A i \in 1 .. Len(s) : t[i] = s[i]
  BY AppendProperties, LenProperties
<1> HIDE DEF t
<1>2. /\ \A i \in DOMAIN s : i \in DOMAIN t /\ t[i] = s[i] /\ i < Len(s) + 1
      /\ \A i \in DOMAIN t : i \in DOMAIN s \/ i = Len(s) + 1
      /\ Len(s) + 1 \in DOMAIN t /\ t[Len(s) + 1] = x
      /\ DOMAIN s \subseteq Nat /\ Len(s) \in Nat
  BY <1>1
<1> QED BY <1>2 DEF t

LEMMA RouteSound ==
  ASSUME NEW S, NEW q \in [S -> Seq(Request)], NEW r \in Seq(Request), QueuesSound(q, r),
         NEW x \in Request, x.symbol \in S, \A y \in Request : y.symbol \in S
  PROVE  QueuesSound([q EXCEPT ![x.symbol] = Append(@, x)], Append(r, x))
<1> DEFINE sx == x.symbol
           p == [q EXCEPT ![sx] = Append(@, x)]
           t == Append(r, x)
           n == Len(r) + 1
           m == Len(q[sx]) + 1
<1>1. /\ \A i \in DOMAIN r : i \in DOMAIN t /\ t[i] = r[i] /\ i < n
      /\ \A i \in DOMAIN t : i \in DOMAIN r \/ i = n
      /\ n \in DOMAIN t /\ t[n] = x
  BY AppendIs
<1>2. q[sx] \in Seq(Request) /\ p[sx] = Append(q[sx], x)
  OBVIOUS
<1>3. /\ \A i \in DOMAIN q[sx] : i \in DOMAIN p[sx] /\ p[sx][i] = q[sx][i] /\ i < m
      /\ \A i \in DOMAIN p[sx] : i \in DOMAIN q[sx] \/ i = m
      /\ m \in DOMAIN p[sx] /\ p[sx][m] = x /\ DOMAIN q[sx] \subseteq Nat /\ m \in Nat
  BY <1>2, AppendIs
<1>4. DOMAIN p = S /\ DOMAIN q = S /\ \A s \in S : s # sx => p[s] = q[s]
  OBVIOUS
<1>5. \A k \in DOMAIN r : r[k].symbol \in S
  BY ElementOfSeq, LenProperties
<1> HIDE DEF sx, p, t, n, m
<1>6. ASSUME NEW s \in S, NEW i \in DOMAIN p[s]
      PROVE  (i \in DOMAIN q[s] /\ p[s][i] = q[s][i]) \/ (s = sx /\ i = m /\ p[s][i] = x)
  BY <1>3, <1>4
<1>7. Holds(p, t)
  <2> SUFFICES ASSUME NEW s \in S, NEW i \in DOMAIN p[s]
               PROVE  p[s][i].symbol = s /\ \E k \in DOMAIN t : t[k] = p[s][i]
    BY <1>4 DEF Holds
  <2>1. CASE i \in DOMAIN q[s] /\ p[s][i] = q[s][i]
    <3>1. q[s][i].symbol = s /\ \E k \in DOMAIN r : r[k] = q[s][i]
      BY <1>4, <2>1 DEF QueuesSound, Holds
    <3>2. PICK k \in DOMAIN r : r[k] = q[s][i]
      BY <3>1
    <3>3. k \in DOMAIN t /\ t[k] = q[s][i]
      BY <1>1, <3>2
    <3> QED BY <2>1, <3>1, <3>3
  <2>2. CASE s = sx /\ p[s][i] = x
    BY <1>1, <2>2 DEF sx
  <2> QED BY <1>6, <2>1, <2>2
<1>8. Delivered(p, t)
  <2> SUFFICES ASSUME NEW k \in DOMAIN t PROVE \E i \in DOMAIN p[t[k].symbol] : p[t[k].symbol][i] = t[k]
    BY DEF Delivered
  <2>1. CASE k \in DOMAIN r
    <3>1. t[k] = r[k] /\ r[k].symbol \in S
      BY <1>1, <1>5, <2>1
    <3>2. PICK i \in DOMAIN q[r[k].symbol] : q[r[k].symbol][i] = r[k]
      BY <2>1 DEF QueuesSound, Delivered
    <3>3. i \in DOMAIN p[r[k].symbol] /\ p[r[k].symbol][i] = r[k]
      BY <1>3, <1>4, <3>1, <3>2, Zenon
    <3> QED BY <3>1, <3>3
  <2>2. CASE k = n
    <3>1. t[k] = x /\ t[k].symbol = sx
      BY <1>1, <2>2 DEF sx
    <3> QED BY <1>3, <3>1
  <2> QED BY <1>1, <2>1, <2>2
<1>9. KeepsOrder(p, t)
  <2> SUFFICES ASSUME NEW s \in S, NEW i \in DOMAIN p[s], NEW j \in DOMAIN p[s], i < j
               PROVE  \E k, l \in DOMAIN t : k < l /\ t[k] = p[s][i] /\ t[l] = p[s][j]
    BY <1>4 DEF KeepsOrder
  <2>1. CASE i \in DOMAIN q[s] /\ p[s][i] = q[s][i] /\ j \in DOMAIN q[s] /\ p[s][j] = q[s][j]
    <3>1. PICK k \in DOMAIN r, l \in DOMAIN r : k < l /\ r[k] = q[s][i] /\ r[l] = q[s][j]
      BY <1>4, <2>1 DEF QueuesSound, KeepsOrder
    <3>2. k \in DOMAIN t /\ l \in DOMAIN t /\ t[k] = r[k] /\ t[l] = r[l]
      BY <1>1
    <3> QED BY <2>1, <3>1, <3>2
  <2>2. CASE i \in DOMAIN q[s] /\ p[s][i] = q[s][i] /\ s = sx /\ j = m /\ p[s][j] = x
    <3>1. PICK k \in DOMAIN r : r[k] = q[s][i]
      BY <1>4, <2>2 DEF QueuesSound, Holds
    <3>2. k \in DOMAIN t /\ n \in DOMAIN t /\ k < n /\ t[k] = r[k] /\ t[n] = x
      BY <1>1
    <3> QED BY <2>2, <3>1, <3>2
  <2>3. CASE s = sx /\ i = m
    <3>1. j = m \/ j < m
      BY <1>3, <2>3
    <3>2. m \in Nat /\ (j \in Nat \/ j = m)
      BY <1>3, <2>3
    <3> QED BY <2>3, <3>1, <3>2
  <2> QED BY <1>6, <2>1, <2>2, <2>3
<1>10. QueuesSound(p, t)
  BY <1>7, <1>8, <1>9 DEF QueuesSound
<1> QED BY <1>10 DEF p, t, sx

(***************************************************************************)
(* The invariant, and each action on each of its three parts.              *)
(***************************************************************************)
Queues == [s \in Symbol \cup {Unknown} |-> Queue(s)]

LineInv == LineSound(InFlight, submits, call, precedes)

QueuesInv == QueuesSound(Queues, routed)

GatewayInv == TypeOK /\ LineInv /\ QueuesInv

LEMMA Typed ==
  ASSUME TypeOK
  PROVE  /\ inbox \in Seq(Request) /\ batch \in Seq(Request) /\ pending \in Seq(Request)
         /\ routed \in Seq(Request) /\ unroutable \in Seq(Request)
         /\ call \in [Producer -> Request \cup {Idle}] /\ submits \in [Producer -> Nat]
         /\ InFlight \in Seq(Request)
<1>1. /\ inbox \in Seq(Request) /\ batch \in Seq(Request) /\ pending \in Seq(Request)
      /\ routed \in Seq(Request) /\ unroutable \in Seq(Request)
      /\ call \in [Producer -> Request \cup {Idle}]
  BY DEF TypeOK
<1>2. submits \in [Producer -> Nat]
  BY GatewayAssumption DEF TypeOK
<1>3. batch \o inbox \in Seq(Request)
  BY <1>1, ConcatProperties
<1>4. pending \o (batch \o inbox) \in Seq(Request)
  BY <1>1, <1>3, ConcatProperties
<1>5. InFlight \in Seq(Request)
  BY <1>1, <1>4, ConcatProperties DEF InFlight
<1> QED BY <1>1, <1>2, <1>5

LEMMA StampedRequest ==
  ASSUME TypeOK, NEW p \in Producer, NEW s \in Symbol \cup {Unknown}, submits[p] < MaxSubmits
  PROVE  [from |-> p, nr |-> submits[p] + 1, symbol |-> s, recv_time |-> clock] \in Request
<1>1. submits[p] \in 0 .. MaxSubmits /\ clock \in 1 .. MaxClock
  BY DEF TypeOK
<1>2. submits[p] + 1 \in 1 .. MaxSubmits
  BY <1>1, GatewayAssumption
<1> QED BY <1>1, <1>2 DEF Request

LEMMA TypeStep ==
  ASSUME TypeOK, [Next]_vars
  PROVE  TypeOK'
<1> USE DEF TypeOK
<1>1. CASE Tick
  <2>1. clock' \in 1 .. MaxClock
    BY <1>1, GatewayAssumption DEF Tick
  <2> QED BY <1>1, <2>1 DEF Tick, gatewayVars, routeVars
<1>2. ASSUME NEW p \in Producer, NEW s \in Symbol \cup {Unknown}, stampRequest(p, s)
      PROVE  TypeOK'
  <2> DEFINE r == [from |-> p, nr |-> submits[p] + 1, symbol |-> s, recv_time |-> clock]
  <2>1. r \in Request
    BY <1>2, StampedRequest DEF stampRequest
  <2> HIDE DEF r
  <2>2. call' = [call EXCEPT ![p] = r] /\ submits' = [submits EXCEPT ![p] = @ + 1] /\ submits[p] < MaxSubmits
    BY <1>2 DEF stampRequest, r
  <2>3. call' \in [Producer -> Request \cup {Idle}]
    BY <2>1, <2>2
  <2>4. submits[p] + 1 \in 0 .. MaxSubmits
    BY <2>2, GatewayAssumption
  <2>5. submits' \in [Producer -> 0 .. MaxSubmits]
    BY <2>2, <2>4
  <2> QED BY <1>2, <2>3, <2>5 DEF stampRequest, gatewayVars, routeVars
<1>3. ASSUME NEW p \in Producer, pushRequest(p)
      PROVE  TypeOK'
  <2>1. call[p] \in Request
    BY <1>3 DEF pushRequest
  <2>2. inbox' \in Seq(Request)
    BY <1>3, <2>1, AppendProperties DEF pushRequest
  <2>3. call' \in [Producer -> Request \cup {Idle}]
    BY <1>3 DEF pushRequest
  <2> QED BY <1>3, <2>2, <2>3 DEF pushRequest, gatewayVars, routeVars
<1>4. CASE drainInbox
  <2>1. <<>> \in Seq(Request)
    BY EmptySeq
  <2> QED BY <1>4, <2>1 DEF drainInbox, InboxSwapped, producerVars, routeVars
<1>5. CASE enqueue
  <2>1. Head(batch) \in Request /\ Tail(batch) \in Seq(Request)
    BY <1>5, FirstAndRest DEF enqueue
  <2>2. Append(pending, Head(batch)) \in Seq(Request) /\ Len(Append(pending, Head(batch))) = Len(pending) + 1
    BY <2>1, AppendProperties
  <2>3. Len(pending) + 1 <= MaxPending
    BY <1>5, GatewayAssumption, LenProperties DEF enqueue, HasRoom
  <2> QED BY <1>5, <2>1, <2>2, <2>3 DEF enqueue, producerVars, routeVars
<1>6. CASE batchDone
  BY <1>6 DEF batchDone, producerVars, routeVars
<1>7. CASE enqueueFull \/ flush
  <2>1. sortPending
    BY <1>7 DEF enqueueFull, flush
  <2>2. pending' \in Seq(Request) /\ Len(pending') = Len(pending)
    BY <2>1, SortRearranges, EmptySeq DEF sortPending
  <2> QED BY <2>1, <2>2 DEF sortPending, producerVars, routeVars
<1>8. CASE routeNext
  <2>1. Head(pending) \in Request /\ Tail(pending) \in Seq(Request) /\ Len(Tail(pending)) <= MaxPending
    BY <1>8, FirstAndRest, HeadTailProperties, LenProperties, GatewayAssumption DEF routeNext
  <2>2. routed' \in Seq(Request)
    BY <1>8, <2>1, AppendProperties DEF routeNext
  <2>3. unroutable' \in Seq(Request) /\ request_queue' \in [Symbol -> Seq(Request)]
    <3>1. CASE Head(pending).symbol \in Symbol
      <4>1. Append(request_queue[Head(pending).symbol], Head(pending)) \in Seq(Request)
        BY <2>1, <3>1, AppendProperties
      <4> QED BY <1>8, <3>1, <4>1, Zenon DEF routeNext, routeRequest
    <3>2. CASE Head(pending).symbol \notin Symbol
      <4>1. Append(unroutable, Head(pending)) \in Seq(Request)
        BY <2>1, AppendProperties
      <4> QED BY <1>8, <3>2, <4>1, Zenon DEF routeNext, routeRequest
    <3> QED BY <3>1, <3>2
  <2> QED BY <1>8, <2>1, <2>2, <2>3 DEF routeNext, producerVars
<1>9. CASE flushDone
  BY <1>9 DEF flushDone, producerVars, routeVars
<1>10. CASE UNCHANGED vars
  BY <1>10 DEF vars, producerVars, gatewayVars, routeVars
<1> QED BY <1>1, <1>2, <1>3, <1>4, <1>5, <1>6, <1>7, <1>8, <1>9, <1>10, Zenon DEF Next, Producers, Gateway

\* Every step of the gateway but the sort only moves the line on.
LEMMA SameLine ==
  ASSUME TypeOK, drainInbox \/ enqueue \/ batchDone \/ routeNext \/ flushDone
  PROVE  InFlight' = InFlight
<1>1. /\ inbox \in Seq(Request) /\ batch \in Seq(Request) /\ pending \in Seq(Request)
      /\ routed \in Seq(Request)
  BY Typed
<1>2. batch \o inbox \in Seq(Request)
  BY <1>1, ConcatProperties
<1>3. CASE drainInbox
  <2>1. batch = <<>> /\ batch' = inbox /\ inbox' = <<>> /\ pending' = pending /\ routed' = routed
    BY <1>3 DEF drainInbox, TypeOK, InboxSwapped, routeVars
  <2>2. inbox \o <<>> = inbox /\ <<>> \o inbox = inbox
    BY <1>1, ConcatEmptySeq
  <2> QED BY <2>1, <2>2 DEF InFlight
<1>4. CASE enqueue
  <2>1. /\ batch # <<>> /\ pending' = Append(pending, Head(batch)) /\ batch' = Tail(batch)
        /\ inbox' = inbox /\ routed' = routed
    BY <1>4 DEF enqueue, routeVars
  <2>2. pending \in Seq(Request) /\ batch \in Seq(Request) /\ inbox \in Seq(Request) /\ batch # <<>>
    BY <1>1, <2>1
  <2>3. MovesOn(pending, batch, inbox)
    BY <2>2, MovedOn
  <2> QED BY <2>1, <2>3, Zenon DEF InFlight, MovesOn
<1>5. CASE routeNext
  <2>1. /\ pending # <<>> /\ routed' = Append(routed, Head(pending)) /\ pending' = Tail(pending)
        /\ batch' = batch /\ inbox' = inbox
    BY <1>5 DEF routeNext
  <2> DEFINE d == batch \o inbox
  <2>2. d \in Seq(Request)
    BY <1>2
  <2> HIDE DEF d
  <2>3. routed \in Seq(Request) /\ pending \in Seq(Request) /\ pending # <<>>
    BY <1>1, <2>1
  <2>4. MovesOn(routed, pending, d)
    BY <2>2, <2>3, MovedOn
  <2> QED BY <2>1, <2>4, Zenon DEF InFlight, MovesOn, d
<1>6. CASE batchDone \/ flushDone
  BY <1>6, Zenon DEF batchDone, flushDone, routeVars, InFlight
<1> QED BY <1>3, <1>4, <1>5, <1>6

LEMMA LineStep ==
  ASSUME TypeOK, LineInv, [Next]_vars
  PROVE  LineSound(InFlight', submits', call', precedes')
<1> USE DEF LineInv
<1>1. /\ inbox \in Seq(Request) /\ batch \in Seq(Request) /\ pending \in Seq(Request)
      /\ routed \in Seq(Request) /\ InFlight \in Seq(Request)
      /\ call \in [Producer -> Request \cup {Idle}] /\ submits \in [Producer -> Nat]
  BY Typed
<1>2. CASE Tick \/ UNCHANGED vars
  BY <1>2 DEF Tick, vars, producerVars, gatewayVars, routeVars, InFlight
<1>3. ASSUME NEW p \in Producer, NEW s \in Symbol \cup {Unknown}, stampRequest(p, s)
      PROVE  LineSound(InFlight', submits', call', precedes')
  <2> DEFINE r == [from |-> p, nr |-> submits[p] + 1, symbol |-> s, recv_time |-> clock]
  <2>1. r \in Request
    BY <1>3, StampedRequest DEF stampRequest
  <2>2. r.from = p /\ r.nr = submits[p] + 1
    OBVIOUS
  <2> HIDE DEF r
  <2>3. /\ call[p] = Idle /\ call' = [call EXCEPT ![p] = r] /\ submits' = [submits EXCEPT ![p] = @ + 1]
        /\ precedes' = precedes \cup {<<a, r>> : a \in Range(InFlight)}
    BY <1>3 DEF stampRequest, r
  <2>4. InFlight' = InFlight
    BY <1>3 DEF stampRequest, gatewayVars, routeVars, InFlight
  <2>5. \A ab \in precedes' : ab \in precedes \/ \E i \in DOMAIN InFlight : ab = <<InFlight[i], r>>
    BY <2>3 DEF Range
  <2>6. LineSound(InFlight, [submits EXCEPT ![p] = @ + 1], [call EXCEPT ![p] = r], precedes')
    BY <1>1, <2>1, <2>2, <2>3, <2>5, StampSound, Zenon
  <2> QED BY <2>3, <2>4, <2>6
<1>4. ASSUME NEW p \in Producer, pushRequest(p)
      PROVE  LineSound(InFlight', submits', call', precedes')
  <2>1. /\ call[p] # Idle /\ call[p] \in Request /\ inbox' = Append(inbox, call[p])
        /\ call' = [call EXCEPT ![p] = Idle] /\ submits' = submits /\ precedes' = precedes
        /\ batch' = batch /\ pending' = pending /\ routed' = routed
    BY <1>1, <1>4 DEF pushRequest, gatewayVars, routeVars
  <2>2. InFlight' = Append(InFlight, call[p])
    <3> DEFINE x == call[p]
    <3>1. x \in Request /\ InFlight' = routed \o (pending \o (batch \o Append(inbox, x)))
      BY <2>1 DEF InFlight
    <3> HIDE DEF x
    <3>2. x \in Request
      BY <3>1
    <3>3. /\ inbox \in Seq(Request) /\ batch \in Seq(Request) /\ pending \in Seq(Request)
          /\ routed \in Seq(Request)
      BY <1>1
    <3>4. PushesLast(routed, pending, batch, inbox, x)
      BY <3>2, <3>3, PushedLast
    <3> QED BY <3>1, <3>4 DEF InFlight, PushesLast, x
  <2>3. LineSound(Append(InFlight, call[p]), submits, [call EXCEPT ![p] = Idle], precedes)
    BY <1>1, <2>1, PushSound, Zenon
  <2> QED BY <2>1, <2>2, <2>3
<1>5. CASE enqueueFull \/ flush
  <2>1. sortPending
    BY <1>5 DEF enqueueFull, flush
  <2>2. /\ pending' \in SortedOrders(pending) /\ routed' = routed /\ batch' = batch /\ inbox' = inbox
        /\ submits' = submits /\ call' = call /\ precedes' = precedes
    BY <2>1 DEF sortPending, producerVars, routeVars
  <2> DEFINE d == batch \o inbox
  <2>3. d \in Seq(Request)
    BY <1>1, ConcatProperties
  <2> HIDE DEF d
  <2>4. \E g : RearrangedBy(routed \o (pending \o d), routed \o (pending' \o d), g)
    BY <1>1, <2>2, <2>3, SortRearranges
  <2>5. \E g : RearrangedBy(InFlight, InFlight', g)
    BY <2>2, <2>4 DEF d, InFlight
  <2>6. PICK g : RearrangedBy(InFlight, InFlight', g)
    BY <2>5
  <2>7. LineSound(InFlight', submits, call, precedes)
    BY <2>6, RearrangedSound
  <2> QED BY <2>2, <2>7
<1>6. CASE drainInbox \/ enqueue \/ batchDone \/ routeNext \/ flushDone
  <2>1. submits' = submits /\ call' = call /\ precedes' = precedes
    BY <1>6 DEF drainInbox, enqueue, batchDone, routeNext, flushDone, producerVars
  <2> QED BY <1>6, <2>1, SameLine
<1> QED BY <1>2, <1>3, <1>4, <1>5, <1>6 DEF Next, Producers, Gateway

LEMMA QueuesTyped ==
  ASSUME TypeOK
  PROVE  Queues \in [Symbol \cup {Unknown} -> Seq(Request)]
BY DEF TypeOK, Queues, Queue

LEMMA QueuesStep ==
  ASSUME TypeOK, QueuesInv, [Next]_vars
  PROVE  QueuesSound(Queues', routed')
<1>1. CASE routeNext
  <2> DEFINE x == Head(pending)
  <2>1. x \in Request
    BY <1>1, Typed, FirstAndRest DEF routeNext
  <2>2. \A y \in Request : y.symbol \in Symbol \cup {Unknown}
    BY DEF Request
  <2>3. x.symbol \in Symbol \cup {Unknown}
    BY <2>1, <2>2
  <2> HIDE DEF x
  <2>4. routeRequest(x) /\ routed' = Append(routed, x)
    BY <1>1 DEF routeNext, x
  <2>5. Queues' = [Queues EXCEPT ![x.symbol] = Append(@, x)]
    <3>1. CASE x.symbol \in Symbol
      <4>1. /\ request_queue' = [request_queue EXCEPT ![x.symbol] = Append(@, x)]
            /\ unroutable' = unroutable
        BY <2>4, <3>1 DEF routeRequest
      <4>2. request_queue \in [Symbol -> Seq(Request)]
        BY DEF TypeOK
      <4> QED BY <3>1, <4>1, <4>2, GatewayAssumption, Zenon DEF Queues, Queue
    <3>2. CASE x.symbol \notin Symbol
      <4>1. unroutable' = Append(unroutable, x) /\ request_queue' = request_queue /\ x.symbol = Unknown
        BY <2>3, <2>4, <3>2 DEF routeRequest
      <4> QED BY <4>1, GatewayAssumption, Zenon DEF Queues, Queue
    <3> QED BY <3>1, <3>2
  <2>6. Queues \in [Symbol \cup {Unknown} -> Seq(Request)] /\ routed \in Seq(Request)
    BY Typed, QueuesTyped
  <2>7. QueuesSound([Queues EXCEPT ![x.symbol] = Append(@, x)], Append(routed, x))
    BY <2>1, <2>2, <2>3, <2>6, RouteSound, Zenon DEF QueuesInv
  <2> QED BY <2>4, <2>5, <2>7
<1>2. CASE UNCHANGED routeVars
  BY <1>2 DEF routeVars, QueuesInv, Queues, Queue
<1>3. routeNext \/ UNCHANGED routeVars
  BY DEF Next, Tick, Producers, Gateway, stampRequest, pushRequest, drainInbox, enqueue, batchDone,
         enqueueFull, flush, sortPending, flushDone, vars, gatewayVars
<1> QED BY <1>1, <1>2, <1>3

LEMMA GatewayInit ==
  ASSUME Init
  PROVE  GatewayInv
<1> DEFINE e == <<>>
<1>1. e \in Seq(Request) /\ Len(e) = 0 /\ DOMAIN e = {}
  BY EmptySeq
<1>2. TypeOK
  <2>1. 1 \in 1 .. MaxClock /\ 0 \in 0 .. MaxSubmits /\ 0 <= MaxPending
    BY GatewayAssumption
  <2> QED BY <1>1, <2>1 DEF Init, TypeOK
<1>3. InFlight = e
  <2>1. e \o e = e
    BY <1>1, ConcatEmptySeq
  <2> QED BY <2>1 DEF Init, InFlight
<1> HIDE DEF e
<1>4. LineInv
  <2>1. /\ \A p \in Producer : call[p] = Idle /\ submits[p] = 0
        /\ precedes = {}
    BY DEF Init
  <2>2. \A p \in Producer : 1 .. submits[p] = {}
    BY <2>1
  <2> QED BY <1>1, <1>3, <2>1, <2>2
          DEF LineInv, LineSound, Stamped, Numbered, NoneTwice, NoneMissing, Returned, InOrder
<1>5. QueuesInv
  <2>1. DOMAIN Queues = Symbol \cup {Unknown} /\ \A s \in Symbol \cup {Unknown} : Queues[s] = e
    BY DEF Queues, Queue, Init, e
  <2>2. routed = e
    BY DEF Init, e
  <2> QED BY <1>1, <2>1, <2>2 DEF QueuesInv, QueuesSound, Holds, Delivered, KeepsOrder
<1> QED BY <1>2, <1>4, <1>5 DEF GatewayInv

LEMMA GatewayStep ==
  ASSUME GatewayInv, [Next]_vars
  PROVE  GatewayInv'
<1>1. TypeOK' /\ LineSound(InFlight', submits', call', precedes') /\ QueuesSound(Queues', routed')
  BY TypeStep, LineStep, QueuesStep DEF GatewayInv
<1> QED BY <1>1 DEF GatewayInv, LineInv, QueuesInv

LEMMA GatewayInvariant == Spec => []GatewayInv
BY GatewayInit, GatewayStep, PTL DEF Spec

\* What was routed is the front of the line, and is there once.
LEMMA RoutedInFront ==
  ASSUME GatewayInv
  PROVE  /\ DOMAIN routed = 1 .. Len(routed) /\ Len(routed) \in Nat
         /\ DOMAIN InFlight \subseteq Nat \ {0}
         /\ \A i \in DOMAIN routed : i \in DOMAIN InFlight /\ InFlight[i] = routed[i]
         /\ \A i, j \in DOMAIN routed : routed[i] = routed[j] => i = j
<1>1. routed \in Seq(Request) /\ pending \in Seq(Request) /\ batch \in Seq(Request) /\ inbox \in Seq(Request)
  BY Typed DEF GatewayInv
<1>2. batch \o inbox \in Seq(Request)
  BY <1>1, ConcatProperties
<1> DEFINE d == batch \o inbox
<1>3. d \in Seq(Request)
  BY <1>2
<1> HIDE DEF d
<1>4. /\ DOMAIN (routed \o (pending \o d)) = 1 .. (Len(routed) + Len(pending) + Len(d))
      /\ \A i \in 1 .. (Len(routed) + Len(pending) + Len(d)) :
           i <= Len(routed) => (routed \o (pending \o d))[i] = routed[i]
  BY <1>1, <1>3, ThreeInARow
<1>5. /\ Len(routed) \in Nat /\ Len(pending) \in Nat /\ Len(d) \in Nat
      /\ DOMAIN routed = 1 .. Len(routed)
  BY <1>1, <1>3, LenProperties
<1>6. InFlight = routed \o (pending \o d)
  BY DEF InFlight, d
<1>7. DOMAIN InFlight = 1 .. (Len(routed) + Len(pending) + Len(d))
  BY <1>4, <1>6
<1>8. ASSUME NEW i \in DOMAIN routed
      PROVE  i \in DOMAIN InFlight /\ InFlight[i] = routed[i]
  <2>1. i \in 1 .. (Len(routed) + Len(pending) + Len(d)) /\ i <= Len(routed)
    BY <1>5
  <2> QED BY <1>4, <1>6, <1>7, <2>1
<1>9. NoneTwice(InFlight)
  BY DEF GatewayInv, LineInv, LineSound
<1>10. \A i, j \in DOMAIN routed : routed[i] = routed[j] => i = j
  BY <1>8, <1>9 DEF NoneTwice
<1> QED BY <1>5, <1>7, <1>8, <1>10

LEMMA OnePlace ==
  ASSUME GatewayInv, NEW p \in Producer, NEW n \in 1 .. submits[p]
  PROVE  IF call[p] # Idle /\ call[p].nr = n THEN PlacesOf(p, n) = {}
                                             ELSE \E i \in DOMAIN InFlight : PlacesOf(p, n) = {i}
<1>1. /\ Stamped(submits, call) /\ Numbered(InFlight, submits, call) /\ NoneTwice(InFlight)
      /\ NoneMissing(InFlight, submits, call)
  BY DEF GatewayInv, LineInv, LineSound
<1>2. submits[p] \in Nat
  BY Typed DEF GatewayInv
<1>3. CASE call[p] # Idle /\ call[p].nr = n
  <2>1. n = submits[p]
    BY <1>1, <1>3 DEF Stamped
  <2>2. ASSUME NEW i \in DOMAIN InFlight, InFlight[i].from = p, InFlight[i].nr = n PROVE FALSE
    <3>1. n < submits[p]
      BY <1>1, <1>3, <2>2 DEF Numbered
    <3> QED BY <1>2, <2>1, <3>1
  <2>3. PlacesOf(p, n) = {}
    BY <2>2 DEF PlacesOf
  <2> QED BY <1>3, <2>3
<1>4. CASE ~(call[p] # Idle /\ call[p].nr = n)
  <2>1. call[p] = Idle \/ n < submits[p]
    BY <1>1, <1>2, <1>4 DEF Stamped
  <2>2. PICK i \in DOMAIN InFlight : InFlight[i].from = p /\ InFlight[i].nr = n
    BY <1>1, <2>1 DEF NoneMissing
  <2>3. \A j \in DOMAIN InFlight : InFlight[j].from = p /\ InFlight[j].nr = n => j = i
    BY <1>1, <2>2 DEF NoneTwice
  <2>4. PlacesOf(p, n) = {i}
    BY <2>2, <2>3 DEF PlacesOf
  <2> QED BY <1>4, <2>4
<1> QED BY <1>3, <1>4

\* A queue holds a routed request once.
LEMMA QueuedOnce ==
  ASSUME GatewayInv, NEW s \in Symbol \cup {Unknown}, NEW i \in DOMAIN Queue(s), NEW j \in DOMAIN Queue(s),
         Queue(s)[i] = Queue(s)[j]
  PROVE  i = j
<1>1. Queues[s] = Queue(s) /\ DOMAIN Queues = Symbol \cup {Unknown}
  BY DEF Queues
<1>2. Queues[s] \in Seq(Request)
  BY QueuesTyped DEF GatewayInv
<1>3. DOMAIN Queue(s) \subseteq Nat
  BY <1>1, <1>2, LenProperties
<1>4. \A k, l \in DOMAIN routed : k < l => routed[k] # routed[l]
  BY RoutedInFront
<1>5. ASSUME NEW k \in DOMAIN Queue(s), NEW l \in DOMAIN Queue(s), k < l
      PROVE  Queue(s)[k] # Queue(s)[l]
  <2>1. KeepsOrder(Queues, routed)
    BY DEF GatewayInv, QueuesInv, QueuesSound
  <2>2. PICK m \in DOMAIN routed, n \in DOMAIN routed :
          m < n /\ routed[m] = Queue(s)[k] /\ routed[n] = Queue(s)[l]
    BY <1>1, <1>5, <2>1 DEF KeepsOrder
  <2> QED BY <1>4, <2>2
<1> QED BY <1>3, <1>5

LEMMA QueuedInOnePlace ==
  ASSUME GatewayInv, NEW k \in DOMAIN routed
  PROVE  \E i \in DOMAIN Queue(routed[k].symbol) : QueuedAt(routed[k]) = {<<routed[k].symbol, i>>}
<1> DEFINE r == routed[k]
<1>1. r \in Request
  BY Typed, ElementOfSeq, LenProperties DEF GatewayInv
<1>2. r.symbol \in Symbol \cup {Unknown}
  BY <1>1 DEF Request
<1> HIDE DEF r
<1>3. /\ \A s \in Symbol \cup {Unknown} : Queues[s] = Queue(s)
      /\ DOMAIN Queues = Symbol \cup {Unknown}
  BY DEF Queues
<1>4. Delivered(Queues, routed) /\ Holds(Queues, routed)
  BY DEF GatewayInv, QueuesInv, QueuesSound
<1>5. PICK i \in DOMAIN Queue(r.symbol) : Queue(r.symbol)[i] = r
  BY <1>2, <1>3, <1>4 DEF Delivered, r
<1>6. ASSUME NEW s \in Symbol \cup {Unknown}, NEW j \in DOMAIN Queue(s), Queue(s)[j] = r
      PROVE  s = r.symbol /\ j = i
  <2>1. s = r.symbol
    BY <1>3, <1>4, <1>6 DEF Holds
  <2> QED BY <1>2, <1>5, <1>6, <2>1, QueuedOnce
<1>7. QueuedAt(r) = {<<r.symbol, i>>}
  <2>1. <<r.symbol, i>> \in QueuedAt(r)
    BY <1>2, <1>5 DEF QueuedAt
  <2>2. ASSUME NEW x \in QueuedAt(r) PROVE x = <<r.symbol, i>>
    <3>1. PICK s \in Symbol \cup {Unknown} : \E j \in DOMAIN Queue(s) : Queue(s)[j] = r /\ x = <<s, j>>
      BY <2>2 DEF QueuedAt
    <3>2. PICK j \in DOMAIN Queue(s) : Queue(s)[j] = r /\ x = <<s, j>>
      BY <3>1
    <3> QED BY <1>6, <3>2
  <2> QED BY <2>1, <2>2
<1> QED BY <1>5, <1>7 DEF r

LEMMA InvGivesExactlyOnce ==
  ASSUME GatewayInv
  PROVE  ExactlyOnce
<1>1. \A p \in Producer : \A n \in 1 .. submits[p] :
        IF call[p] # Idle /\ call[p].nr = n THEN PlacesOf(p, n) = {}
                                            ELSE \E i \in DOMAIN InFlight : PlacesOf(p, n) = {i}
  BY OnePlace
<1>2. \A req \in Range(routed) : \E i \in DOMAIN Queue(req.symbol) : QueuedAt(req) = {<<req.symbol, i>>}
  <2> SUFFICES ASSUME NEW k \in DOMAIN routed
               PROVE  \E i \in DOMAIN Queue(routed[k].symbol) : QueuedAt(routed[k]) = {<<routed[k].symbol, i>>}
    BY DEF Range
  <2> QED BY QueuedInOnePlace
<1>3. \A s \in Symbol \cup {Unknown} : Range(Queue(s)) \subseteq Range(routed)
  <2>1. \A s \in Symbol \cup {Unknown} : \A i \in DOMAIN Queue(s) : \E k \in DOMAIN routed : routed[k] = Queue(s)[i]
    <3>1. Holds(Queues, routed)
      BY DEF GatewayInv, QueuesInv, QueuesSound
    <3>2. DOMAIN Queues = Symbol \cup {Unknown} /\ \A s \in Symbol \cup {Unknown} : Queues[s] = Queue(s)
      BY DEF Queues
    <3> QED BY <3>1, <3>2 DEF Holds
  <2> QED BY <2>1 DEF Range
<1> QED BY <1>1, <1>2, <1>3 DEF ExactlyOnce

LEMMA InvGivesRealTimeOrder ==
  ASSUME GatewayInv
  PROVE  RealTimeOrder
<1> SUFFICES ASSUME NEW ab \in precedes, ab[1].recv_time < ab[2].recv_time
             PROVE  /\ \A j \in DOMAIN routed : routed[j] = ab[2] => \E i \in 1 .. (j - 1) : routed[i] = ab[1]
                    /\ ab[1].symbol = ab[2].symbol =>
                         \A j \in DOMAIN Queue(ab[2].symbol) : Queue(ab[2].symbol)[j] = ab[2] =>
                           \E i \in 1 .. (j - 1) : Queue(ab[2].symbol)[i] = ab[1]
  BY DEF RealTimeOrder
<1> DEFINE a == ab[1]
           b == ab[2]
<1>0. /\ DOMAIN routed = 1 .. Len(routed) /\ Len(routed) \in Nat
      /\ DOMAIN InFlight \subseteq Nat \ {0}
      /\ \A i \in DOMAIN routed : i \in DOMAIN InFlight /\ InFlight[i] = routed[i]
  BY RoutedInFront
<1>1. \A j \in DOMAIN InFlight : InFlight[j] = b => \E i \in DOMAIN InFlight : i < j /\ InFlight[i] = a
  <2>1. InOrder(InFlight, precedes)
    BY DEF GatewayInv, LineInv, LineSound
  <2> QED BY <2>1 DEF InOrder
<1> HIDE DEF a, b
<1>2. ASSUME NEW j \in DOMAIN routed, routed[j] = b
      PROVE  \E i \in DOMAIN routed : i \in 1 .. (j - 1) /\ i < j /\ routed[i] = a
  <2>1. j \in DOMAIN InFlight /\ InFlight[j] = b /\ j \in Nat /\ j <= Len(routed) /\ Len(routed) \in Nat
    BY <1>0, <1>2
  <2>2. PICK i \in DOMAIN InFlight : i < j /\ InFlight[i] = a
    BY <1>1, <2>1
  <2>3. i \in Nat \ {0}
    BY <1>0
  <2>4. i \in DOMAIN routed
    BY <1>0, <2>1, <2>2, <2>3
  <2>5. routed[i] = a /\ i \in 1 .. (j - 1)
    BY <1>0, <2>1, <2>2, <2>3, <2>4
  <2> QED BY <2>2, <2>4, <2>5
<1>3. ASSUME a.symbol = b.symbol, NEW j \in DOMAIN Queue(b.symbol), Queue(b.symbol)[j] = b,
             b.symbol \in Symbol \cup {Unknown}
      PROVE  \E i \in 1 .. (j - 1) : Queue(b.symbol)[i] = a
  <2> DEFINE s == b.symbol
             q == Queue(s)
  <2>1. Queues[s] = q /\ DOMAIN Queues = Symbol \cup {Unknown} /\ s \in DOMAIN Queues
    BY <1>3 DEF Queues
  <2>2. Queues[s] \in Seq(Request)
    BY <1>3, QueuesTyped DEF GatewayInv
  <2>3. DOMAIN q = 1 .. Len(q) /\ Len(q) \in Nat /\ j \in DOMAIN q /\ q[j] = b
    BY <1>3, <2>1, <2>2, LenProperties
  <2>4. Holds(Queues, routed) /\ Delivered(Queues, routed) /\ KeepsOrder(Queues, routed)
    BY DEF GatewayInv, QueuesInv, QueuesSound
  <2>5. a.symbol = s
    BY <1>3
  <2> HIDE DEF s, q
  <2>6. PICK k \in DOMAIN routed : routed[k] = b
    BY <2>1, <2>3, <2>4 DEF Holds
  <2>7. PICK i \in DOMAIN routed : i < k /\ routed[i] = a
    BY <1>2, <2>6
  <2>8. PICK m \in DOMAIN q : q[m] = a
    BY <2>1, <2>4, <2>5, <2>7 DEF Delivered
  <2>9. i \in Nat /\ k \in Nat /\ \A x, y \in DOMAIN routed : routed[x] = routed[y] => x = y
    BY RoutedInFront
  <2>10. a # b
    BY <2>6, <2>7, <2>9
  <2>11. ~(j < m)
    <3> SUFFICES ASSUME j < m PROVE FALSE
      OBVIOUS
    <3>1. PICK x \in DOMAIN routed, y \in DOMAIN routed : x < y /\ routed[x] = b /\ routed[y] = a
      BY <2>1, <2>3, <2>4, <2>8 DEF KeepsOrder
    <3>2. x = k /\ y = i
      BY <2>6, <2>7, <2>9, <3>1
    <3> QED BY <2>7, <2>9, <3>1, <3>2
  <2>12. m \in 1 .. (j - 1)
    BY <2>3, <2>8, <2>10, <2>11
  <2> QED BY <2>8, <2>12 DEF q, s
<1>4. ASSUME a.symbol = b.symbol, NEW j \in DOMAIN Queue(b.symbol), Queue(b.symbol)[j] = b
      PROVE  b.symbol \in Symbol \cup {Unknown}
  <2>1. PICK i \in DOMAIN InFlight : InFlight[i] = a
    BY DEF GatewayInv, LineInv, LineSound, Returned, a
  <2>2. a \in Request
    BY <2>1, Typed, ElementOfSeq, LenProperties DEF GatewayInv
  <2> QED BY <1>4, <2>2 DEF Request
<1> QED BY <1>2, <1>3, <1>4 DEF a, b

\* The gateway's state has its types, the buffer its bound, and drainInbox() always finds
\* the buffer and its batch empty.
THEOREM GatewayStaysTyped == Spec => []TypeOK
BY GatewayInvariant, PTL DEF GatewayInv

\* No request is lost or doubled between submit() and the symbols' queues, however the
\* producers, the swaps, the overflow flushes and the unstable sort interleave.
THEOREM GatewayDeliversOnce == Spec => []ExactlyOnce
BY GatewayInvariant, InvGivesExactlyOnce, PTL

\* A submit() that returned before another was called, with the clock moved on in between,
\* is routed first, and is first in the queue when both are for one symbol.
THEOREM GatewayKeepsRealTimeOrder == Spec => []RealTimeOrder
BY GatewayInvariant, InvGivesRealTimeOrder, PTL
===============================================================================
