----------------------------- MODULE MirrorProofs -----------------------------
(***************************************************************************)
(* What applying a sequence of updates does, whatever its length.          *)
(***************************************************************************)
EXTENDS SnapshotMirror, WellFoundedInduction, SequenceTheorems, TLAPS

\* The least-number principle, from the well-foundedness of < on Nat.
LEMMA LeastNumber ==
  ASSUME NEW T, T \subseteq Nat, T # {}
  PROVE  \E x \in T : \A y \in T : x <= y
<1>1. PICK x \in T : \A y \in T : ~(<<y, x>> \in OpToRel(<, Nat))
  <2> DEFINE R == OpToRel(<, Nat)
  <2>1. IsWellFoundedOn(R, Nat)
    BY NatLessThanWellFounded
  <2> HIDE DEF R
  <2>2. \E x \in T : \A y \in T : ~(<<y, x>> \in R)
    BY <2>1, WFMin
  <2> QED BY <2>2 DEF R
<1>2. \A y \in T : ~(y < x)
  BY <1>1 DEF OpToRel
<1> QED BY <1>2

\* The books that the first n of some updates lead through.
IsChain(f, book, upds, n) ==
  f = [k \in 0 .. n |-> IF k = 0 THEN book ELSE Applied(f[k - 1], upds[k])]

LEMMA ChainIsUnique ==
  ASSUME NEW book, NEW upds, NEW n \in Nat, NEW f, NEW g,
         IsChain(f, book, upds, n), IsChain(g, book, upds, n)
  PROVE  f = g
<1> DEFINE D == {k \in 0 .. n : f[k] # g[k]}
<1>1. \A k \in 0 .. n : /\ f[k] = IF k = 0 THEN book ELSE Applied(f[k - 1], upds[k])
                        /\ g[k] = IF k = 0 THEN book ELSE Applied(g[k - 1], upds[k])
  BY DEF IsChain
<1>2. D = {}
  <2> SUFFICES ASSUME D # {} PROVE FALSE
    OBVIOUS
  <2>1. PICK k \in D : \A j \in D : k <= j
    <3>1. D \subseteq Nat
      OBVIOUS
    <3> HIDE DEF D
    <3> QED BY <3>1, LeastNumber
  <2>2. k \in 0 .. n /\ f[k] # g[k]
    BY <2>1
  <2>3. k # 0
    BY <1>1, <2>2
  <2>4. k - 1 \in 0 .. n /\ k - 1 \notin D
    BY <2>1, <2>2, <2>3
  <2>5. f[k - 1] = g[k - 1]
    BY <2>4
  <2> QED BY <1>1, <2>2, <2>3, <2>5
<1>3. \A k \in 0 .. n : f[k] = g[k]
  BY <1>2
<1>4. f = [k \in 0 .. n |-> f[k]] /\ g = [k \in 0 .. n |-> g[k]]
  BY DEF IsChain
<1> QED BY <1>3, <1>4

\* One update more.
LEMMA ChainExtends ==
  ASSUME NEW book, NEW upds, NEW n \in Nat, NEW f, IsChain(f, book, upds, n),
         NEW more, \A k \in 1 .. n : more[k] = upds[k]
  PROVE  LET g == [k \in 0 .. (n + 1) |-> IF k = n + 1 THEN Applied(f[n], more[n + 1]) ELSE f[k]]
         IN  IsChain(g, book, more, n + 1)
<1> DEFINE g == [k \in 0 .. (n + 1) |-> IF k = n + 1 THEN Applied(f[n], more[n + 1]) ELSE f[k]]
<1>1. \A k \in 0 .. n : f[k] = IF k = 0 THEN book ELSE Applied(f[k - 1], upds[k])
  BY DEF IsChain
<1>2. ASSUME NEW k \in 0 .. (n + 1)
      PROVE  g[k] = IF k = 0 THEN book ELSE Applied(g[k - 1], more[k])
  <2>1. CASE k = n + 1
    <3>1. k # 0 /\ k - 1 = n /\ g[n] = f[n]
      BY <2>1
    <3> QED BY <2>1, <3>1
  <2>2. CASE k # n + 1 /\ k # 0
    <3>1. k \in 1 .. n /\ k - 1 \in 0 .. n /\ k - 1 # n + 1 /\ k - 1 \in 0 .. (n + 1)
      BY <2>2
    <3>2. g[k] = f[k] /\ g[k - 1] = f[k - 1] /\ more[k] = upds[k]
      BY <2>2, <3>1
    <3> QED BY <1>1, <2>2, <3>1, <3>2
  <2>3. CASE k = 0
    BY <1>1, <2>3
  <2> QED BY <2>1, <2>2, <2>3
<1>3. g = [k \in 0 .. (n + 1) |-> g[k]]
  OBVIOUS
<1> HIDE DEF g
<1>4. g = [k \in 0 .. (n + 1) |-> IF k = 0 THEN book ELSE Applied(g[k - 1], more[k])]
  BY <1>2, <1>3
<1>5. IsChain(g, book, more, n + 1)
  BY <1>4 DEF IsChain
<1> QED BY <1>5 DEF g

LEMMA ChainExists ==
  ASSUME NEW book, NEW upds, NEW n \in Nat
  PROVE  \E f : IsChain(f, book, upds, n)
<1> DEFINE D == {m \in Nat : ~\E f : IsChain(f, book, upds, m)}
<1> SUFFICES ASSUME D # {} PROVE FALSE
  OBVIOUS
<1>1. PICK m \in D : \A j \in D : m <= j
  <2>1. D \subseteq Nat
    OBVIOUS
  <2> HIDE DEF D
  <2> QED BY <2>1, LeastNumber
<1>2. m # 0
  <2>1. IsChain([k \in 0 .. 0 |-> book], book, upds, 0)
    BY DEF IsChain
  <2> QED BY <1>1, <2>1
<1>3. m - 1 \in Nat /\ m - 1 \notin D /\ (m - 1) + 1 = m
  BY <1>1, <1>2
<1>4. PICK f : IsChain(f, book, upds, m - 1)
  BY <1>3
<1>5. \E g : IsChain(g, book, upds, m)
  <2> DEFINE l == m - 1
  <2>1. l \in Nat /\ IsChain(f, book, upds, l) /\ l + 1 = m
    BY <1>3, <1>4
  <2> HIDE DEF l
  <2>2. \E g : IsChain(g, book, upds, l + 1)
    BY <2>1, ChainExtends
  <2> QED BY <2>1, <2>2
<1> QED BY <1>1, <1>5

LEMMA ReplayedIs ==
  ASSUME NEW book, NEW upds, Len(upds) \in Nat, NEW f, IsChain(f, book, upds, Len(upds))
  PROVE  Replayed(book, upds) = f[Len(upds)]
<1> DEFINE after[k \in 0 .. Len(upds)] == IF k = 0 THEN book ELSE Applied(after[k - 1], upds[k])
<1>1. Replayed(book, upds) = after[Len(upds)]
  BY DEF Replayed
<1>2. IsChain(after, book, upds, Len(upds))
  BY DEF IsChain
<1> HIDE DEF after
<1>3. after = f
  BY <1>2, ChainIsUnique
<1> QED BY <1>1, <1>3

\* Replaying nothing changes nothing.
LEMMA ReplayNothing ==
  ASSUME NEW book
  PROVE  Replayed(book, <<>>) = book
<1>1. IsChain([k \in 0 .. 0 |-> book], book, <<>>, 0)
  BY DEF IsChain
<1>2. Len(<<>>) = 0 /\ [k \in 0 .. 0 |-> book][0] = book
  OBVIOUS
<1> QED BY <1>1, <1>2, ReplayedIs

\* An update at the end is applied last.
LEMMA ReplayAppend ==
  ASSUME NEW S, NEW upds \in Seq(S), NEW u \in S, NEW book
  PROVE  Replayed(book, Append(upds, u)) = Applied(Replayed(book, upds), u)
<1> DEFINE n == Len(upds)
           more == Append(upds, u)
<1>1. n \in Nat /\ Len(more) = n + 1 /\ more[n + 1] = u /\ \A k \in 1 .. n : more[k] = upds[k]
  BY AppendProperties
<1>2. PICK f : IsChain(f, book, upds, n)
  BY <1>1, ChainExists
<1> DEFINE g == [k \in 0 .. (n + 1) |-> IF k = n + 1 THEN Applied(f[n], more[n + 1]) ELSE f[k]]
<1> HIDE DEF n, more
<1>3. IsChain(g, book, more, n + 1)
  BY <1>1, <1>2, ChainExtends
<1>4. g[n + 1] = Applied(f[n], u)
  BY <1>1
<1> HIDE DEF g
<1>5. Replayed(book, upds) = f[n]
  BY <1>1, <1>2, ReplayedIs DEF n
<1>6. Replayed(book, more) = g[n + 1]
  BY <1>1, <1>3, ReplayedIs
<1> QED BY <1>4, <1>5, <1>6 DEF more

\* The first update is applied first.
LEMMA ReplayHead ==
  ASSUME NEW S, NEW upds \in Seq(S), upds # <<>>, NEW book
  PROVE  Replayed(Applied(book, Head(upds)), Tail(upds)) = Replayed(book, upds)
<1> DEFINE n == Len(upds) - 1
           first == Applied(book, Head(upds))
           rest == Tail(upds)
<1>1. /\ n \in Nat /\ Len(upds) = n + 1 /\ Len(rest) = n /\ Head(upds) = upds[1]
      /\ \A k \in 1 .. n : rest[k] = upds[k + 1]
  BY HeadTailProperties, EmptySeq
<1>2. PICK f : IsChain(f, book, upds, n + 1)
  <2>1. n + 1 \in Nat
    BY <1>1
  <2> HIDE DEF n
  <2> QED BY <2>1, ChainExists
<1> DEFINE g == [k \in 0 .. n |-> f[k + 1]]
<1>3. \A k \in 0 .. (n + 1) : f[k] = IF k = 0 THEN book ELSE Applied(f[k - 1], upds[k])
  BY <1>2 DEF IsChain
<1>4. f[1] = first
  <2>1. f[0] = book
    BY <1>1, <1>3
  <2>2. f[1] = Applied(f[0], upds[1])
    BY <1>1, <1>3
  <2> QED BY <1>1, <2>1, <2>2
<1> HIDE DEF n, first, rest
<1>5. IsChain(g, first, rest, n)
  <2>1. ASSUME NEW k \in 0 .. n
        PROVE  g[k] = IF k = 0 THEN first ELSE Applied(g[k - 1], rest[k])
    <3>1. CASE k = 0
      BY <1>1, <1>4, <3>1
    <3>2. CASE k # 0
      <4>1. k \in 1 .. n /\ k - 1 \in 0 .. n /\ k + 1 \in 0 .. (n + 1) /\ k + 1 # 0
            /\ (k - 1) + 1 = k /\ (k + 1) - 1 = k
        BY <1>1, <3>2
      <4>2. g[k] = f[k + 1] /\ g[k - 1] = f[k] /\ rest[k] = upds[k + 1]
        BY <1>1, <4>1
      <4>3. f[k + 1] = Applied(f[k], upds[k + 1])
        BY <1>3, <4>1
      <4> QED BY <3>2, <4>2, <4>3
    <3> QED BY <3>1, <3>2
  <2>2. g = [k \in 0 .. n |-> g[k]]
    OBVIOUS
  <2> HIDE DEF g
  <2> QED BY <2>1, <2>2 DEF IsChain
<1>6. g[n] = f[n + 1]
  BY <1>1
<1> HIDE DEF g
<1>7. Replayed(first, rest) = g[n]
  BY <1>1, <1>5, ReplayedIs
<1>8. Replayed(book, upds) = f[n + 1]
  BY <1>1, <1>2, ReplayedIs
<1> QED BY <1>6, <1>7, <1>8 DEF first, rest
===============================================================================
