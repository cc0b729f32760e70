---------------------------- MODULE MemPoolProofs ----------------------------
(***************************************************************************)
(* The allocator is correct for every pool size.                           *)
(***************************************************************************)
EXTENDS MemPool, WellFoundedInduction, TLAPS

\* The two facts imply each other's preservation: allocate() may trust
\* next_free_index_ because updateNextFreeIndex only stops at a free block, and a
\* deallocate() can only free more.
PoolInv == TypeOK /\ HandsOutFreeBlocks /\ FatalOnlyWhenFull

LEMMA InitPool == Init => PoolInv
  <1>1. 0 \in Index
    BY SizeAssumption DEF Index
  <1>2. QED
    BY <1>1 DEF Init, PoolInv, TypeOK, HandsOutFreeBlocks, FatalOnlyWhenFull

\* The least-number principle, from the well-foundedness of < on Nat.
LEMMA LeastNumber ==
  ASSUME NEW T, T \subseteq Nat, T # {}
  PROVE  \E x \in T : \A y \in T : x <= y
<1>1. PICK x \in T : \A y \in T : ~(<<y, x>> \in OpToRel(<, Nat))
  <2> DEFINE R == OpToRel(<, Nat)
  <2>1. IsWellFoundedOn(R, Nat)
    BY NatLessThanWellFounded
  <2> HIDE DEF R
  <2>2. \E x \in T : \A y \in T : ~(<<y, x>> \in R)
    BY <2>1, WFMin
  <2> QED BY <2>2 DEF R
<1>2. \A y \in T : ~(y < x)
  BY <1>1 DEF OpToRel
<1> QED BY <1>2

\* The equation that defines the search has a solution, so the search satisfies it.
LEMMA SearchIsDefined ==
  ASSUME next_free_index \in Index
  PROVE  \A k \in 0 .. Size :
           Search[k] = IF k = 0 THEN next_free_index ELSE Advanced(Search[k - 1])
<1> DEFINE At(j) == IF next_free_index + j < Size THEN next_free_index + j
                    ELSE next_free_index + j - Size
           round == [j \in 0 .. Size |-> At(j)]
<1>1. Size \in Nat /\ Size > 0 /\ next_free_index \in 0 .. (Size - 1)
  BY SizeAssumption DEF Index
<1>2. ASSUME NEW j \in 0 .. Size
      PROVE  round[j] = IF j = 0 THEN next_free_index ELSE Advanced(round[j - 1])
  <2>1. CASE j = 0
    BY <1>1, <2>1
  <2>2. CASE j # 0
    <3>1. j - 1 \in 0 .. Size /\ round[j - 1] = At(j - 1) /\ round[j] = At(j)
      BY <1>1, <2>2
    <3>2. Advanced(At(j - 1)) = At(j)
      BY <1>1, <2>2 DEF Advanced
    <3> QED BY <2>2, <3>1, <3>2
  <2> QED BY <2>1, <2>2
<1>3. round = [j \in 0 .. Size |-> round[j]]
  OBVIOUS
<1> HIDE DEF round
<1>4. round = [j \in 0 .. Size |-> IF j = 0 THEN next_free_index ELSE Advanced(round[j - 1])]
  BY <1>2, <1>3
<1>5. Search = [j \in 0 .. Size |-> IF j = 0 THEN next_free_index ELSE Advanced(Search[j - 1])]
  BY <1>4 DEF Search
<1> QED BY <1>5

\* The blocks the search passes, one after the other round the store.
LEMMA SearchGoesRound ==
  ASSUME next_free_index \in Index, NEW k \in 0 .. Size
  PROVE  Search[k] = IF next_free_index + k < Size THEN next_free_index + k
                     ELSE next_free_index + k - Size
<1> DEFINE At(j) == IF next_free_index + j < Size THEN next_free_index + j
                    ELSE next_free_index + j - Size
           D == {j \in 0 .. Size : Search[j] # At(j)}
<1>1. Size \in Nat /\ Size > 0 /\ next_free_index \in 0 .. (Size - 1)
  BY SizeAssumption DEF Index
<1>2. ASSUME D # {} PROVE FALSE
  <2>1. PICK j \in D : \A i \in D : j <= i
    <3>1. D \subseteq Nat
      BY <1>1
    <3> HIDE DEF D
    <3> QED BY <1>2, <3>1, LeastNumber
  <2>2. j \in 0 .. Size /\ Search[j] # At(j)
    BY <2>1
  <2>3. j # 0
    BY <1>1, <2>2, SearchIsDefined
  <2>4. j - 1 \in 0 .. Size /\ j - 1 \notin D
    BY <1>1, <2>1, <2>2, <2>3
  <2>5. Search[j - 1] = At(j - 1)
    BY <2>4
  <2>6. Search[j] = Advanced(At(j - 1))
    BY <2>2, <2>3, <2>5, SearchIsDefined
  <2>7. Advanced(At(j - 1)) = At(j)
    BY <1>1, <2>2, <2>3 DEF Advanced
  <2> QED BY <2>2, <2>6, <2>7
<1> QED BY <1>2

\* The search ends at a free block, or comes round when it has been to every block.
LEMMA SearchIsComplete ==
  ASSUME next_free_index \in Index, updateNextFreeIndex
  PROVE  \/ next_free_index' \in Index /\ is_free'[next_free_index'] /\ UNCHANGED fatal
         \/ /\ next_free_index' \in Index /\ fatal' = "out of space"
            /\ \A i \in Index : ~is_free'[i]
<1>0. Size \in Nat /\ Size > 0 /\ next_free_index \in 0 .. (Size - 1) /\ Index = 0 .. (Size - 1)
  BY SizeAssumption DEF Index
<1>1. PICK passes \in 0 .. Size :
        /\ \A k \in 0 .. (passes - 1) : ~is_free'[Search[k]]
        /\ next_free_index' = Search[passes]
        /\ \/ CameRound(passes) /\ fatal' = "out of space"
           \/ is_free'[Search[passes]] /\ UNCHANGED fatal
  BY DEF updateNextFreeIndex
<1>2. Search[passes] \in Index
  BY <1>0, SearchGoesRound
<1>3. CASE CameRound(passes) /\ fatal' = "out of space"
  <2>1. passes = Size
    <3>1. passes > 0 /\ Search[passes] = next_free_index
      BY <1>3 DEF CameRound
    <3>2. Search[passes] = IF next_free_index + passes < Size THEN next_free_index + passes
                           ELSE next_free_index + passes - Size
      BY SearchGoesRound
    <3> QED BY <1>0, <3>1, <3>2
  <2>2. ASSUME NEW i \in Index PROVE ~is_free'[i]
    <3> DEFINE k == IF i >= next_free_index THEN i - next_free_index
                    ELSE i - next_free_index + Size
    <3>1. k \in 0 .. (passes - 1) /\ k \in 0 .. Size
      BY <1>0, <2>1
    <3>2. Search[k] = IF next_free_index + k < Size THEN next_free_index + k
                      ELSE next_free_index + k - Size
      BY <3>1, SearchGoesRound
    <3>3. Search[k] = i
      BY <1>0, <3>2
    <3> HIDE DEF k
    <3> QED BY <1>1, <3>1, <3>3
  <2> QED BY <1>1, <1>2, <1>3, <2>2
<1>4. CASE is_free'[Search[passes]] /\ UNCHANGED fatal
  BY <1>1, <1>2, <1>4
<1> QED BY <1>1, <1>3, <1>4

\* The block just handed out is marked; the search ends at a free one or says so.
LEMMA AllocateKeepsPool == PoolInv /\ allocate => PoolInv'
  <1> SUFFICES ASSUME PoolInv, allocate PROVE PoolInv'
    OBVIOUS
  <1>0. /\ fatal = "none" /\ next_free_index \in Index
        /\ is_free' = [is_free EXCEPT ![next_free_index] = FALSE]
        /\ live' = live \cup {next_free_index}
        /\ updateNextFreeIndex
    BY DEF allocate, PoolInv, TypeOK, HandsOutFreeBlocks
  <1>1. is_free' \in [Index -> BOOLEAN] /\ live' \subseteq Index
    BY <1>0 DEF PoolInv, TypeOK
  <1>2. \A i \in Index : is_free'[i] <=> i \notin live'
    BY <1>0 DEF PoolInv, TypeOK, HandsOutFreeBlocks
  <1>3. CASE next_free_index' \in Index /\ is_free'[next_free_index'] /\ UNCHANGED fatal
    BY <1>0, <1>1, <1>2, <1>3 DEF PoolInv, TypeOK, HandsOutFreeBlocks, FatalOnlyWhenFull
  <1>4. CASE /\ next_free_index' \in Index /\ fatal' = "out of space"
             /\ \A i \in Index : ~is_free'[i]
    <2>1. live' = Index
      BY <1>1, <1>2, <1>4
    <2>2. QED
      BY <1>1, <1>2, <1>4, <2>1 DEF PoolInv, TypeOK, HandsOutFreeBlocks, FatalOnlyWhenFull
  <1>5. QED
    BY <1>0, <1>3, <1>4, SearchIsComplete

LEMMA DeallocateKeepsPool ==
  ASSUME NEW i \in live, PoolInv, deallocate(i)
  PROVE  PoolInv'
  <1>1. i \in Index /\ ~is_free[i]
    BY DEF PoolInv, TypeOK, HandsOutFreeBlocks
  <1>2. /\ fatal = "none" /\ fatal' = "none" /\ next_free_index' = next_free_index
        /\ is_free' = [is_free EXCEPT ![i] = TRUE] /\ live' = live \ {i}
    BY <1>1 DEF deallocate
  <1>3. is_free' \in [Index -> BOOLEAN] /\ live' \subseteq Index
    BY <1>1, <1>2 DEF PoolInv, TypeOK
  <1>4. \A j \in Index : is_free'[j] <=> j \notin live'
    BY <1>1, <1>2 DEF PoolInv, TypeOK, HandsOutFreeBlocks
  <1>5. is_free'[next_free_index']
    BY <1>2 DEF PoolInv, TypeOK, HandsOutFreeBlocks
  <1>6. QED
    BY <1>2, <1>3, <1>4, <1>5 DEF PoolInv, TypeOK, HandsOutFreeBlocks, FatalOnlyWhenFull

\* For every size of the pool, and whatever order blocks are allocated and given back in by
\* a caller that gives back what it holds: allocate() hands out a free block, no block has
\* two holders, the ASSERTs on a block never fail, and the search says "out of space" only
\* when every block is taken.
THEOREM PoolIsSound == Spec => [](TypeOK /\ HandsOutFreeBlocks /\ FatalOnlyWhenFull)
  <1>1. PoolInv /\ [Next]_vars => PoolInv'
    <2> SUFFICES ASSUME PoolInv, [Next]_vars PROVE PoolInv'
      OBVIOUS
    <2>1. CASE allocate
      BY <2>1, AllocateKeepsPool
    <2>2. CASE \E i \in live : deallocate(i)
      BY <2>2, DeallocateKeepsPool
    <2>3. CASE UNCHANGED vars
      BY <2>3 DEF vars, PoolInv, TypeOK, HandsOutFreeBlocks, FatalOnlyWhenFull
    <2>4. QED
      BY <2>1, <2>2, <2>3 DEF Next
  <1>2. QED
    BY <1>1, InitPool, PTL DEF Spec, PoolInv
==============================================================================
