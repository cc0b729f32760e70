------------------------------- MODULE MemPool -------------------------------
(***************************************************************************)
(* Common::MemPool, the block allocator behind the orders and the price    *)
(* levels of every book.  A failed ASSERT ends the process: it sets        *)
(* `fatal' and nothing happens afterwards.                                 *)
(***************************************************************************)
EXTENDS Integers

CONSTANT Size   \* store_.size(): MAX_RESTING_ORDERS or MAX_PRICE_LEVELS

ASSUME SizeAssumption == Size \in Nat \ {0}

VARIABLES
  is_free,           \* is_free_ of each block
  next_free_index,
  live,              \* history: the blocks the book holds a pointer to
  fatal              \* the ASSERT that failed, or "none"

vars == <<is_free, next_free_index, live, fatal>>

Index == 0 .. (Size - 1)

Init ==
  /\ is_free = [i \in Index |-> TRUE]
  /\ next_free_index = 0
  /\ live = {} /\ fatal = "none"

\* Mutant: the index wraps to the second block.
AdvancedPastFirst(i) == IF i + 1 = Size THEN 1 ELSE i + 1

\* ++next_free_index_, round the end of the store.
Advanced(i) == IF i + 1 = Size THEN 0 ELSE i + 1

\* next_free_index_ after so many passes of the search, from where it starts.
Search[passes \in 0 .. Size] ==
  IF passes = 0 THEN next_free_index ELSE Advanced(Search[passes - 1])

\* Mutants: the index runs past the end; it stops at a block in use.
nextBlockUnwrapped == next_free_index' = next_free_index + 1 /\ UNCHANGED fatal

nextBlockUntested == next_free_index' = Advanced(next_free_index) /\ UNCHANGED fatal

\* The search comes back to where it started, which ends the process.
CameRound(passes) == passes > 0 /\ Search[passes] = next_free_index

\* updateNextFreeIndex: pass over blocks in use until one is free, or until the search
\* has come round.  No search is longer than Size passes.
updateNextFreeIndex ==
  \E passes \in 0 .. Size :
    /\ \A k \in 0 .. (passes - 1) : ~is_free'[Search[k]] /\ ~CameRound(k)
    /\ next_free_index' = Search[passes]
    /\ \/ CameRound(passes) /\ fatal' = "out of space"
       \/ ~CameRound(passes) /\ is_free'[Search[passes]] /\ UNCHANGED fatal

\* An ASSERT that fails.
Die(message) == fatal' = message /\ UNCHANGED <<is_free, next_free_index, live>>

allocate ==
  /\ fatal = "none"
  /\ IF is_free[next_free_index]
       THEN /\ is_free' = [is_free EXCEPT ![next_free_index] = FALSE]
            /\ live' = live \cup {next_free_index}
            /\ updateNextFreeIndex
       ELSE Die("expected free block")

deallocate(i) ==
  /\ fatal = "none"
  /\ IF i \notin Index THEN Die("not of this pool")
     ELSE IF is_free[i] THEN Die("expected block in use")
     ELSE /\ is_free' = [is_free EXCEPT ![i] = TRUE]
          /\ live' = live \ {i}
          /\ UNCHANGED <<next_free_index, fatal>>

\* A caller that gives back only what it holds, once.  LevelList has the real caller.
Next == allocate \/ \E i \in live : deallocate(i)

Spec == Init /\ [][Next]_vars

-----------------------------------------------------------------------------
\* Types; in particular next_free_index_ stays inside store_.
TypeOK ==
  /\ is_free \in [Index -> BOOLEAN]
  /\ next_free_index \in Index
  /\ live \subseteq Index
  /\ fatal \in {"none", "out of space", "expected free block", "expected block in use",
               "not of this pool"}

\* Whatever order blocks come back in, the block the next allocate() will hand out is
\* free and the caller of none of the others loses theirs: the flags and the pointers
\* out there agree, so no two orders ever share a block, no block is given back twice and
\* none of the three ASSERTs on a block can fail.
HandsOutFreeBlocks ==
  /\ \A i \in Index : is_free[i] <=> i \notin live
  /\ fatal = "none" => is_free[next_free_index]
  /\ fatal \in {"none", "out of space"}

\* The process ends "out of space" only when every block is taken: from wherever the search
\* starts, it has been to each block when it comes round.  (The process ends as soon as the
\* last block is taken, not when one more is asked for.)
FatalOnlyWhenFull == fatal = "out of space" => live = Index
==============================================================================
