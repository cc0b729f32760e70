------------------------------- MODULE LevelList -------------------------------
(***************************************************************************)
(* The price levels of one side of a book as the code keeps them: nodes in *)
(* blocks of the order pool, linked by prev_ and next_, with head_, tail_  *)
(* and order_count_ per level, and the sweep of matchIncoming that walks   *)
(* next_ while it unlinks and frees the nodes it fills.  SymbolOrderBook   *)
(* has sequences of order ids in their place.                              *)
(***************************************************************************)
EXTENDS MemPool, Sequences, SequencesExt

CONSTANTS OrderId, Price,
  Null    \* nullptr, and no sweep

VARIABLES
  node,          \* the BookOrder in each block; a freed block keeps its contents
  level,         \* the map of levels, by price
  order_index,   \* order_index_: the block of each order
  sweep          \* matchIncoming's `node', and as history the orders it has still to visit

listVars == <<node, level, order_index>>
allVars == <<vars, listVars, sweep>>

ListInit ==
  /\ Init
  /\ node = [i \in Index |-> [order_id |-> Null, price |-> Null, prev |-> Null, next |-> Null]]
  /\ level = [p \in {} |-> Null]
  /\ order_index = [o \in {} |-> Null]
  /\ sweep = Null

\* restOrder's bids_.find, and level_pool_.allocate where there is none.
FoundLevel(p) ==
  IF p \in DOMAIN level THEN level[p] ELSE [head |-> Null, tail |-> Null, order_count |-> 0]

\* Mutant: the old tail's next_ is not set.
LinkedBackOnly(b, id, p) ==
  [node EXCEPT ![b] = [order_id |-> id, price |-> p, prev |-> FoundLevel(p).tail, next |-> Null]]

\* The node in block b, behind the level's tail.
LinkedLast(b, id, p) ==
  [i \in Index |->
     CASE i = b -> [order_id |-> id, price |-> p, prev |-> FoundLevel(p).tail, next |-> Null]
       [] i = FoundLevel(p).tail -> [node[i] EXCEPT !.next = b]
       [] OTHER -> node[i]]

restOrder(id, p) ==
  /\ sweep = Null /\ id \notin DOMAIN order_index
  /\ allocate
  /\ LET b == next_free_index
         l == FoundLevel(p) IN
       IF fatal' # "none" THEN UNCHANGED listVars
       ELSE /\ node' = LinkedLast(b, id, p)
            /\ level' = (p :> [head |-> IF l.tail = Null THEN b ELSE l.head, tail |-> b,
                               order_count |-> l.order_count + 1]) @@ level
            /\ order_index' = (id :> b) @@ order_index
  /\ UNCHANGED sweep

\* Mutant: the successor's prev_ is not set.
UnlinkedForward(b) ==
  [i \in Index |-> IF i = node[b].prev THEN [node[i] EXCEPT !.next = node[b].next] ELSE node[i]]

UnlinkedNode(b) ==
  [i \in Index |->
     CASE i = node[b].prev -> [node[i] EXCEPT !.next = node[b].next]
       [] i = node[b].next -> [node[i] EXCEPT !.prev = node[b].prev]
       [] OTHER -> node[i]]

LevelWithout(b) ==
  LET l == level[node[b].price] IN
  [head |-> IF node[b].prev = Null THEN node[b].next ELSE l.head,
   tail |-> IF node[b].next = Null THEN node[b].prev ELSE l.tail,
   order_count |-> l.order_count - 1]

Without(f, x) == [y \in DOMAIN f \ {x} |-> f[y]]

\* The defensive early return first.
removeOrder(b) ==
  LET p == node[b].price IN
  IF p \notin DOMAIN level THEN UNCHANGED <<vars, listVars>>
  ELSE /\ node' = UnlinkedNode(b)
       /\ level' = IF LevelWithout(b).order_count = 0 THEN Without(level, p)
                   ELSE [level EXCEPT ![p] = LevelWithout(b)]
       /\ order_index' = Without(order_index, node[b].order_id)
       /\ deallocate(b)

\* A cancel, or the first half of a modification that loses the order's place.
cancelOrder(id) ==
  /\ fatal = "none" /\ sweep = Null /\ id \in DOMAIN order_index
  /\ removeOrder(order_index[id])
  /\ UNCHANGED sweep

\* The orders from block b on, no more than there are blocks.
RECURSIVE From(_, _)
From(b, n) == IF b = Null \/ n = 0 THEN <<>> ELSE <<node[b].order_id>> \o From(node[b].next, n - 1)

OrdersFrom(b) == From(b, Size)

\* matchIncoming at a level: `node' is its head.
enterLevel(p) ==
  /\ fatal = "none" /\ sweep = Null /\ p \in DOMAIN level
  /\ sweep' = [price |-> p, node |-> level[p].head, unvisited |-> OrdersFrom(level[p].head)]
  /\ UNCHANGED <<vars, listVars>>

\* Mutants: node->prev_; at the last node, round to the head.
PreviousNode == node[sweep.node].prev

NextNodeRound ==
  IF node[sweep.node].next = Null /\ sweep.price \in DOMAIN level THEN level[sweep.price].head
  ELSE node[sweep.node].next

\* next_node, read before the node is removed.
NextNode == node[sweep.node].next

visitNode ==
  /\ sweep # Null /\ sweep.node # Null
  /\ sweep' = [sweep EXCEPT !.node = NextNode, !.unvisited = SubSeq(@, 2, Len(@))]
  /\ \/ UNCHANGED <<vars, listVars>>     \* skipped, or not filled completely
     \/ removeOrder(sweep.node)

levelSwept ==
  /\ sweep # Null /\ sweep.node = Null
  /\ sweep' = Null
  /\ UNCHANGED <<vars, listVars>>

Sweeping == visitNode \/ levelSwept

ListNext ==
  \/ \E id \in OrderId : cancelOrder(id) \/ \E p \in Price : restOrder(id, p)
  \/ (\E p \in Price : enterLevel(p)) \/ Sweeping

\* The matching thread does not stop in the middle of a sweep.
ListSpec == ListInit /\ [][ListNext]_allVars /\ WF_allVars(Sweeping)

-----------------------------------------------------------------------------
\* What SymbolOrderBook sees of this: `levels' and `order_index'.
LevelSequences ==
  [bs \in {"BUY", "SELL"} |->
     [p \in Price |-> IF bs = "BUY" THEN OrdersFrom(FoundLevel(p).head) ELSE <<>>]]

RestingAt(p) == [client_id |-> Null, side |-> "BUY", price |-> p, original_qty |-> 1, qty |-> 1]

IndexedOrders == [id \in DOMAIN order_index |-> RestingAt(node[order_index[id]].price)]

Book == INSTANCE SymbolOrderBook
          WITH ClientId <- {Null}, Request <- {}, Invalid_Price <- -1, Invalid_Qty <- 2, None <- Null,
               levels <- LevelSequences, order_index <- IndexedOrders,
               incoming <- Null, responses <- <<>>, updates <- <<>>

\* The linked lists implement the book's sequences: a step appends an order to the level
\* of its price as SymbolOrderBook's restOrder does, takes one out as its removeOrder
\* does, or is invisible, whatever nodes come before and after and whichever freed
\* block is used again.
ImplementsLevels ==
  [][ \/ \E id \in OrderId, p \in Price : Book!restOrder(LevelSequences, IndexedOrders, id, RestingAt(p))
      \/ \E id \in DOMAIN order_index : Book!removeOrder(id)
      \/ UNCHANGED <<LevelSequences, IndexedOrders>> ]_allVars

\* Each level can be walked both ways: from a node, prev_ leads back to the node that
\* leads to it, head_ and tail_ are the ends, order_count_ is the number of nodes and not
\* zero.  And the blocks in use are those of the indexed orders: none is leaked, none is
\* both linked and free.
LinksSound ==
  /\ \A p \in DOMAIN level :
       LET blocks == [k \in DOMAIN OrdersFrom(level[p].head) |->
                        order_index[OrdersFrom(level[p].head)[k]]] IN
       /\ Len(blocks) = level[p].order_count /\ blocks # <<>>
       /\ blocks[1] = level[p].head /\ blocks[Len(blocks)] = level[p].tail
       /\ node[blocks[1]].prev = Null /\ node[blocks[Len(blocks)]].next = Null
       /\ \A k \in 2 .. Len(blocks) : node[blocks[k]].prev = blocks[k - 1]
  /\ fatal = "none" => live = Range(order_index)

\* The sweep visits each order of the level once and in its order, although it frees the
\* nodes it stands on: what lies ahead of it in the list is what it has not visited.
SweepVisitsAll ==
  sweep # Null =>
    /\ OrdersFrom(sweep.node) = sweep.unvisited
    /\ sweep.node # Null => sweep.node \in live /\ node[sweep.node].price = sweep.price

\* Every sweep of a level ends.
SweepEnds == sweep # Null ~> sweep = Null
===============================================================================
