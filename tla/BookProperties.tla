---------------------------- MODULE BookProperties ----------------------------
(***************************************************************************)
(* What is checked and proved of one symbol's order book.                  *)
(***************************************************************************)
EXTENDS SymbolOrderBook

\* The sorts of the book and of the order being matched.
WellTyped ==
  /\ levels \in [{"BUY", "SELL"} -> [Price -> Seq(OrderId)]]
  /\ DOMAIN order_index \subseteq OrderId
  /\ order_index \in [DOMAIN order_index -> BookOrder]
  /\ incoming \in IncomingOrder \cup {None}
  /\ incoming # None =>
       /\ incoming.rests => incoming.has_limit_price
       /\ incoming.has_limit_price => incoming.limit_price \in Price

\* What processRequest and modifyOrder let through as a quantity.
ValidQty == 1 .. (Invalid_Qty - 1)

\* The types, and the quantities in them: whatever is submitted, nothing rests or matches
\* with quantity zero or with the sentinel Invalid_Qty, no resting order has more left than
\* its original_qty_, and the order being matched has no more left than it came with, so no
\* subtraction of a fill wraps around.
TypeOK ==
  /\ WellTyped
  /\ \A o \in DOMAIN order_index :
       /\ order_index[o].qty \in ValidQty
       /\ order_index[o].original_qty \in ValidQty
       /\ order_index[o].qty <= order_index[o].original_qty
  /\ incoming # None => incoming.qty \in ValidQty /\ incoming.leaves_qty <= incoming.qty

\* An index and levels that describe the same orders.
Consistent(lvls, index) ==
  /\ \A id \in DOMAIN index :
       /\ index[id].qty > 0
       /\ \E k \in DOMAIN lvls[BookSide(index[id].side)][index[id].price] :
            lvls[BookSide(index[id].side)][index[id].price][k] = id
  /\ \A bs \in {"BUY", "SELL"}, p \in Price : \A k \in DOMAIN lvls[bs][p] :
       /\ lvls[bs][p][k] \in DOMAIN index
       /\ BookSide(index[lvls[bs][p][k]].side) = bs
       /\ index[lvls[bs][p][k]].price = p
       /\ \A j \in DOMAIN lvls[bs][p] : lvls[bs][p][j] = lvls[bs][p][k] => j = k

\* order_index_ and the two maps of levels describe the same orders after every
\* step of every request: each indexed order stands exactly once, in the level
\* of its own side and price, nothing else stands anywhere, and no order rests
\* with quantity zero.  (removeOrder calls its early return "should not happen
\* if order_index_ is consistent".)
BookConsistent == Consistent(levels, order_index)

\* The order being matched is not in the book, so nothing can trade with it twice
\* and its remainder enters the index as a new key: addLimitOrder checked the
\* index before matching, modifyOrder took the order out first.
IncomingOutsideBook == incoming # None => incoming.order_id \notin DOMAIN order_index

\* The book is crossed only by orders of one client: every bid at or above an ask
\* belongs to the client of that ask, whom self-trade prevention keeps from
\* trading with themselves.  A sweep that misses an order of somebody else, in any
\* order of levels, skips and removals, leaves it crossed otherwise.
CrossedOnlyBySelf ==
  \A b, a \in DOMAIN order_index :
    (/\ BookSide(order_index[b].side) = "BUY"
     /\ BookSide(order_index[a].side) = "SELL"
     /\ order_index[b].price >= order_index[a].price)
    => order_index[b].client_id = order_index[a].client_id

\* What matchIncoming has behind its cursor while quantity is left: only orders of
\* the incoming order's own client, in the better levels and in the part of the
\* current level it has walked.  This is what makes CrossedOnlyBySelf inductive.
SweptAreOwn ==
  incoming # None /\ incoming.leaves_qty > 0 /\ incoming.level_price # None =>
    /\ \A o \in DOMAIN order_index :
         (/\ BookSide(order_index[o].side) = OppositeSide(incoming.side)
          /\ BetterPrice(OppositeSide(incoming.side), order_index[o].price, incoming.level_price))
         => order_index[o].client_id = incoming.client_id
    /\ \A k \in DOMAIN OppositeLevels[incoming.level_price] :
         k < incoming.pos =>
           order_index[OppositeLevels[incoming.level_price][k]].client_id = incoming.client_id

\* How far the end of the level is from the cursor.
ToLevelEnd == Len(OppositeLevels[incoming.level_price]) - incoming.pos

AdvancingStep ==
  incoming # None /\ incoming' # None =>
    IF incoming'.level_price = incoming.level_price
    THEN incoming.level_price # None /\ ToLevelEnd' < ToLevelEnd
    ELSE incoming.level_price # None =>
           BetterPrice(OppositeSide(incoming.side), incoming.level_price, incoming'.level_price)

\* The two nested loops of matchIncoming terminate, whatever the fills erase under them: a
\* step that leaves the order in matching goes to a strictly worse level, or stays in its
\* level and brings the cursor nearer to the end of what is left of it.
SweepAdvances == [][AdvancingStep]_vars

(***************************************************************************)
(* The book implements price-time priority.  Levels and cursors disappear: *)
(* entering a level and skipping an order are invisible steps.             *)
(***************************************************************************)
RestingOrders ==
  [id \in DOMAIN order_index |->
     [client |-> order_index[id].client_id,
      buy    |-> order_index[id].side = "BUY",
      price  |-> order_index[id].price,
      qty    |-> order_index[id].qty]]

AheadPairs ==
  {pair \in OrderId \X OrderId :
     \E bs \in {"BUY", "SELL"}, p \in Price : \E i, j \in DOMAIN levels[bs][p] :
       i < j /\ pair = <<levels[bs][p][i], levels[bs][p][j]>>}

TakerOrder ==
  IF incoming = None THEN None
  ELSE [id |-> incoming.order_id, client |-> incoming.client_id,
        buy |-> incoming.side = "BUY", any_price |-> ~incoming.has_limit_price,
        price |-> incoming.limit_price, leaves |-> incoming.leaves_qty,
        rests |-> incoming.rests]

PTM == INSTANCE PriceTimeMatching
         WITH NoTaker <- None, resting <- RestingOrders,
              ahead <- AheadPairs, taker <- TakerOrder

ASSUME NoTakerAssumption == None \notin PTM!Taker

\* Every fill is with the best-priced, earliest order of another client, no
\* matching ends while such an order is left, quantity decreases keep an
\* order's place, increases and price changes lose it: matchIncoming, restOrder,
\* removeOrder and modifyOrder implement PriceTimeMatching.
ImplementsPriceTime == PTM!Spec

===============================================================================
