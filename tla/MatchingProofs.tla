---------------------------- MODULE MatchingProofs ----------------------------
(***************************************************************************)
(* Matching keeps price-time priority: a sweep never turns back and leaves *)
(* nothing behind that it should have traded with, and the book implements *)
(* PriceTimeMatching, for any set of clients, orders, prices and requests. *)
(***************************************************************************)
EXTENDS BookProofs, WellFoundedInduction

(***************************************************************************)
(* A non-empty set of prices has a lowest one, and a highest one when it   *)
(* is bounded: begin() of a non-empty map of levels always is a best level.*)
(***************************************************************************)
\* The least-number principle, from the well-foundedness of < on Nat.
LEMMA LowestExists ==
  ASSUME NEW T, T \subseteq Nat, T # {}
  PROVE  \E x \in T : \A y \in T : x <= y
<1>1. PICK x \in T : \A y \in T : ~(<<y, x>> \in OpToRel(<, Nat))
  <2> DEFINE R == OpToRel(<, Nat)
  <2>1. IsWellFoundedOn(R, Nat)
    BY NatLessThanWellFounded
  <2> HIDE DEF R
  <2>2. \E x \in T : \A y \in T : ~(<<y, x>> \in R)
    BY <2>1, WFMin, Zenon
  <2> QED BY <2>2 DEF R
<1>2. \A y \in T : ~(y < x)
  BY <1>1, Zenon DEF OpToRel
<1> QED BY <1>2

\* The same for the greatest element of a bounded set, by counting down from
\* the bound.
LEMMA HighestExists ==
  ASSUME NEW T, T \subseteq Nat, T # {}, NEW max \in Nat, \A y \in T : y <= max
  PROVE  \E x \in T : \A y \in T : y <= x
<1> DEFINE D == {n \in Nat : max - n \in T}
<1>1. D \subseteq Nat /\ D # {}
  <2>1. PICK y \in T : TRUE
    BY Zenon
  <2>2. max - y \in Nat /\ max - (max - y) = y
    BY <2>1
  <2> QED BY <2>1, <2>2, Zenon
<1>2. PICK d \in D : \A e \in D : d <= e
  <2> HIDE DEF D
  <2> QED BY <1>1, LowestExists, Zenon
<1>3. max - d \in T /\ d \in Nat
  BY <1>2
<1>4. ASSUME NEW y \in T
      PROVE  y <= max - d
  <2>1. max - y \in Nat /\ max - (max - y) = y
    OBVIOUS
  <2>2. max - y \in D
    BY <2>1
  <2>3. d <= max - y
    BY <2>2, <1>2
  <2> QED BY <2>1, <2>3, <1>3
<1> QED BY <1>3, <1>4

(***************************************************************************)
(* What a sweep leaves behind.                                             *)
(***************************************************************************)
\* Matching, cancelling and modifying in place bring no new side, price or owner
\* into the book.
NoNewOrder ==
  \A o \in DOMAIN order_index' :
    /\ o \in DOMAIN order_index
    /\ order_index'[o].side = order_index[o].side
    /\ order_index'[o].price = order_index[o].price
    /\ order_index'[o].client_id = order_index[o].client_id

\* Such a step cannot cross the book.
LEMMA NoNewOrderKeepsCrossing ==
  ASSUME CrossedOnlyBySelf, NoNewOrder
  PROVE  CrossedOnlyBySelf'
BY DEF CrossedOnlyBySelf, NoNewOrder

\* Of the levels ahead of the cursor one is the best: begin() and upper_bound()
\* return it.
LEMMA BestLevelExists ==
  ASSUME NEW T, T \subseteq Price, T # {}
  PROVE  \E p \in T : IsBestOf(p, T)
<1>1. \A p \in Price : p \in Nat /\ p \in Int
  BY PriceAssumption
<1>2. T \subseteq Nat
  BY <1>1
<1>3. CASE OppositeSide(incoming.side) = "BUY"
  <2>1. PICK max \in Price \cup {0} : \A p \in Price : p <= max
    BY PriceAssumption
  <2>2. max \in Nat /\ \A y \in T : y <= max
    BY <2>1, <1>1
  <2>3. PICK x \in T : \A y \in T : y <= x
    BY <1>2, <2>2, HighestExists, Zenon
  <2>4. \A y \in T : ~(y > x)
    BY <2>3, <1>2
  <2> QED BY <1>3, <2>3, <2>4 DEF IsBestOf, BetterPrice
<1>4. CASE OppositeSide(incoming.side) # "BUY"
  <2>1. PICK x \in T : \A y \in T : x <= y
    BY <1>2, LowestExists, Zenon
  <2>2. \A y \in T : ~(y < x)
    BY <2>1, <1>2
  <2> QED BY <1>4, <2>1, <2>2 DEF IsBestOf, BetterPrice
<1> QED BY <1>3, <1>4

\* An indexed order of the other side makes its level non-empty.
LEMMA OppositeLevelNonEmpty ==
  ASSUME ConsistencyInv, NEW o \in DOMAIN order_index,
         BookSide(order_index[o].side) = OppositeSide(incoming.side)
  PROVE  /\ order_index[o].price \in Price
         /\ OppositeLevels[order_index[o].price] # <<>>
         /\ \E k \in DOMAIN OppositeLevels[order_index[o].price] :
              OppositeLevels[order_index[o].price][k] = o
<1>1. order_index[o].price \in Price
  BY DEF ConsistencyInv, WellTyped, BookOrder
<1>2. \E k \in DOMAIN OppositeLevels[order_index[o].price] :
        OppositeLevels[order_index[o].price][k] = o
  BY DEF ConsistencyInv, BookConsistent, Consistent, OppositeLevels
<1> QED BY <1>1, <1>2

\* Orders at the prices the cursor has passed belong to the incoming order's client,
\* once its level is swept; every other level of that side is ahead.
LEMMA SweptOrAhead ==
  ASSUME ConsistencyInv, SweptAreOwn, incoming # None, incoming.leaves_qty > 0, LevelSwept,
         NEW o \in DOMAIN order_index,
         BookSide(order_index[o].side) = OppositeSide(incoming.side)
  PROVE  \/ order_index[o].client_id = incoming.client_id
         \/ order_index[o].price \in LevelsAhead
<1> DEFINE p == order_index[o].price
           bs == OppositeSide(incoming.side)
<1>1. p \in Price /\ OppositeLevels[p] # <<>>
  BY OppositeLevelNonEmpty
<1>2. PICK k \in DOMAIN OppositeLevels[p] : OppositeLevels[p][k] = o
  BY OppositeLevelNonEmpty
<1>3. CASE incoming.level_price = None
  BY <1>1, <1>3 DEF LevelsAhead
<1>4. CASE incoming.level_price # None
  <2>1. incoming \in IncomingOrder /\ incoming.level_price \in Price /\ incoming.pos \in Nat
    BY <1>4 DEF ConsistencyInv, WellTyped, IncomingOrder
  <2>2. p \in Int /\ incoming.level_price \in Int
    BY <1>1, <2>1, PriceAssumption
  <2>3. \/ BetterPrice(bs, p, incoming.level_price)
        \/ p = incoming.level_price
        \/ BetterPrice(bs, incoming.level_price, p)
    BY <2>2 DEF BetterPrice
  <2>4. CASE BetterPrice(bs, p, incoming.level_price)
    BY <1>4, <2>4 DEF SweptAreOwn
  <2>5. CASE p = incoming.level_price
    <3>1. OppositeLevels[p] \in Seq(OrderId)
      BY <1>1 DEF ConsistencyInv, WellTyped, OppositeLevels, OppositeSide
    <3>2. k \in Nat /\ k <= Len(OppositeLevels[p])
      BY <1>2, <3>1, LenProperties
    <3>3. incoming.pos > Len(OppositeLevels[p])
      BY <1>4, <2>5 DEF LevelSwept
    <3>4. Len(OppositeLevels[p]) \in Nat
      BY <3>1, LenProperties
    <3>5. k < incoming.pos
      BY <3>2, <3>3, <3>4, <2>1
    <3> QED BY <1>2, <1>4, <2>5, <3>5 DEF SweptAreOwn
  <2>6. CASE BetterPrice(bs, incoming.level_price, p)
    BY <1>1, <2>6 DEF LevelsAhead
  <2> QED BY <2>3, <2>4, <2>5, <2>6
<1> QED BY <1>3, <1>4

\* When both loops are over and quantity is left, every order the incoming one
\* could trade with is one of its own client.
LEMMA NothingLeftToTrade ==
  ASSUME ConsistencyInv, SweptAreOwn, MatchingDone, incoming.leaves_qty > 0,
         NEW o \in DOMAIN order_index,
         BookSide(order_index[o].side) = OppositeSide(incoming.side),
         Crosses(incoming, order_index[o].price)
  PROVE  order_index[o].client_id = incoming.client_id
<1> DEFINE p == order_index[o].price
           T == LevelsAhead
<1> SUFFICES ASSUME p \in T PROVE FALSE
  BY SweptOrAhead DEF MatchingDone
<1>1. T \subseteq Price /\ T # {}
  BY DEF LevelsAhead
<1> HIDE DEF T
<1>2. PICK q \in T : IsBestOf(q, T)
  BY <1>1, BestLevelExists
<1>3. p \in Int /\ q \in Int /\ ~BetterPrice(OppositeSide(incoming.side), p, q)
  BY <1>1, <1>2, PriceAssumption DEF IsBestOf
<1>4. incoming \in IncomingOrder /\ (incoming.has_limit_price => incoming.limit_price \in Int)
  BY PriceAssumption DEF ConsistencyInv, WellTyped, MatchingDone
<1>5. Crosses(incoming, q)
  BY <1>3, <1>4 DEF Crosses, BetterPrice, OppositeSide
<1>6. CanEnter(q)
  BY <1>2, <1>5 DEF CanEnter, T
<1> QED BY <1>1, <1>2, <1>6 DEF MatchingDone

\* Entering the best level ahead: what is better than it has been swept.
LEMMA EnterKeepsSwept ==
  ASSUME ConsistencyInv, SweptAreOwn, enterLevel
  PROVE  SweptAreOwn'
<1>1. /\ incoming # None /\ LevelSwept /\ UNCHANGED <<levels, order_index>>
  BY DEF enterLevel
<1>2. PICK p \in Price : CanEnter(p) /\ incoming' = [incoming EXCEPT !.level_price = p, !.pos = 1]
  BY Zenon DEF enterLevel
<1>3. incoming \in IncomingOrder
  BY <1>1 DEF ConsistencyInv, WellTyped
<1>4. /\ incoming'.level_price = p /\ incoming'.pos = 1
      /\ incoming'.side = incoming.side /\ incoming'.client_id = incoming.client_id
      /\ incoming'.leaves_qty = incoming.leaves_qty
  BY <1>2, <1>3 DEF IncomingOrder
<1>5. incoming.leaves_qty > 0 /\ IsBestOf(p, LevelsAhead)
  BY <1>2 DEF CanEnter
<1>6. ASSUME NEW o \in DOMAIN order_index,
             BookSide(order_index[o].side) = OppositeSide(incoming.side),
             BetterPrice(OppositeSide(incoming.side), order_index[o].price, p)
      PROVE  order_index[o].client_id = incoming.client_id
  BY <1>1, <1>5, <1>6, SweptOrAhead DEF IsBestOf
<1>7. OppositeLevels' = OppositeLevels /\ OppositeSide(incoming'.side) = OppositeSide(incoming.side)
  BY <1>1, <1>4 DEF OppositeLevels
<1>8. OppositeLevels[p] \in Seq(OrderId)
  BY DEF ConsistencyInv, WellTyped, OppositeLevels, OppositeSide
<1>9. \A k \in DOMAIN OppositeLevels[p] : ~(k < 1)
  BY <1>8, LenProperties
<1> QED BY <1>1, <1>4, <1>6, <1>7, <1>9 DEF SweptAreOwn

\* A skipped order is the client's own, or nothing is left.
LEMMA SkipKeepsSwept ==
  ASSUME ConsistencyInv, SweptAreOwn, skipNode
  PROVE  SweptAreOwn'
<1>1. /\ incoming # None /\ ~LevelSwept /\ incoming.level_price # None /\ ~CanFill
      /\ UNCHANGED <<levels, order_index>>
      /\ incoming' = [incoming EXCEPT !.pos = incoming.pos + 1]
  BY DEF skipNode
<1>2. incoming \in IncomingOrder /\ incoming.pos \in Nat
  BY <1>1 DEF ConsistencyInv, WellTyped, IncomingOrder
<1>3. /\ incoming'.level_price = incoming.level_price /\ incoming'.pos = incoming.pos + 1
      /\ incoming'.side = incoming.side /\ incoming'.client_id = incoming.client_id
      /\ incoming'.leaves_qty = incoming.leaves_qty
  BY <1>1, <1>2 DEF IncomingOrder
<1>4. OppositeLevels' = OppositeLevels /\ OppositeSide(incoming'.side) = OppositeSide(incoming.side)
  BY <1>1, <1>3 DEF OppositeLevels
<1> DEFINE list == OppositeLevels[incoming.level_price]
<1>5. incoming.pos \in DOMAIN list /\ list[incoming.pos] = Node
  BY <1>1, NodeIsIndexed DEF Node
<1>6. list \in Seq(OrderId)
  BY <1>1, <1>2 DEF ConsistencyInv, WellTyped, OppositeLevels, OppositeSide, IncomingOrder
<1>7. \A k \in DOMAIN list : k < incoming.pos + 1 => k < incoming.pos \/ k = incoming.pos
  BY <1>2, <1>6, LenProperties
<1>8. ASSUME incoming.leaves_qty > 0, NEW k \in DOMAIN list, k < incoming.pos + 1
      PROVE  order_index[list[k]].client_id = incoming.client_id
  <2>1. CASE k < incoming.pos
    BY <1>1, <1>8, <2>1 DEF SweptAreOwn
  <2>2. CASE k = incoming.pos
    BY <1>1, <1>5, <1>8, <2>2 DEF CanFill
  <2> QED BY <1>7, <1>8, <2>1, <2>2
<1>9. ASSUME incoming.leaves_qty > 0, NEW o \in DOMAIN order_index,
             BookSide(order_index[o].side) = OppositeSide(incoming.side),
             BetterPrice(OppositeSide(incoming.side), order_index[o].price, incoming.level_price)
      PROVE  order_index[o].client_id = incoming.client_id
  BY <1>1, <1>9 DEF SweptAreOwn
<1> QED BY <1>1, <1>3, <1>4, <1>8, <1>9 DEF SweptAreOwn

\* A filled order disappears from behind nothing: the cursor stays on its position.
LEMMA FillKeepsSwept ==
  ASSUME ConsistencyInv, SweptAreOwn, fillNodeFully
  PROVE  SweptAreOwn'
<1> DEFINE node == order_index[Node]
           list == OppositeLevels[incoming.level_price]
           bs == OppositeSide(incoming.side)
<1>1. /\ incoming # None /\ ~LevelSwept /\ incoming.level_price # None /\ CanFill
      /\ incoming' = [incoming EXCEPT !.leaves_qty = incoming.leaves_qty - node.qty]
      /\ levels' = UnlinkedLevels(Node) /\ order_index' = IndexWithout(Node)
  BY DEF fillNodeFully, removeOrder
<1>2. /\ incoming \in IncomingOrder /\ incoming.level_price \in Price
      /\ bs \in {"BUY", "SELL"}
      /\ incoming.pos \in DOMAIN list /\ Node \in DOMAIN order_index
      /\ BookSide(node.side) = bs /\ node.price = incoming.level_price
      /\ PositionOf(Node) = incoming.pos
  BY <1>1, NodeIsIndexed
<1>3. /\ incoming'.level_price = incoming.level_price /\ incoming'.pos = incoming.pos
      /\ incoming'.side = incoming.side /\ incoming'.client_id = incoming.client_id
  BY <1>1, <1>2 DEF IncomingOrder
<1>4. /\ order_index' = [o \in DOMAIN order_index \ {Node} |-> order_index[o]]
      /\ levels' = [levels EXCEPT ![bs][incoming.level_price] = Unlinked(@, incoming.pos)]
  <2>1. /\ UnlinkedLevels(Node) =
             [levels EXCEPT ![BookSide(node.side)][node.price] = Unlinked(@, PositionOf(Node))]
        /\ IndexWithout(Node) = [o \in DOMAIN order_index \ {Node} |-> order_index[o]]
    BY <1>2, RemoveEffect, Zenon DEF ConsistencyInv
  <2> QED BY <1>1, <1>2, <2>1
<1>5. list \in Seq(OrderId) /\ levels \in Levels
  BY <1>2 DEF ConsistencyInv, WellTyped, OppositeLevels, Levels
<1>6. OppositeLevels'[incoming.level_price] = Unlinked(list, incoming.pos)
  <2>1. OppositeLevels' = levels'[bs] /\ list = levels[bs][incoming.level_price]
    BY <1>3 DEF OppositeLevels
  <2> QED BY <1>2, <1>4, <1>5, <2>1 DEF Levels
<1>7. /\ incoming.pos \in 1 .. Len(list) /\ DOMAIN list = 1 .. Len(list) /\ Len(list) \in Nat
  BY <1>2, <1>5, LenProperties
<1>8. /\ Unlinked(list, incoming.pos) \in Seq(OrderId)
      /\ Len(Unlinked(list, incoming.pos)) = Len(list) - 1
      /\ \A i \in 1 .. (Len(list) - 1) :
           Unlinked(list, incoming.pos)[i] = IF i < incoming.pos THEN list[i] ELSE list[i + 1]
  BY <1>5, <1>7, UnlinkedProperties
<1>9. DOMAIN Unlinked(list, incoming.pos) = 1 .. (Len(list) - 1)
  BY <1>8, LenProperties
<1>10. incoming.leaves_qty > 0
  BY <1>1 DEF CanFill
<1>11. ASSUME NEW o \in DOMAIN order_index', BookSide(order_index'[o].side) = bs,
              BetterPrice(bs, order_index'[o].price, incoming.level_price)
       PROVE  order_index'[o].client_id = incoming.client_id
  <2>1. o \in DOMAIN order_index /\ order_index'[o] = order_index[o]
    BY <1>4
  <2> QED BY <1>1, <1>10, <1>11, <2>1 DEF SweptAreOwn
<1>12. ASSUME NEW k \in 1 .. (Len(list) - 1), k < incoming.pos
       PROVE  order_index'[Unlinked(list, incoming.pos)[k]].client_id = incoming.client_id
  <2>1. Unlinked(list, incoming.pos)[k] = list[k] /\ k \in DOMAIN list /\ k # incoming.pos
    BY <1>7, <1>8, <1>12
  <2>2. order_index[list[k]].client_id = incoming.client_id
    BY <1>1, <1>10, <1>12, <2>1 DEF SweptAreOwn
  <2>3. list[k] \in DOMAIN order_index /\ list[k] # Node
    <3>1. /\ list[k] \in DOMAIN order_index
          /\ \A j \in DOMAIN list : list[j] = list[k] => j = k
      <4>1. Consistent(levels, order_index) /\ bs \in {"BUY", "SELL"}
        BY <1>2 DEF ConsistencyInv, BookConsistent
      <4>2. list = levels[bs][incoming.level_price] /\ incoming.level_price \in Price
        BY <1>2 DEF OppositeLevels
      <4> HIDE DEF list, bs
      <4>3. SoundAt(levels[bs][incoming.level_price], order_index, bs, incoming.level_price, k)
        BY <4>1, <4>2, <2>1, LevelOrders, Zenon
      <4> QED BY <4>2, <4>3 DEF SoundAt
    <3> QED BY <1>2, <2>1, <3>1 DEF Node
  <2> QED BY <1>4, <2>1, <2>2, <2>3
<1> HIDE DEF list, bs, node
<1>13. OppositeSide(incoming'.side) = bs
  BY <1>3 DEF bs
<1> QED BY <1>3, <1>6, <1>9, <1>11, <1>12, <1>13 DEF SweptAreOwn

\* Every step but the one that rests a remainder.
LEMMA MatchingBringsNoNewOrder ==
  ASSUME ConsistencyInv, matchIncoming \/ cancelRemainder \/ completelyFilled
  PROVE  NoNewOrder
<1>1. CASE UNCHANGED order_index
  BY <1>1 DEF NoNewOrder
<1>2. CASE fillNodeFully
  <2>1. /\ incoming # None /\ ~LevelSwept /\ incoming.level_price # None
        /\ order_index' = IndexWithout(Node)
    BY <1>2 DEF fillNodeFully, removeOrder
  <2>2. Node \in DOMAIN order_index
    BY <2>1, NodeIsIndexed
  <2>3. order_index' = [o \in DOMAIN order_index \ {Node} |-> order_index[o]]
    BY <2>1, <2>2, RemoveEffect, Zenon DEF ConsistencyInv
  <2> QED BY <2>3 DEF NoNewOrder
<1>3. CASE fillNodePartly
  <2>1. PICK q : order_index' = [order_index EXCEPT ![Node].qty = q]
    BY <1>3, Zenon DEF fillNodePartly
  <2>2. order_index \in [DOMAIN order_index -> BookOrder]
    BY DEF ConsistencyInv, WellTyped
  <2> QED BY <2>1, <2>2 DEF NoNewOrder, BookOrder
<1> QED BY <1>1, <1>2, <1>3, Zenon
        DEF matchIncoming, enterLevel, skipNode, cancelRemainder, completelyFilled

\* Requests: an order is added only by resting its remainder later.
LEMMA RequestBringsNoNewOrder ==
  ASSUME ConsistencyInv, NEW req \in Request, processRequest(req)
  PROVE  NoNewOrder
<1> DEFINE id == req.order_id
           order == order_index[id]
<1>1. CASE UNCHANGED order_index
  BY <1>1 DEF NoNewOrder
<1>2. order_index \in [DOMAIN order_index -> BookOrder]
  BY DEF ConsistencyInv, WellTyped
<1>3. ASSUME OwnsResting(req)
      PROVE  /\ id \in DOMAIN order_index
             /\ IndexWithout(id) = [o \in DOMAIN order_index \ {id} |-> order_index[o]]
  BY <1>3, RemoveEffect, Zenon DEF ConsistencyInv, OwnsResting
<1>4. CASE OwnsResting(req) /\ order_index' = IndexWithout(id)
  BY <1>3, <1>4 DEF NoNewOrder
<1>5. CASE ~BadModify(req) /\ decreaseOrder(req, order)
  <2>1. order_index' = [order_index EXCEPT ![id].qty = req.qty, ![id].original_qty = req.qty]
    BY <1>5 DEF decreaseOrder
  <2> QED BY <1>2, <2>1 DEF NoNewOrder, BookOrder
<1>6. CASE ~BadModify(req) /\ increaseOrder(req, order)
  <2> DEFINE larger == [order EXCEPT !.qty = req.qty, !.original_qty = req.qty]
  <2>1. order_index' = Rested(IndexWithout(id), id, larger)
    BY <1>6 DEF increaseOrder, restOrder
  <2>2. OwnsResting(req) /\ order \in BookOrder
    BY <1>2, <1>6, <1>3 DEF BadModify
  <2>3. /\ larger.side = order.side /\ larger.price = order.price
        /\ larger.client_id = order.client_id
    BY <2>2 DEF BookOrder
  <2> HIDE DEF larger
  <2> QED BY <1>3, <2>1, <2>2, <2>3 DEF Rested, NoNewOrder
<1>7. CASE addLimitOrder(req) \/ addMarketOrder(req) \/ addIOCOrder(req)
  BY <1>1, <1>7, Zenon DEF addLimitOrder, addMarketOrder, addIOCOrder, AddOrder, Reject
<1>8. CASE cancelOrder(req)
  BY <1>1, <1>4, <1>8 DEF cancelOrder, Reject, removeOrder
<1>9. CASE modifyOrder(req)
  <2>1. CASE Reject("MODIFY_REJECTED", req)
    BY <1>1, <2>1 DEF Reject
  <2>2. CASE ~BadModify(req) /\ repriceOrder(req, order)
    BY <1>4, <2>2 DEF repriceOrder, removeOrder, BadModify
  <2>3. CASE ~BadModify(req) /\ keepOrder(req, order)
    BY <1>1, <2>3 DEF keepOrder
  <2> QED BY <1>5, <1>6, <1>9, <2>1, <2>2, <2>3 DEF modifyOrder
<1>10. CASE Reject("REJECTED", req)
  BY <1>1, <1>10 DEF Reject
<1> QED BY <1>7, <1>8, <1>9, <1>10 DEF processRequest

\* The remainder rests at a price that crosses only orders of its own client.
LEMMA RestKeepsCrossing ==
  ASSUME ConsistencyInv, SweptAreOwn, CrossedOnlyBySelf, restRemainder
  PROVE  CrossedOnlyBySelf'
<1> DEFINE id == incoming.order_id
           order == [client_id |-> incoming.client_id, side |-> incoming.side,
                     price |-> incoming.limit_price,
                     original_qty |-> incoming.qty, qty |-> incoming.leaves_qty]
<1>1. /\ MatchingDone /\ incoming # None /\ incoming.leaves_qty > 0 /\ incoming.rests
      /\ order_index' = Rested(order_index, id, order)
  BY DEF restRemainder, restOrder, MatchingDone
<1>2. /\ DOMAIN order_index' = DOMAIN order_index \cup {id}
      /\ order_index'[id] = order
      /\ \A o \in DOMAIN order_index : o # id => order_index'[o] = order_index[o]
  BY <1>1 DEF Rested
<1>3. /\ order.client_id = incoming.client_id /\ order.side = incoming.side
      /\ order.price = incoming.limit_price
  OBVIOUS
<1> HIDE DEF order, id
<1>4. /\ incoming \in IncomingOrder /\ incoming.has_limit_price
      /\ incoming.limit_price \in Int
  BY <1>1, PriceAssumption DEF ConsistencyInv, WellTyped
<1>5. \A o \in DOMAIN order_index : order_index[o].price \in Int
  BY PriceAssumption DEF ConsistencyInv, WellTyped, BookOrder
<1>6. ASSUME NEW b \in DOMAIN order_index', NEW a \in DOMAIN order_index',
             BookSide(order_index'[b].side) = "BUY", BookSide(order_index'[a].side) = "SELL",
             order_index'[b].price >= order_index'[a].price
      PROVE  order_index'[b].client_id = order_index'[a].client_id
  <2>1. CASE b # id /\ a # id
    BY <1>2, <1>6, <2>1 DEF CrossedOnlyBySelf
  <2>2. CASE b = id /\ a # id
    <3>1. a \in DOMAIN order_index /\ order_index'[a] = order_index[a]
      BY <1>2, <2>2
    <3>2. incoming.side = "BUY"
      BY <1>2, <1>3, <1>6, <2>2 DEF BookSide
    <3>3. Crosses(incoming, order_index[a].price)
      BY <1>2, <1>3, <1>4, <1>5, <1>6, <2>2, <3>1, <3>2 DEF Crosses
    <3>4. BookSide(order_index[a].side) = OppositeSide(incoming.side)
      BY <1>6, <3>1, <3>2 DEF OppositeSide
    <3> QED BY <1>1, <1>2, <1>3, <2>2, <3>1, <3>3, <3>4, NothingLeftToTrade
  <2>3. CASE a = id /\ b # id
    <3>1. b \in DOMAIN order_index /\ order_index'[b] = order_index[b]
      BY <1>2, <2>3
    <3>2. incoming.side # "BUY"
      BY <1>2, <1>3, <1>6, <2>3 DEF BookSide
    <3>3. Crosses(incoming, order_index[b].price)
      BY <1>2, <1>3, <1>4, <1>5, <1>6, <2>3, <3>1, <3>2 DEF Crosses
    <3>4. BookSide(order_index[b].side) = OppositeSide(incoming.side)
      BY <1>6, <3>1, <3>2 DEF OppositeSide
    <3> QED BY <1>1, <1>2, <1>3, <2>3, <3>1, <3>3, <3>4, NothingLeftToTrade
  <2>4. CASE a = id /\ b = id
    BY <1>6, <2>4
  <2> QED BY <2>1, <2>2, <2>3, <2>4
<1> QED BY <1>6 DEF CrossedOnlyBySelf

\* A request leaves nothing in matching, or an order that has entered no level.
LEMMA StartsBeforeFirstLevel ==
  ASSUME NEW req \in Request, processRequest(req)
  PROVE  incoming' = None \/ incoming'.level_price = None
<1>1. incoming = None
  BY DEF processRequest
<1>2. ASSUME NEW c, NEW o, NEW side, NEW p, NEW limited, NEW rests, NEW q,
             StartMatching(c, o, side, p, limited, rests, q)
      PROVE  incoming'.level_price = None
  BY <1>2 DEF StartMatching
<1>3. CASE addLimitOrder(req) \/ addMarketOrder(req) \/ addIOCOrder(req)
  BY <1>1, <1>2, <1>3, Zenon DEF addLimitOrder, addMarketOrder, addIOCOrder, AddOrder, Reject
<1>4. CASE cancelOrder(req)
  BY <1>1, <1>4 DEF cancelOrder, Reject
<1>5. CASE modifyOrder(req)
  BY <1>1, <1>2, <1>5, Zenon DEF modifyOrder, repriceOrder, decreaseOrder, increaseOrder, keepOrder, Reject
<1>6. CASE Reject("REJECTED", req)
  BY <1>1, <1>6 DEF Reject
<1> QED BY <1>3, <1>4, <1>5, <1>6 DEF processRequest

\* While nothing is being matched, or no level has been entered, nothing is behind
\* the cursor; a partial fill leaves no quantity.
LEMMA OtherStepsKeepSwept ==
  ASSUME ConsistencyInv,
         \/ fillNodePartly \/ restRemainder \/ cancelRemainder \/ completelyFilled
         \/ \E req \in Request : processRequest(req)
  PROVE  SweptAreOwn'
<1>1. CASE fillNodePartly
  <2> DEFINE node == order_index[Node]
             fill_qty == MinQty(incoming.leaves_qty, node.qty)
  <2>1. /\ incoming # None /\ ~LevelSwept /\ incoming.level_price # None /\ fill_qty < node.qty
        /\ incoming' = [incoming EXCEPT !.leaves_qty = incoming.leaves_qty - fill_qty,
                                        !.pos = incoming.pos + 1]
    BY <1>1 DEF fillNodePartly
  <2>2. incoming \in IncomingOrder /\ node \in BookOrder
    BY <2>1, NodeIsIndexed
  <2>3. incoming.leaves_qty - fill_qty = 0
    BY <2>1, <2>2 DEF MinQty, IncomingOrder, BookOrder
  <2>4. incoming'.leaves_qty = 0
    <3> HIDE DEF fill_qty
    <3> QED BY <2>1, <2>2, <2>3 DEF IncomingOrder
  <2> QED BY <2>4 DEF SweptAreOwn
<1>2. CASE restRemainder \/ cancelRemainder \/ completelyFilled
  BY <1>2 DEF restRemainder, cancelRemainder, completelyFilled, SweptAreOwn
<1>3. ASSUME NEW req \in Request, processRequest(req)
      PROVE  SweptAreOwn'
  <2>1. incoming' = None \/ incoming'.level_price = None
    BY <1>3, StartsBeforeFirstLevel
  <2> QED BY <2>1 DEF SweptAreOwn
<1> QED BY <1>1, <1>2, <1>3

\* CrossedOnlyBySelf and SweptAreOwn are inductive together, given
\* BookStaysConsistent: a remainder rests only when the cursor has everything it
\* could have traded with behind it.
LEMMA CrossingInvariant == Spec => [](CrossedOnlyBySelf /\ SweptAreOwn)
<1> DEFINE Inv == CrossedOnlyBySelf /\ SweptAreOwn
<1>1. Init => Inv
  BY DEF Init, CrossedOnlyBySelf, SweptAreOwn
<1>2. ConsistencyInv /\ Inv /\ [Next]_vars => Inv'
  <2> SUFFICES ASSUME ConsistencyInv, CrossedOnlyBySelf, SweptAreOwn, [Next]_vars
               PROVE  CrossedOnlyBySelf' /\ SweptAreOwn'
    OBVIOUS
  <2>1. CASE enterLevel
    BY <2>1, EnterKeepsSwept, MatchingBringsNoNewOrder, NoNewOrderKeepsCrossing DEF matchIncoming
  <2>2. CASE skipNode
    BY <2>2, SkipKeepsSwept, MatchingBringsNoNewOrder, NoNewOrderKeepsCrossing DEF matchIncoming
  <2>3. CASE fillNodeFully
    BY <2>3, FillKeepsSwept, MatchingBringsNoNewOrder, NoNewOrderKeepsCrossing DEF matchIncoming
  <2>4. CASE fillNodePartly
    BY <2>4, OtherStepsKeepSwept, MatchingBringsNoNewOrder, NoNewOrderKeepsCrossing DEF matchIncoming
  <2>5. CASE cancelRemainder \/ completelyFilled
    BY <2>5, OtherStepsKeepSwept, MatchingBringsNoNewOrder, NoNewOrderKeepsCrossing
  <2>6. CASE restRemainder
    BY <2>6, OtherStepsKeepSwept, RestKeepsCrossing
  <2>7. CASE \E req \in Request : processRequest(req)
    BY <2>7, OtherStepsKeepSwept, RequestBringsNoNewOrder, NoNewOrderKeepsCrossing
  <2>8. CASE UNCHANGED vars
    <3>1. /\ levels' = levels /\ order_index' = order_index /\ incoming' = incoming
          /\ OppositeLevels' = OppositeLevels
      BY <2>8 DEF vars, OppositeLevels
    <3>2. CrossedOnlyBySelf'
      BY <3>1 DEF CrossedOnlyBySelf
    <3>3. SweptAreOwn'
      BY <3>1 DEF SweptAreOwn
    <3> QED BY <3>2, <3>3
  <2> QED BY <2>1, <2>2, <2>3, <2>4, <2>5, <2>6, <2>7, <2>8 DEF Next, Matching, matchIncoming
<1>3. Spec => []ConsistencyInv
  BY BookStaysConsistent, PTL DEF ConsistencyInv
<1> QED BY <1>1, <1>2, <1>3, PTL DEF Spec

\* The book is never crossed between two clients: matchIncoming visits every level
\* and every order it must, whatever it removes on the way, so an order only ever
\* rests opposite orders of its own client.
THEOREM BookNeverCrossedByOthers == Spec => []CrossedOnlyBySelf
BY CrossingInvariant, PTL

\* While quantity is left, matchIncoming has only orders of the incoming order's own
\* client behind its cursor: no removal under the cursor makes it pass over anybody.
THEOREM NobodyIsPassedOver == Spec => []SweptAreOwn
BY CrossingInvariant, PTL

(***************************************************************************)
(* The sweep never turns back.                                             *)
(***************************************************************************)
\* Entering a level: the first one, or one strictly worse than the last.
LEMMA EnterLevelAdvances ==
  ASSUME ConsistencyInv, enterLevel
  PROVE  AdvancingStep
<1>1. PICK p \in Price :
        CanEnter(p) /\ incoming' = [incoming EXCEPT !.level_price = p, !.pos = 1]
  BY Zenon DEF enterLevel
<1>2. incoming # None /\ incoming \in IncomingOrder
  BY DEF enterLevel, ConsistencyInv, WellTyped
<1>3. incoming'.level_price = p
  BY <1>1, <1>2 DEF IncomingOrder
<1>4. incoming.level_price # None =>
        BetterPrice(OppositeSide(incoming.side), incoming.level_price, p)
  BY <1>1 DEF CanEnter, IsBestOf, LevelsAhead
<1>5. p # None /\ p \in Int
  BY PriceAssumption
<1>6. incoming.level_price # None => incoming.level_price # p
  <2> SUFFICES ASSUME incoming.level_price # None, incoming.level_price = p PROVE FALSE
    OBVIOUS
  <2>1. BetterPrice(OppositeSide(incoming.side), p, p)
    BY <1>4
  <2> QED BY <2>1, <1>5 DEF BetterPrice
<1> QED BY <1>3, <1>4, <1>5, <1>6 DEF AdvancingStep

\* Passing a resting order that stays, skipped or filled in part.
LEMMA PassingNodeAdvances ==
  ASSUME ConsistencyInv, skipNode \/ fillNodePartly
  PROVE  AdvancingStep
<1>1. incoming # None /\ ~LevelSwept /\ incoming.level_price # None /\ levels' = levels
  BY DEF skipNode, fillNodePartly
<1>2. /\ incoming \in IncomingOrder
      /\ OppositeSide(incoming.side) \in {"BUY", "SELL"} /\ incoming.level_price \in Price
  BY <1>1, NodeIsIndexed
<1>3. /\ incoming'.pos = incoming.pos + 1 /\ incoming'.side = incoming.side
      /\ incoming'.level_price = incoming.level_price
  BY <1>2, Zenon DEF skipNode, fillNodePartly, IncomingOrder
<1>4. OppositeLevels'[incoming'.level_price] = OppositeLevels[incoming.level_price]
  BY <1>1, <1>3 DEF OppositeLevels
<1>5. Len(OppositeLevels[incoming.level_price]) \in Nat /\ incoming.pos \in Nat
  <2>1. OppositeLevels[incoming.level_price] \in Seq(OrderId)
    BY <1>2 DEF OppositeLevels, ConsistencyInv, WellTyped
  <2> QED BY <2>1, <1>2 DEF IncomingOrder
<1>6. ToLevelEnd' < ToLevelEnd
  BY <1>3, <1>4, <1>5 DEF ToLevelEnd
<1> QED BY <1>1, <1>3, <1>6 DEF AdvancingStep

\* Removing the order at the cursor makes the level shorter.
LEMMA RemovingNodeAdvances ==
  ASSUME ConsistencyInv, fillNodeFully
  PROVE  AdvancingStep
<1> DEFINE bs == OppositeSide(incoming.side)
           p == incoming.level_price
           list == levels[bs][p]
<1>1. /\ incoming # None /\ ~LevelSwept /\ p # None
      /\ incoming' = [incoming EXCEPT !.leaves_qty = incoming.leaves_qty - order_index[Node].qty]
      /\ levels' = UnlinkedLevels(Node)
  BY DEF fillNodeFully, removeOrder
<1>2. /\ incoming \in IncomingOrder /\ p \in Price /\ bs \in {"BUY", "SELL"}
      /\ Node \in DOMAIN order_index
      /\ BookSide(order_index[Node].side) = bs /\ order_index[Node].price = p
  BY <1>1, NodeIsIndexed
<1>3. /\ incoming'.pos = incoming.pos /\ incoming'.side = incoming.side
      /\ incoming'.level_price = p
  BY <1>1, <1>2 DEF IncomingOrder
<1>4. LevelOf(Node) = list
  BY <1>2 DEF LevelOf
<1>5. /\ PositionOf(Node) \in DOMAIN list
      /\ levels' = [levels EXCEPT ![bs][p] = Unlinked(@, PositionOf(Node))]
  BY <1>1, <1>2, <1>4, RemoveEffect, Zenon DEF ConsistencyInv
<1>6. levels \in [{"BUY", "SELL"} -> [Price -> Seq(OrderId)]] /\ list \in Seq(OrderId)
  BY <1>2 DEF ConsistencyInv, WellTyped
<1>7. levels'[bs][p] = Unlinked(list, PositionOf(Node))
  BY <1>2, <1>5, <1>6
<1>8. Len(Unlinked(list, PositionOf(Node))) = Len(list) - 1
  <2>1. PositionOf(Node) \in 1 .. Len(list)
    BY <1>5, <1>6
  <2> QED BY <2>1, <1>6, UnlinkedProperties
<1>9. ToLevelEnd' < ToLevelEnd
  <2>1. ToLevelEnd' = Len(levels'[bs][p]) - incoming.pos
    BY <1>3 DEF ToLevelEnd, OppositeLevels
  <2>2. ToLevelEnd = Len(list) - incoming.pos
    BY DEF ToLevelEnd, OppositeLevels
  <2>3. Len(list) \in Nat /\ incoming.pos \in Nat
    BY <1>2, <1>6 DEF IncomingOrder
  <2>4. Len(levels'[bs][p]) = Len(list) - 1
    BY <1>7, <1>8
  <2> HIDE DEF bs, p, list
  <2> QED BY <2>1, <2>2, <2>3, <2>4
<1> QED BY <1>1, <1>3, <1>9 DEF AdvancingStep

\* SweepAdvances holds of every behaviour: the pair of the levels still ahead and the
\* distance to the end of the current one decreases with every step of a sweep, so for a
\* finite number of levels matchIncoming terminates.
THEOREM SweepNeverTurnsBack == Spec => SweepAdvances
<1>1. ConsistencyInv /\ [Next]_vars => [AdvancingStep]_vars
  <2> SUFFICES ASSUME ConsistencyInv, Next PROVE AdvancingStep
    OBVIOUS
  <2>1. CASE matchIncoming
    BY <2>1, EnterLevelAdvances, PassingNodeAdvances, RemovingNodeAdvances DEF matchIncoming
  <2>2. CASE restRemainder \/ cancelRemainder \/ completelyFilled
    BY <2>2 DEF restRemainder, cancelRemainder, completelyFilled, AdvancingStep
  <2>3. CASE \E req \in Request : processRequest(req)
    BY <2>3 DEF processRequest, AdvancingStep
  <2> QED BY <2>1, <2>2, <2>3 DEF Next, Matching
<1>2. ConsistencyInv <=> WellTyped /\ BookConsistent /\ IncomingOutsideBook
  BY DEF ConsistencyInv
<1> QED BY <1>1, <1>2, BookStaysConsistent, PTL DEF Spec, SweepAdvances

(***************************************************************************)
(* Time priority: what unlinking and appending do to it.                   *)
(***************************************************************************)
Ahead(lvls, x, y) ==
  \E bs \in {"BUY", "SELL"}, p \in Price : \E i, j \in DOMAIN lvls[bs][p] :
    i < j /\ lvls[bs][p][i] = x /\ lvls[bs][p][j] = y

\* The new position of what stood at position i before the k-th element was unlinked.
LEMMA UnlinkedPositions ==
  ASSUME NEW S, NEW s \in Seq(S), NEW k \in 1 .. Len(s), NEW i \in DOMAIN s, i # k
  PROVE  /\ (IF i < k THEN i ELSE i - 1) \in DOMAIN Unlinked(s, k)
         /\ Unlinked(s, k)[IF i < k THEN i ELSE i - 1] = s[i]
<1> DEFINE t == Unlinked(s, k)
<1>1. /\ t \in Seq(S) /\ Len(t) = Len(s) - 1
      /\ \A n \in 1 .. (Len(s) - 1) : t[n] = IF n < k THEN s[n] ELSE s[n + 1]
  BY UnlinkedProperties
<1> HIDE DEF t
<1>2. i \in 1 .. Len(s) /\ Len(s) \in Nat /\ DOMAIN t = 1 .. (Len(s) - 1)
  BY <1>1, LenProperties
<1>3. CASE i < k
  <2>1. i \in 1 .. (Len(s) - 1)
    BY <1>2, <1>3
  <2> QED BY <1>1, <1>2, <1>3, <2>1 DEF t
<1>4. CASE i > k
  <2>1. i - 1 \in 1 .. (Len(s) - 1) /\ ~(i - 1 < k) /\ ~(i < k) /\ (i - 1) + 1 = i
    BY <1>2, <1>4
  <2>2. t[i - 1] = s[i]
    BY <1>1, <2>1
  <2> QED BY <1>2, <2>1, <2>2 DEF t
<1> QED BY <1>2, <1>3, <1>4

\* And the old position of what stands at position i afterwards.
LEMMA UnlinkedOrigins ==
  ASSUME NEW S, NEW s \in Seq(S), NEW k \in 1 .. Len(s), NEW i \in DOMAIN Unlinked(s, k)
  PROVE  /\ i \in Nat
         /\ (IF i < k THEN i ELSE i + 1) \in DOMAIN s
         /\ (IF i < k THEN i ELSE i + 1) # k
         /\ Unlinked(s, k)[i] = s[IF i < k THEN i ELSE i + 1]
<1> DEFINE t == Unlinked(s, k)
<1>1. /\ t \in Seq(S) /\ Len(t) = Len(s) - 1
      /\ \A n \in 1 .. (Len(s) - 1) : t[n] = IF n < k THEN s[n] ELSE s[n + 1]
  BY UnlinkedProperties
<1> HIDE DEF t
<1>2. Len(s) \in Nat /\ DOMAIN t = 1 .. (Len(s) - 1) /\ DOMAIN s = 1 .. Len(s)
  BY <1>1, LenProperties
<1>3. i \in 1 .. (Len(s) - 1)
  BY <1>2 DEF t
<1>4. CASE i < k
  BY <1>1, <1>2, <1>3, <1>4 DEF t
<1>5. CASE ~(i < k)
  BY <1>1, <1>2, <1>3, <1>5 DEF t
<1> QED BY <1>4, <1>5

\* The time priorities of L2 are those of L1 without the ones id is part of.
AheadWithout(L1, L2, id) ==
  \A x, y : Ahead(L2, x, y) <=> Ahead(L1, x, y) /\ x # id /\ y # id

\* removeOrder leaves the time priority between the others as it was.
LEMMA UnlinkAhead ==
  ASSUME NEW lvls \in Levels, NEW index, IsIndex(index), Consistent(lvls, index),
         NEW id \in DOMAIN index, NEW bs, bs = BookSide(index[id].side),
         NEW p, p = index[id].price,
         NEW k \in DOMAIN lvls[bs][p], lvls[bs][p][k] = id
  PROVE  AheadWithout(lvls, [lvls EXCEPT ![bs][p] = Unlinked(@, k)], id)
<1> DEFINE s == lvls[bs][p]
           t == Unlinked(s, k)
           L2 == [lvls EXCEPT ![bs][p] = t]
<1>0. bs \in {"BUY", "SELL"} /\ p \in Price
  BY BookSideType DEF IsIndex, BookOrder
<1>1. s \in Seq(OrderId) /\ k \in 1 .. Len(s) /\ DOMAIN s = 1 .. Len(s) /\ Len(s) \in Nat
  BY <1>0, LenProperties DEF Levels
<1>2. /\ L2[bs][p] = t
      /\ \A b \in {"BUY", "SELL"}, q \in Price : <<b, q>> # <<bs, p>> => L2[b][q] = lvls[b][q]
  BY <1>0 DEF Levels
<1>3. ASSUME NEW b \in {"BUY", "SELL"}, NEW q \in Price, NEW i \in DOMAIN lvls[b][q],
             lvls[b][q][i] = id
      PROVE  b = bs /\ q = p /\ i = k
  <2>1. SoundAt(lvls[b][q], index, b, q, i) /\ SoundAt(lvls[bs][p], index, bs, p, k)
    BY <1>0, LevelOrders, Zenon
  <2>2. b = bs /\ q = p
    BY <1>3, <2>1 DEF SoundAt
  <2>3. \A j \in DOMAIN lvls[bs][p] : lvls[bs][p][j] = lvls[bs][p][k] => j = k
    BY <2>1 DEF SoundAt
  <2> QED BY <1>3, <2>2, <2>3
<1>p. \A i \in DOMAIN s : i # k =>
        /\ (IF i < k THEN i ELSE i - 1) \in DOMAIN t
        /\ t[IF i < k THEN i ELSE i - 1] = s[i]
  <2> HIDE DEF s
  <2> QED BY <1>1, UnlinkedPositions
<1>o. \A i \in DOMAIN t :
        /\ i \in Nat /\ (IF i < k THEN i ELSE i + 1) \in DOMAIN s
        /\ (IF i < k THEN i ELSE i + 1) # k /\ t[i] = s[IF i < k THEN i ELSE i + 1]
  <2> HIDE DEF s
  <2> QED BY <1>1, UnlinkedOrigins
<1>s. s = lvls[bs][p]
  OBVIOUS
<1> HIDE DEF s, t, L2
<1>4. ASSUME NEW x, NEW y, Ahead(L2, x, y)
      PROVE  Ahead(lvls, x, y) /\ x # id /\ y # id
  <2>1. PICK b \in {"BUY", "SELL"}, q \in Price :
          \E i, j \in DOMAIN L2[b][q] : i < j /\ L2[b][q][i] = x /\ L2[b][q][j] = y
    BY <1>4 DEF Ahead
  <2>2. PICK i \in DOMAIN L2[b][q], j \in DOMAIN L2[b][q] :
          i < j /\ L2[b][q][i] = x /\ L2[b][q][j] = y
    BY <2>1
  <2>3. CASE <<b, q>> # <<bs, p>>
    <3>1. L2[b][q] = lvls[b][q]
      BY <1>2, <2>3
    <3>2. x # id /\ y # id
      BY <1>3, <2>2, <2>3, <3>1
    <3> QED BY <2>2, <3>1, <3>2 DEF Ahead
  <2>4. CASE <<b, q>> = <<bs, p>>
    <3> DEFINE ii == IF i < k THEN i ELSE i + 1
               jj == IF j < k THEN j ELSE j + 1
    <3>1. i \in DOMAIN t /\ j \in DOMAIN t /\ t[i] = x /\ t[j] = y
      BY <1>2, <2>2, <2>4
    <3>2. /\ ii \in DOMAIN s /\ ii # k /\ s[ii] = x /\ i \in Nat
          /\ jj \in DOMAIN s /\ jj # k /\ s[jj] = y /\ j \in Nat
      BY <1>o, <3>1
    <3>3. ii < jj
      BY <1>1, <2>2, <3>2
    <3> HIDE DEF ii, jj
    <3>4. x # id /\ y # id
      BY <1>0, <1>3, <1>s, <3>2
    <3> QED BY <1>0, <1>s, <3>2, <3>3, <3>4 DEF Ahead
  <2> QED BY <2>3, <2>4
<1>5. ASSUME NEW x, NEW y, Ahead(lvls, x, y), x # id, y # id
      PROVE  Ahead(L2, x, y)
  <2>1. PICK b \in {"BUY", "SELL"}, q \in Price :
          \E i, j \in DOMAIN lvls[b][q] : i < j /\ lvls[b][q][i] = x /\ lvls[b][q][j] = y
    BY <1>5 DEF Ahead
  <2>2. PICK i \in DOMAIN lvls[b][q], j \in DOMAIN lvls[b][q] :
          i < j /\ lvls[b][q][i] = x /\ lvls[b][q][j] = y
    BY <2>1
  <2>3. CASE <<b, q>> # <<bs, p>>
    <3>1. L2[b][q] = lvls[b][q]
      BY <1>2, <2>3
    <3> QED BY <2>2, <3>1 DEF Ahead
  <2>4. CASE <<b, q>> = <<bs, p>>
    <3> DEFINE ii == IF i < k THEN i ELSE i - 1
               jj == IF j < k THEN j ELSE j - 1
    <3>1. i \in DOMAIN s /\ j \in DOMAIN s /\ s[i] = x /\ s[j] = y /\ i # k /\ j # k /\ i < j
      BY <1>s, <1>5, <2>2, <2>4
    <3>2. ii \in DOMAIN t /\ t[ii] = x /\ jj \in DOMAIN t /\ t[jj] = y
      BY <1>p, <3>1
    <3>3. ii < jj
      BY <1>1, <3>1
    <3> HIDE DEF ii, jj
    <3> QED BY <1>0, <1>2, <3>2, <3>3 DEF Ahead
  <2> QED BY <2>3, <2>4
<1>6. AheadWithout(lvls, L2, id)
  BY <1>4, <1>5 DEF AheadWithout
<1> QED BY <1>6 DEF L2, t, s

\* restOrder puts the order behind everybody in its level, and changes nothing else.
LEMMA AppendAhead ==
  ASSUME NEW lvls \in Levels, NEW index, IsIndex(index), Consistent(lvls, index),
         NEW id, NEW order \in BookOrder, id \notin DOMAIN index, NEW x, NEW y
  PROVE  Ahead(Appended(lvls, id, order), x, y) <=>
           \/ Ahead(lvls, x, y)
           \/ /\ y = id /\ x \in DOMAIN index
              /\ BookSide(index[x].side) = BookSide(order.side) /\ index[x].price = order.price
<1> DEFINE bs == BookSide(order.side)
           p == order.price
           s == lvls[bs][p]
           t == Append(s, id)
           L2 == Appended(lvls, id, order)
<1>1. bs \in {"BUY", "SELL"} /\ p \in Price /\ s \in Seq(OrderId)
  BY BookSideType DEF BookOrder, Levels
<1>2. /\ Len(s) \in Nat /\ DOMAIN s = 1 .. Len(s) /\ DOMAIN t = 1 .. (Len(s) + 1)
      /\ t[Len(s) + 1] = id
      /\ \A i \in 1 .. Len(s) : t[i] = s[i]
  BY <1>1
<1> HIDE DEF t
<1>3. /\ L2[bs][p] = t
      /\ \A b \in {"BUY", "SELL"}, q \in Price : <<b, q>> # <<bs, p>> => L2[b][q] = lvls[b][q]
  <2>1. L2 = [lvls EXCEPT ![bs][p] = t]
    BY DEF Appended, t
  <2> QED BY <1>1, <2>1 DEF Levels
<1>4. \A b \in {"BUY", "SELL"}, q \in Price : \A i \in DOMAIN lvls[b][q] :
        SoundAt(lvls[b][q], index, b, q, i)
  BY LevelOrders, Zenon
<1>s. s = lvls[bs][p] /\ bs = BookSide(order.side) /\ p = order.price
  OBVIOUS
<1> HIDE DEF s, L2, bs, p
<1>5. ASSUME Ahead(L2, x, y)
      PROVE  \/ Ahead(lvls, x, y)
             \/ y = id /\ x \in DOMAIN index /\ BookSide(index[x].side) = bs /\ index[x].price = p
  <2>1. PICK b \in {"BUY", "SELL"}, q \in Price :
          \E i, j \in DOMAIN L2[b][q] : i < j /\ L2[b][q][i] = x /\ L2[b][q][j] = y
    BY <1>5 DEF Ahead
  <2>2. PICK i \in DOMAIN L2[b][q], j \in DOMAIN L2[b][q] :
          i < j /\ L2[b][q][i] = x /\ L2[b][q][j] = y
    BY <2>1
  <2>3. CASE <<b, q>> # <<bs, p>>
    <3>1. L2[b][q] = lvls[b][q]
      BY <1>3, <2>3
    <3> QED BY <2>2, <3>1 DEF Ahead
  <2>4. CASE <<b, q>> = <<bs, p>>
    <3>1. i \in 1 .. (Len(s) + 1) /\ j \in 1 .. (Len(s) + 1) /\ i < j /\ t[i] = x /\ t[j] = y
      BY <1>2, <1>3, <2>2, <2>4
    <3>2. i \in DOMAIN s /\ s[i] = x
      BY <1>2, <3>1
    <3>3. CASE j = Len(s) + 1
      <4>1. SoundAt(s, index, bs, p, i)
        BY <1>1, <1>4, <1>s, <3>2
      <4> QED BY <1>2, <3>1, <3>2, <3>3, <4>1 DEF SoundAt
    <3>4. CASE j # Len(s) + 1
      <4>1. j \in DOMAIN s /\ s[j] = y
        BY <1>2, <3>1, <3>4
      <4> QED BY <1>1, <1>s, <3>1, <3>2, <4>1 DEF Ahead
    <3> QED BY <3>3, <3>4
  <2> QED BY <2>3, <2>4
<1>6. ASSUME Ahead(lvls, x, y)
      PROVE  Ahead(L2, x, y)
  <2>1. PICK b \in {"BUY", "SELL"}, q \in Price :
          \E i, j \in DOMAIN lvls[b][q] : i < j /\ lvls[b][q][i] = x /\ lvls[b][q][j] = y
    BY <1>6 DEF Ahead
  <2>2. PICK i \in DOMAIN lvls[b][q], j \in DOMAIN lvls[b][q] :
          i < j /\ lvls[b][q][i] = x /\ lvls[b][q][j] = y
    BY <2>1
  <2>3. CASE <<b, q>> # <<bs, p>>
    <3>1. L2[b][q] = lvls[b][q]
      BY <1>3, <2>3
    <3> QED BY <2>2, <3>1 DEF Ahead
  <2>4. CASE <<b, q>> = <<bs, p>>
    <3>1. i \in 1 .. Len(s) /\ j \in 1 .. Len(s) /\ i < j /\ s[i] = x /\ s[j] = y
      BY <1>2, <1>s, <2>2, <2>4
    <3>2. i \in DOMAIN t /\ j \in DOMAIN t /\ t[i] = x /\ t[j] = y
      BY <1>2, <3>1
    <3> QED BY <1>1, <1>3, <3>1, <3>2 DEF Ahead
  <2> QED BY <2>3, <2>4
<1>7. ASSUME y = id, x \in DOMAIN index, BookSide(index[x].side) = bs, index[x].price = p
      PROVE  Ahead(L2, x, y)
  <2>1. PICK k \in DOMAIN s : s[k] = x
    <3>1. \E k \in DOMAIN lvls[BookSide(index[x].side)][index[x].price] :
            lvls[BookSide(index[x].side)][index[x].price][k] = x
      BY <1>7 DEF Consistent
    <3> QED BY <1>7, <1>s, <3>1
  <2>2. /\ k \in DOMAIN t /\ Len(s) + 1 \in DOMAIN t /\ k < Len(s) + 1
        /\ t[k] = x /\ t[Len(s) + 1] = y
    BY <1>2, <1>7, <2>1
  <2> QED BY <1>1, <1>3, <2>2 DEF Ahead
<1> QED BY <1>5, <1>6, <1>7, <1>s DEF L2

(***************************************************************************)
(* The refinement mapping as operators, and its value before and after a   *)
(* step.                                                                   *)
(***************************************************************************)
AsResting(order) ==
  [client |-> order.client_id, buy |-> order.side = "BUY", price |-> order.price, qty |-> order.qty]

Mapped(index) == [id \in DOMAIN index |-> AsResting(index[id])]

Pairs(lvls) == {pair \in OrderId \X OrderId : Ahead(lvls, pair[1], pair[2])}

LEMMA MappedState ==
  /\ RestingOrders = Mapped(order_index) /\ RestingOrders' = Mapped(order_index')
  /\ AheadPairs = Pairs(levels) /\ AheadPairs' = Pairs(levels')
<1>1. RestingOrders = Mapped(order_index) /\ RestingOrders' = Mapped(order_index')
  BY DEF RestingOrders, Mapped, AsResting
<1>2. AheadPairs = Pairs(levels)
  BY DEF AheadPairs, Pairs, Ahead
<1>3. AheadPairs' = Pairs(levels')
  BY DEF AheadPairs, Pairs, Ahead
<1> QED BY <1>1, <1>2, <1>3

\* Two orders stand in one level exactly when their images do.
LEMMA SameLevelMaps ==
  ASSUME NEW a \in BookOrder, NEW b \in BookOrder
  PROVE  PTM!SameLevel(AsResting(a), AsResting(b)) <=>
           BookSide(a.side) = BookSide(b.side) /\ a.price = b.price
<1>1. (AsResting(a).buy = AsResting(b).buy) <=> (BookSide(a.side) = BookSide(b.side))
  BY DEF AsResting, BookSide
<1>2. AsResting(a).price = a.price /\ AsResting(b).price = b.price
  BY DEF AsResting
<1> QED BY <1>1, <1>2 DEF PTM!SameLevel

\* removeOrder takes an order out of the abstract book.
LEMMA LeaveMaps ==
  ASSUME ConsistencyInv, NEW id \in DOMAIN order_index
  PROVE  /\ Mapped(IndexWithout(id)) = PTM!Without(id)
         /\ Pairs(UnlinkedLevels(id)) = PTM!Forget(id)
<1> DEFINE bs == BookSide(order_index[id].side)
           p == order_index[id].price
           k == PositionOf(id)
           L2 == UnlinkedLevels(id)
<1>1. /\ k \in DOMAIN LevelOf(id) /\ LevelOf(id)[k] = id
      /\ L2 = [levels EXCEPT ![bs][p] = Unlinked(@, k)]
      /\ IndexWithout(id) = [o \in DOMAIN order_index \ {id} |-> order_index[o]]
  BY RemoveEffect DEF ConsistencyInv
<1>2. /\ levels \in Levels /\ IsIndex(order_index) /\ Consistent(levels, order_index)
      /\ bs = BookSide(order_index[id].side) /\ p = order_index[id].price
  BY ConsistencyParts
<1>3. k \in DOMAIN levels[bs][p] /\ levels[bs][p][k] = id
  BY <1>1 DEF LevelOf
<1>4. Mapped(IndexWithout(id)) = PTM!Without(id)
  BY <1>1, MappedState DEF Mapped, PTM!Without
<1> HIDE DEF bs, p, k, L2
<1>5. AheadWithout(levels, L2, id)
  <2> DEFINE L == [levels EXCEPT ![bs][p] = Unlinked(@, k)]
  <2>1. AheadWithout(levels, L, id)
    BY <1>2, <1>3, UnlinkAhead, Zenon
  <2> QED BY <1>1, <2>1
<1>6. PTM!Forget(id) = {pair \in Pairs(levels) : pair[1] # id /\ pair[2] # id}
  BY MappedState DEF PTM!Forget
<1>7. Pairs(L2) = PTM!Forget(id)
  BY <1>5, <1>6 DEF Pairs, AheadWithout
<1> QED BY <1>4, <1>7 DEF L2

\* restOrder puts one in, behind everybody of its level.
LEMMA JoinMaps ==
  ASSUME NEW lvls \in Levels, NEW index, IsIndex(index), Consistent(lvls, index),
         NEW id \in OrderId, NEW order \in BookOrder, id \notin DOMAIN index,
         restOrder(lvls, index, id, order)
  PROVE  PTM!Join(Mapped(index), Pairs(lvls), id, AsResting(order))
<1> DEFINE rest == Mapped(index)
           new == AsResting(order)
<1>1. levels' = Appended(lvls, id, order) /\ order_index' = Rested(index, id, order)
  BY DEF restOrder
<1>2. RestingOrders' = [o \in DOMAIN rest \cup {id} |-> IF o = id THEN new ELSE rest[o]]
  BY <1>1, MappedState DEF Mapped, Rested
<1>3. \A x, y : Ahead(levels', x, y) <=>
                  \/ Ahead(lvls, x, y)
                  \/ /\ y = id /\ x \in DOMAIN index
                     /\ BookSide(index[x].side) = BookSide(order.side)
                     /\ index[x].price = order.price
  BY <1>1, AppendAhead
<1>4. \A x \in DOMAIN index : x \in OrderId /\ index[x] \in BookOrder
  BY DEF IsIndex
<1>5. \A x \in DOMAIN index : rest[x] = AsResting(index[x])
  BY DEF Mapped
<1>6. DOMAIN rest = DOMAIN index
  BY DEF Mapped
<1> HIDE DEF rest, new
<1>7. \A x \in DOMAIN index : PTM!SameLevel(rest[x], new) <=>
        BookSide(index[x].side) = BookSide(order.side) /\ index[x].price = order.price
  BY <1>4, <1>5, SameLevelMaps DEF new
<1> DEFINE behind == {<<o, id>> : o \in {o \in DOMAIN rest : PTM!SameLevel(rest[o], new)}}
<1>8. ASSUME NEW pair \in OrderId \X OrderId
      PROVE  pair \in Pairs(levels') <=> pair \in Pairs(lvls) \/ pair \in behind
  <2>1. PICK x \in OrderId, y \in OrderId : pair = <<x, y>>
    OBVIOUS
  <2>2. pair \in behind <=> y = id /\ x \in DOMAIN index /\ PTM!SameLevel(rest[x], new)
    BY <1>6, <2>1
  <2>3. /\ pair \in Pairs(levels') <=> Ahead(levels', x, y)
        /\ pair \in Pairs(lvls) <=> Ahead(lvls, x, y)
    BY <2>1 DEF Pairs
  <2> HIDE DEF behind
  <2> QED BY <1>3, <1>7, <2>2, <2>3
<1>9. behind \subseteq OrderId \X OrderId
  BY <1>4, <1>6
<1>10. Pairs(levels') \subseteq OrderId \X OrderId /\ Pairs(lvls) \subseteq OrderId \X OrderId
  BY DEF Pairs
<1>11. AheadPairs' = Pairs(lvls) \cup behind
  <2> HIDE DEF behind
  <2> QED BY <1>8, <1>9, <1>10, MappedState
<1> QED BY <1>2, <1>11 DEF PTM!Join, rest, new

AsTaker(order) ==
  [id |-> order.order_id, client |-> order.client_id, buy |-> order.side = "BUY",
   any_price |-> ~order.has_limit_price, price |-> order.limit_price,
   leaves |-> order.leaves_qty, rests |-> order.rests]

\* The order being matched is the taker, and a taker is there only while one is.
LEMMA MappedTaker ==
  /\ incoming = None => TakerOrder = None
  /\ incoming # None => TakerOrder = AsTaker(incoming)
  /\ incoming' = None => TakerOrder' = None
  /\ incoming' # None => TakerOrder' = AsTaker(incoming')
BY DEF TakerOrder, AsTaker

LEMMA TakerIsSomebody ==
  ASSUME NEW order \in IncomingOrder
  PROVE  AsTaker(order) # None /\ order # None
<1>1. order.limit_price \in Int
  BY PriceAssumption DEF IncomingOrder
<1>2. AsTaker(order) \in PTM!Taker
  BY <1>1 DEF AsTaker, IncomingOrder, PTM!Taker
<1> QED BY <1>2, NoneAssumption, NoTakerAssumption

(***************************************************************************)
(* Matching.                                                               *)
(***************************************************************************)
\* The level the cursor is in is one the incoming order may trade at.
CursorCrosses ==
  incoming # None /\ incoming.level_price # None => Crosses(incoming, incoming.level_price)

\* Whom the taker may trade with, in terms of the book.
LEMMA EligibleIs ==
  ASSUME ConsistencyInv, incoming # None, NEW n
  PROVE  n \in PTM!Eligible <=>
           /\ n \in DOMAIN order_index
           /\ BookSide(order_index[n].side) = OppositeSide(incoming.side)
           /\ order_index[n].client_id # incoming.client_id
           /\ Crosses(incoming, order_index[n].price)
<1>1. TakerOrder = AsTaker(incoming) /\ RestingOrders = Mapped(order_index)
  BY MappedTaker, MappedState
<1>2. DOMAIN RestingOrders = DOMAIN order_index
  BY <1>1 DEF Mapped
<1>3. ASSUME n \in DOMAIN order_index
      PROVE  /\ RestingOrders[n].buy # TakerOrder.buy <=>
                  BookSide(order_index[n].side) = OppositeSide(incoming.side)
             /\ RestingOrders[n].client # TakerOrder.client <=>
                  order_index[n].client_id # incoming.client_id
             /\ PTM!Accepts(TakerOrder, RestingOrders[n].price) <=>
                  Crosses(incoming, order_index[n].price)
  <2>1. RestingOrders[n] = AsResting(order_index[n])
    BY <1>1, <1>3 DEF Mapped
  <2>2. RestingOrders[n].buy # TakerOrder.buy <=>
          BookSide(order_index[n].side) = OppositeSide(incoming.side)
    BY <1>1, <2>1 DEF AsTaker, AsResting, BookSide, OppositeSide
  <2>3. /\ RestingOrders[n].client = order_index[n].client_id
        /\ RestingOrders[n].price = order_index[n].price
        /\ TakerOrder.client = incoming.client_id
    BY <1>1, <2>1 DEF AsTaker, AsResting
  <2>4. order_index[n].price \in Int /\ incoming.limit_price \in Int
        /\ incoming.has_limit_price \in BOOLEAN
    BY <1>3, PriceAssumption, Zenon DEF ConsistencyInv, WellTyped, BookOrder, IncomingOrder
  <2>5. PTM!Accepts(TakerOrder, order_index[n].price) <=> Crosses(incoming, order_index[n].price)
    <3>1. (TakerOrder.any_price <=> ~incoming.has_limit_price)
          /\ (TakerOrder.buy <=> incoming.side = "BUY")
      BY <1>1, Zenon DEF AsTaker
    <3>2. TakerOrder.price = incoming.limit_price
      BY <1>1 DEF AsTaker
    <3> QED BY <2>4, <3>1, <3>2 DEF PTM!Accepts, Crosses
  <2> QED BY <2>2, <2>3, <2>5
<1>4. n \in PTM!Eligible <=>
        /\ n \in DOMAIN RestingOrders /\ RestingOrders[n].buy # TakerOrder.buy
        /\ RestingOrders[n].client # TakerOrder.client
        /\ PTM!Accepts(TakerOrder, RestingOrders[n].price)
  BY DEF PTM!Eligible
<1> QED BY <1>2, <1>3, <1>4

\* The order at the cursor has priority over everybody the taker may trade with: what
\* is better or earlier has been swept and is the client's own.
LEMMA NodeHasPriority ==
  ASSUME ConsistencyInv, SweptAreOwn, CursorCrosses,
         incoming # None, ~LevelSwept, incoming.level_price # None, CanFill
  PROVE  /\ Node \in PTM!Eligible
         /\ \A n \in PTM!Eligible \ {Node} : PTM!Before(Node, n)
<1> DEFINE bs == OppositeSide(incoming.side)
           p == incoming.level_price
           list == OppositeLevels[p]
<1>1. /\ incoming \in IncomingOrder /\ p \in Price /\ bs \in {"BUY", "SELL"}
      /\ incoming.pos \in DOMAIN list /\ list[incoming.pos] = Node
      /\ Node \in DOMAIN order_index
      /\ BookSide(order_index[Node].side) = bs /\ order_index[Node].price = p
  BY NodeIsIndexed DEF Node
<1>2. Node \in PTM!Eligible
  <2>1. Crosses(incoming, p) /\ order_index[Node].client_id # incoming.client_id
    BY DEF CursorCrosses, CanFill
  <2> QED BY <1>1, <2>1, EligibleIs
<1>3. ASSUME NEW n \in PTM!Eligible \ {Node}
      PROVE  PTM!Before(Node, n)
  <2> DEFINE q == order_index[n].price
  <2>1. /\ n \in DOMAIN order_index /\ BookSide(order_index[n].side) = bs
        /\ order_index[n].client_id # incoming.client_id /\ n # Node
    BY <1>3, EligibleIs
  <2>2. /\ RestingOrders[n].price = q /\ RestingOrders[Node].price = p
        /\ TakerOrder.buy = (incoming.side = "BUY")
    <3>1. RestingOrders = Mapped(order_index) /\ TakerOrder = AsTaker(incoming)
      BY MappedState, MappedTaker
    <3>2. /\ Mapped(order_index)[n] = AsResting(order_index[n])
          /\ Mapped(order_index)[Node] = AsResting(order_index[Node])
      BY <1>1, <2>1 DEF Mapped
    <3>3. /\ AsResting(order_index[n]).price = q /\ AsResting(order_index[Node]).price = p
          /\ AsTaker(incoming).buy = (incoming.side = "BUY")
      BY <1>1 DEF AsResting, AsTaker
    <3> QED BY <3>1, <3>2, <3>3
  <2>3. incoming.leaves_qty > 0
    BY DEF CanFill
  <2>4. p \in Int /\ q \in Int
    BY <1>1, <2>1, PriceAssumption, OppositeLevelNonEmpty
  <2>5. ~BetterPrice(bs, q, p)
    BY <2>1, <2>3 DEF SweptAreOwn
  <2>6. CASE q = p
    <3>1. PICK k \in DOMAIN list : list[k] = n
      BY <2>1, <2>6, OppositeLevelNonEmpty
    <3>2. list \in Seq(OrderId)
      BY <1>1 DEF ConsistencyInv, WellTyped, OppositeLevels
    <3>3. k \in Int /\ incoming.pos \in Int
      BY <1>1, <3>2, LenProperties
    <3>4. ~(k < incoming.pos)
      BY <2>1, <2>3, <3>1 DEF SweptAreOwn
    <3>5. incoming.pos < k
      BY <1>1, <2>1, <3>1, <3>3, <3>4
    <3>6. Ahead(levels, Node, n)
      BY <1>1, <3>1, <3>5 DEF Ahead, OppositeLevels
    <3>7. Node \in OrderId /\ n \in OrderId
      BY <1>1, <2>1 DEF ConsistencyInv, WellTyped
    <3>8. <<Node, n>> \in AheadPairs
      BY <3>6, <3>7, MappedState DEF Pairs
    <3> QED BY <2>2, <2>6, <3>8 DEF PTM!Before
  <2>7. CASE q # p
    <3>1. BetterPrice(bs, p, q)
      BY <2>4, <2>5, <2>7 DEF BetterPrice
    <3>2. IF incoming.side = "BUY" THEN p < q ELSE p > q
      BY <3>1 DEF BetterPrice, OppositeSide
    <3> QED BY <2>2, <3>2, Zenon DEF PTM!Before
  <2> QED BY <2>6, <2>7
<1> QED BY <1>2, <1>3

\* A fill is a trade with the order that has priority.
LEMMA FullFillMaps ==
  ASSUME ConsistencyInv, SweptAreOwn, CursorCrosses, fillNodeFully
  PROVE  PTM!Trade(Node)
<1> DEFINE node == order_index[Node]
<1>1. /\ incoming # None /\ ~LevelSwept /\ incoming.level_price # None /\ CanFill
      /\ node.qty <= incoming.leaves_qty /\ removeOrder(Node)
      /\ incoming' = [incoming EXCEPT !.leaves_qty = incoming.leaves_qty - node.qty]
  BY DEF fillNodeFully
<1>2. incoming \in IncomingOrder /\ Node \in DOMAIN order_index /\ node \in BookOrder
  BY <1>1, NodeIsIndexed
<1>3. Node \in PTM!Eligible /\ \A n \in PTM!Eligible \ {Node} : PTM!Before(Node, n)
  BY <1>1, NodeHasPriority
<1>4. /\ TakerOrder = AsTaker(incoming) /\ TakerOrder # None
      /\ TakerOrder.leaves = incoming.leaves_qty /\ incoming.leaves_qty > 0
      /\ RestingOrders[Node].qty = node.qty
  BY <1>1, <1>2, MappedTaker, MappedState, TakerIsSomebody DEF AsTaker, Mapped, AsResting, CanFill
<1>5. TakerOrder' = [TakerOrder EXCEPT !.leaves = TakerOrder.leaves - RestingOrders[Node].qty]
  <2>1. incoming.leaves_qty - node.qty \in Nat
    BY <1>1, <1>2 DEF IncomingOrder, BookOrder
  <2> HIDE DEF node
  <2>2. incoming' \in IncomingOrder
    BY <1>1, <1>2, <2>1 DEF IncomingOrder
  <2>3. TakerOrder' = AsTaker(incoming')
    BY <2>2, TakerIsSomebody, MappedTaker
  <2> QED BY <1>1, <1>2, <1>4, <2>3 DEF AsTaker, IncomingOrder
<1>6. PTM!Leave(Node)
  BY <1>1, <1>2, LeaveMaps, MappedState DEF PTM!Leave, removeOrder
<1> QED BY <1>1, <1>3, <1>4, <1>5, <1>6 DEF PTM!Trade

LEMMA PartialFillMaps ==
  ASSUME ConsistencyInv, SweptAreOwn, CursorCrosses, fillNodePartly
  PROVE  PTM!Trade(Node)
<1> DEFINE node == order_index[Node]
           fill_qty == MinQty(incoming.leaves_qty, node.qty)
<1>1. /\ incoming # None /\ ~LevelSwept /\ incoming.level_price # None /\ CanFill
      /\ fill_qty < node.qty /\ levels' = levels
      /\ incoming' = [incoming EXCEPT !.leaves_qty = incoming.leaves_qty - fill_qty,
                                      !.pos = incoming.pos + 1]
      /\ order_index' = [order_index EXCEPT ![Node].qty = order_index[Node].qty - fill_qty]
  BY DEF fillNodePartly
<1>2. incoming \in IncomingOrder /\ Node \in DOMAIN order_index /\ node \in BookOrder
  BY <1>1, NodeIsIndexed
<1>3. Node \in PTM!Eligible /\ \A n \in PTM!Eligible \ {Node} : PTM!Before(Node, n)
  BY <1>1, NodeHasPriority
<1>4. fill_qty = incoming.leaves_qty /\ incoming.leaves_qty < node.qty
      /\ incoming.leaves_qty - fill_qty = 0
  BY <1>1, <1>2 DEF MinQty, IncomingOrder, BookOrder
<1>5. /\ TakerOrder = AsTaker(incoming) /\ TakerOrder # None
      /\ TakerOrder.leaves = incoming.leaves_qty /\ incoming.leaves_qty > 0
      /\ RestingOrders[Node].qty = node.qty
      /\ RestingOrders = Mapped(order_index) /\ RestingOrders' = Mapped(order_index')
      /\ AheadPairs' = AheadPairs
  BY <1>1, <1>2, MappedTaker, MappedState, TakerIsSomebody DEF AsTaker, Mapped, AsResting, CanFill
<1> HIDE DEF fill_qty
<1>6. TakerOrder' = [TakerOrder EXCEPT !.leaves = 0]
  <2>1. /\ incoming'.order_id = incoming.order_id /\ incoming'.client_id = incoming.client_id
        /\ incoming'.side = incoming.side /\ incoming'.rests = incoming.rests
        /\ incoming'.has_limit_price = incoming.has_limit_price
        /\ incoming'.limit_price = incoming.limit_price /\ incoming'.leaves_qty = 0
    BY <1>1, <1>2, <1>4 DEF IncomingOrder
  <2>2. incoming' # None
    <3> DEFINE filled == [incoming EXCEPT !.leaves_qty = 0]
    <3>1. filled \in IncomingOrder /\ incoming' = [filled EXCEPT !.pos = incoming.pos + 1]
      BY <1>1, <1>2, <1>4, Zenon DEF IncomingOrder
    <3>2. incoming.pos + 1 \in Nat \ {0}
      BY <1>2 DEF IncomingOrder
    <3> HIDE DEF filled
    <3>3. incoming' \in IncomingOrder
      BY <3>1, <3>2 DEF IncomingOrder
    <3> QED BY <3>3, TakerIsSomebody
  <2> QED BY <1>5, <2>1, <2>2, MappedTaker DEF AsTaker
<1>7. RestingOrders' = [RestingOrders EXCEPT ![Node].qty = RestingOrders[Node].qty - TakerOrder.leaves]
  <2>1. /\ DOMAIN order_index' = DOMAIN order_index
        /\ order_index'[Node].client_id = node.client_id /\ order_index'[Node].side = node.side
        /\ order_index'[Node].price = node.price
        /\ order_index'[Node].qty = node.qty - incoming.leaves_qty
        /\ \A o \in DOMAIN order_index : o # Node => order_index'[o] = order_index[o]
    BY <1>1, <1>2, <1>4 DEF BookOrder
  <2>2. AsResting(order_index'[Node]) =
          [AsResting(order_index[Node]) EXCEPT !.qty = node.qty - incoming.leaves_qty]
    BY <2>1 DEF AsResting
  <2> QED BY <1>2, <1>5, <2>1, <2>2 DEF Mapped
<1>8. ~(RestingOrders[Node].qty <= TakerOrder.leaves)
  BY <1>2, <1>4, <1>5 DEF IncomingOrder, BookOrder
<1> QED BY <1>3, <1>5, <1>6, <1>7, <1>8, Zenon DEF PTM!Trade

\* Entering a level and passing an order are invisible.
LEMMA MovingIsInvisible ==
  ASSUME ConsistencyInv, enterLevel \/ skipNode
  PROVE  UNCHANGED PTM!vars
<1>1. incoming # None /\ incoming \in IncomingOrder /\ UNCHANGED <<levels, order_index>>
  BY Zenon DEF enterLevel, skipNode, ConsistencyInv, WellTyped
<1>2. /\ incoming'.order_id = incoming.order_id /\ incoming'.client_id = incoming.client_id
      /\ incoming'.side = incoming.side /\ incoming'.rests = incoming.rests
      /\ incoming'.has_limit_price = incoming.has_limit_price
      /\ incoming'.limit_price = incoming.limit_price
      /\ incoming'.leaves_qty = incoming.leaves_qty
  BY <1>1, Zenon DEF enterLevel, skipNode, IncomingOrder
<1>3. incoming' # None
  <2>1. CASE enterLevel
    <3>1. PICK p \in Price : incoming' = [incoming EXCEPT !.level_price = p, !.pos = 1]
      BY <2>1, Zenon DEF enterLevel
    <3> DEFINE entered == [incoming EXCEPT !.level_price = p]
    <3>2. entered \in IncomingOrder /\ incoming' = [entered EXCEPT !.pos = 1]
      BY <1>1, <3>1 DEF IncomingOrder
    <3> HIDE DEF entered
    <3>3. incoming' \in IncomingOrder
      BY <3>2 DEF IncomingOrder
    <3> QED BY <3>3, TakerIsSomebody
  <2>2. CASE skipNode
    <3>1. incoming' \in IncomingOrder
      BY <1>1, <2>2 DEF skipNode, IncomingOrder
    <3> QED BY <3>1, TakerIsSomebody
  <2> QED BY <2>1, <2>2
<1>4. TakerOrder' = TakerOrder
  BY <1>1, <1>2, <1>3, MappedTaker DEF AsTaker
<1> QED BY <1>1, <1>4, MappedState DEF PTM!vars

\* Matching ends when nothing is left of the order, or nobody to trade with.
LEMMA FinishMaps ==
  ASSUME ConsistencyInv, SweptAreOwn, restRemainder \/ cancelRemainder \/ completelyFilled
  PROVE  PTM!Finish
<1>1. MatchingDone /\ incoming # None /\ incoming' = None
  BY DEF restRemainder, cancelRemainder, completelyFilled, MatchingDone
<1>2. incoming \in IncomingOrder
  BY <1>1 DEF ConsistencyInv, WellTyped
<1>3. /\ TakerOrder = AsTaker(incoming) /\ TakerOrder # None /\ TakerOrder' = None
      /\ TakerOrder.leaves = incoming.leaves_qty
  <2>1. TakerOrder = AsTaker(incoming) /\ TakerOrder' = None
    BY <1>1, MappedTaker
  <2>2. AsTaker(incoming) # None
    BY <1>2, TakerIsSomebody
  <2>3. AsTaker(incoming).leaves = incoming.leaves_qty
    BY DEF AsTaker
  <2> QED BY <2>1, <2>2, <2>3
<1>4. TakerOrder.leaves = 0 \/ PTM!Eligible = {}
  <2>1. incoming.leaves_qty = 0 \/ incoming.leaves_qty > 0
    BY <1>2 DEF IncomingOrder
  <2>2. CASE incoming.leaves_qty > 0
    <3>1. ASSUME NEW n \in PTM!Eligible
          PROVE  FALSE
      BY <1>1, <2>2, <3>1, EligibleIs, NothingLeftToTrade
    <3> QED BY <3>1
  <2> QED BY <1>3, <2>1, <2>2
<1>5. CASE restRemainder
  <2> DEFINE order == [client_id |-> incoming.client_id, side |-> incoming.side,
                       price |-> incoming.limit_price,
                       original_qty |-> incoming.qty, qty |-> incoming.leaves_qty]
             id == incoming.order_id
  <2>1. /\ incoming.leaves_qty > 0 /\ incoming.rests
        /\ restOrder(levels, order_index, id, order)
    BY <1>5 DEF restRemainder
  <2>2. incoming.limit_price \in Price
    BY <1>1, <2>1 DEF ConsistencyInv, WellTyped
  <2>3. order \in BookOrder /\ id \in OrderId /\ id \notin DOMAIN order_index
    BY <1>1, <1>2, <2>2 DEF IncomingOrder, BookOrder, ConsistencyInv, IncomingOutsideBook
  <2>4. /\ TakerOrder.id = id /\ TakerOrder.rests
        /\ AsResting(order) = [client |-> TakerOrder.client, buy |-> TakerOrder.buy,
                               price |-> TakerOrder.price, qty |-> TakerOrder.leaves]
    <3>1. TakerOrder.rests = incoming.rests
      BY <1>3 DEF AsTaker
    <3>2. TakerOrder.rests
      BY <2>1, <3>1
    <3> QED BY <1>3, <3>2 DEF AsTaker, AsResting
  <2> HIDE DEF order, id
  <2>5. PTM!Join(Mapped(order_index), Pairs(levels), id, AsResting(order))
    BY <2>1, <2>3, ConsistencyParts, JoinMaps
  <2>6. PTM!Join(RestingOrders, AheadPairs, TakerOrder.id,
                 [client |-> TakerOrder.client, buy |-> TakerOrder.buy,
                  price |-> TakerOrder.price, qty |-> TakerOrder.leaves])
    BY <2>4, <2>5, MappedState, Zenon
  <2>7. TakerOrder.leaves > 0 /\ TakerOrder.rests
    BY <1>3, <2>1, <2>4
  <2> QED BY <1>3, <1>4, <2>6, <2>7, Zenon DEF PTM!Finish
<1>6. CASE cancelRemainder \/ completelyFilled
  <2>1. UNCHANGED <<levels, order_index>>
    BY <1>6 DEF cancelRemainder, completelyFilled
  <2>2. UNCHANGED <<RestingOrders, AheadPairs>>
    BY <2>1, MappedState
  <2>3. ~(incoming.leaves_qty > 0 /\ incoming.rests)
    BY <1>6 DEF cancelRemainder, completelyFilled
  <2>4. TakerOrder.rests <=> incoming.rests
    BY <1>3, Zenon DEF AsTaker
  <2>5. ~(TakerOrder.leaves > 0 /\ TakerOrder.rests)
    BY <1>3, <2>3, <2>4
  <2> QED BY <1>3, <1>4, <2>2, <2>5, Zenon DEF PTM!Finish
<1> QED BY <1>5, <1>6

(***************************************************************************)
(* Requests.                                                               *)
(***************************************************************************)
TakerMade(c, o, side, price, limited, rests, qty) ==
  /\ TakerOrder' # None
  /\ TakerOrder'.id = o /\ TakerOrder'.client = c /\ TakerOrder'.leaves = qty
  /\ TakerOrder'.price = price
  /\ TakerOrder'.buy = (side = "BUY")
  /\ TakerOrder'.any_price <=> ~limited
  /\ TakerOrder'.rests <=> rests

\* A request that starts matching creates a taker.
LEMMA StartMaps ==
  ASSUME NEW c \in ClientId, NEW o \in OrderId, NEW side \in Side, NEW price,
         NEW limited \in BOOLEAN, NEW rests \in BOOLEAN, NEW qty \in Nat,
         price \in Price \cup {Invalid_Price},
         StartMatching(c, o, side, price, limited, rests, qty)
  PROVE  TakerMade(c, o, side, price, limited, rests, qty)
<1>1. incoming' \in IncomingOrder
  BY DEF StartMatching, IncomingOrder
<1>2. TakerOrder' = AsTaker(incoming') /\ TakerOrder' # None
  BY <1>1, TakerIsSomebody, MappedTaker
<1>3. /\ incoming'.order_id = o /\ incoming'.client_id = c /\ incoming'.leaves_qty = qty
      /\ incoming'.limit_price = price /\ incoming'.side = side
      /\ incoming'.has_limit_price = limited /\ incoming'.rests = rests
  BY DEF StartMatching
<1>4. /\ TakerOrder'.id = o /\ TakerOrder'.client = c /\ TakerOrder'.leaves = qty
      /\ TakerOrder'.price = price
  BY <1>2, <1>3 DEF AsTaker
<1>5. TakerOrder'.buy = (side = "BUY")
  BY <1>2, <1>3 DEF AsTaker
<1>6. /\ TakerOrder'.any_price <=> ~limited
      /\ TakerOrder'.rests <=> rests
  BY <1>2, <1>3, Zenon DEF AsTaker
<1> QED BY <1>2, <1>4, <1>5, <1>6, Zenon DEF TakerMade

LEMMA AddOrderMaps ==
  ASSUME ConsistencyInv, NEW req \in Request, incoming = None, req.qty > 0,
         NEW price, NEW limited \in BOOLEAN, NEW rests \in BOOLEAN,
         price \in Price \cup {Invalid_Price},
         AddOrder(req, price, limited, rests)
  PROVE  PTM!Accept \/ UNCHANGED PTM!vars
<1>1. /\ req.client_id \in ClientId /\ req.order_id \in OrderId /\ req.side \in Side
      /\ req.qty \in Nat
  BY RequestAssumption
<1>2. UNCHANGED <<levels, order_index>>
  BY DEF AddOrder, Reject
<1>3. UNCHANGED <<RestingOrders, AheadPairs>>
  BY <1>2, MappedState
<1>4. CASE incoming' = incoming
  BY <1>3, <1>4, MappedTaker DEF PTM!vars
<1>5. CASE /\ req.order_id \notin DOMAIN order_index
           /\ StartMatching(req.client_id, req.order_id, req.side, price, limited, rests, req.qty)
  <2>1. TakerOrder' # None /\ TakerOrder'.id = req.order_id /\ TakerOrder'.leaves = req.qty
    <3>1. TakerMade(req.client_id, req.order_id, req.side, price, limited, rests, req.qty)
      BY <1>1, <1>5, StartMaps, Zenon
    <3> QED BY <3>1, Zenon DEF TakerMade
  <2>2. req.order_id \notin DOMAIN RestingOrders /\ TakerOrder = None
    BY <1>5, MappedState, MappedTaker DEF Mapped
  <2> QED BY <1>3, <2>1, <2>2 DEF PTM!Accept
<1> QED BY <1>4, <1>5 DEF AddOrder, Reject

\* modifyOrder: re-pricing makes the order a taker, a smaller quantity keeps its
\* place, a larger one loses it.
LEMMA ModifyMaps ==
  ASSUME ConsistencyInv, NEW req \in Request, incoming = None, modifyOrder(req)
  PROVE  \/ UNCHANGED PTM!vars
         \/ /\ req.order_id \in DOMAIN RestingOrders
            /\ \/ PTM!Reduce(req.order_id) \/ PTM!Enlarge(req.order_id) \/ PTM!Reprice(req.order_id)
<1> DEFINE id == req.order_id
           order == order_index[id]
<1>1. CASE UNCHANGED <<levels, order_index, incoming>>
  BY <1>1, MappedState, MappedTaker DEF PTM!vars
<1>2. CASE Reject("MODIFY_REJECTED", req) \/ keepOrder(req, order)
  BY <1>1, <1>2 DEF Reject, keepOrder
<1>3. ASSUME ~BadModify(req)
      PROVE  /\ id \in DOMAIN order_index /\ order \in BookOrder /\ order.client_id = req.client_id
             /\ req.client_id \in ClientId /\ id \in OrderId /\ req.price \in Price
             /\ req.qty \in Nat /\ req.qty > 0
             /\ id \in DOMAIN RestingOrders /\ RestingOrders[id] = AsResting(order)
             /\ TakerOrder = None
  <2>1. id \in DOMAIN order_index /\ order.client_id = req.client_id
    BY <1>3 DEF BadModify, OwnsResting
  <2>2. order \in BookOrder
    BY <2>1 DEF ConsistencyInv, WellTyped
  <2>3. /\ req.client_id \in ClientId /\ id \in OrderId /\ req.price \in Price
        /\ req.qty \in Nat /\ req.qty > 0
    BY <1>3, RequestAssumption DEF BadModify
  <2>4. /\ id \in DOMAIN RestingOrders /\ RestingOrders[id] = AsResting(order) /\ TakerOrder = None
    BY <2>1, MappedState, MappedTaker DEF Mapped
  <2> QED BY <2>1, <2>2, <2>3, <2>4
<1>4. CASE ~BadModify(req) /\ repriceOrder(req, order)
  <2>1. /\ req.price # order.price /\ removeOrder(id)
        /\ StartMatching(req.client_id, id, order.side, req.price, TRUE, TRUE, req.qty)
    BY <1>4, Zenon DEF repriceOrder
  <2>2. order.side \in Side
    BY <1>3, <1>4 DEF BookOrder
  <2> HIDE DEF order, id
  <2>3. TakerMade(req.client_id, id, order.side, req.price, TRUE, TRUE, req.qty)
    BY <1>3, <1>4, <2>1, <2>2, StartMaps, Zenon
  <2>4. PTM!Leave(id)
    BY <1>3, <1>4, <2>1, LeaveMaps, MappedState DEF PTM!Leave, removeOrder
  <2>5. RestingOrders[id].buy = (order.side = "BUY")
    <3>1. RestingOrders[id] = AsResting(order)
      BY <1>3, <1>4
    <3> QED BY <3>1 DEF AsResting
  <2>6. TakerOrder'.buy = RestingOrders[id].buy
    BY <2>3, <2>5, Zenon DEF TakerMade
  <2>7. RestingOrders[id].client = req.client_id /\ RestingOrders[id].price = order.price
    BY <1>3, <1>4 DEF AsResting
  <2>8. PTM!Reprice(id)
    <3>1. TakerOrder'.rests /\ ~TakerOrder'.any_price
      BY <2>3, Zenon DEF TakerMade
    <3>2. /\ TakerOrder' # None /\ TakerOrder'.id = id /\ TakerOrder'.client = req.client_id
          /\ TakerOrder'.leaves = req.qty /\ TakerOrder'.price = req.price
      BY <2>3, Zenon DEF TakerMade
    <3> QED BY <1>3, <1>4, <2>1, <2>4, <2>6, <2>7, <3>1, <3>2, Zenon DEF PTM!Reprice
  <2> QED BY <1>3, <1>4, <2>8 DEF id
<1>5. CASE ~BadModify(req) /\ decreaseOrder(req, order)
  <2>1. /\ req.qty < order.qty /\ UNCHANGED <<levels, incoming>>
        /\ order_index' = [order_index EXCEPT ![id].qty = req.qty, ![id].original_qty = req.qty]
    BY <1>5 DEF decreaseOrder
  <2>2. /\ DOMAIN order_index' = DOMAIN order_index
        /\ order_index'[id].client_id = order.client_id /\ order_index'[id].side = order.side
        /\ order_index'[id].price = order.price /\ order_index'[id].qty = req.qty
        /\ \A o \in DOMAIN order_index : o # id => order_index'[o] = order_index[o]
    BY <1>3, <1>5, <2>1 DEF BookOrder
  <2>3. AsResting(order_index'[id]) = [AsResting(order) EXCEPT !.qty = req.qty]
    BY <2>2 DEF AsResting
  <2>4. RestingOrders' = [RestingOrders EXCEPT ![id].qty = req.qty]
    BY <1>3, <1>5, <2>2, <2>3, MappedState DEF Mapped
  <2>5. AheadPairs' = AheadPairs /\ TakerOrder' = TakerOrder
    BY <2>1, MappedState, MappedTaker
  <2>6. RestingOrders[id].qty = order.qty
    BY <1>3, <1>5 DEF AsResting
  <2>7. req.qty \in 1 .. (RestingOrders[id].qty - 1)
    BY <1>3, <1>5, <2>1, <2>6 DEF BookOrder
  <2>8. PTM!Reduce(id)
    BY <1>3, <1>5, <2>4, <2>5, <2>7, Zenon DEF PTM!Reduce
  <2> QED BY <1>3, <1>5, <2>8
<1>6. CASE ~BadModify(req) /\ increaseOrder(req, order)
  <2> DEFINE larger == [order EXCEPT !.qty = req.qty, !.original_qty = req.qty]
  <2>1. /\ req.qty > order.qty /\ incoming' = incoming
        /\ restOrder(UnlinkedLevels(id), IndexWithout(id), id, larger)
    BY <1>6 DEF increaseOrder
  <2>l. /\ larger \in BookOrder /\ larger.qty = req.qty /\ larger.side = order.side
        /\ larger.price = order.price /\ larger.client_id = order.client_id
    BY <1>3, <1>6, Zenon DEF BookOrder
  <2> HIDE DEF larger
  <2>2. /\ larger \in BookOrder /\ larger.qty = req.qty
        /\ AsResting(larger) = [RestingOrders[id] EXCEPT !.qty = req.qty]
    BY <1>3, <1>6, <2>l DEF AsResting
  <2>3. /\ UnlinkedLevels(id) \in Levels /\ IsIndex(IndexWithout(id))
        /\ Consistent(UnlinkedLevels(id), IndexWithout(id)) /\ id \notin DOMAIN IndexWithout(id)
    BY <1>3, <1>6, RemoveEffect, Zenon DEF ConsistencyInv
  <2>4. PTM!Join(Mapped(IndexWithout(id)), Pairs(UnlinkedLevels(id)), id, AsResting(larger))
    BY <1>3, <1>6, <2>1, <2>2, <2>3, JoinMaps
  <2>5. PTM!Join(PTM!Without(id), PTM!Forget(id), id, AsResting(larger))
    BY <1>3, <1>6, <2>4, LeaveMaps
  <2>6. id \in DOMAIN RestingOrders' /\ RestingOrders'[id] = AsResting(larger)
    BY <2>5 DEF PTM!Join
  <2>7. RestingOrders'[id].qty = req.qty /\ RestingOrders[id].qty = order.qty
    BY <1>3, <1>6, <2>2, <2>6 DEF AsResting
  <2>8. TakerOrder' = TakerOrder
    BY <2>1, MappedTaker
  <2>9. PTM!Join(PTM!Without(id), PTM!Forget(id), id,
                 [RestingOrders[id] EXCEPT !.qty = RestingOrders'[id].qty])
    BY <2>2, <2>5, <2>7
  <2>10. PTM!Enlarge(id)
    BY <1>3, <1>6, <2>1, <2>6, <2>7, <2>8, <2>9 DEF PTM!Enlarge
  <2> QED BY <1>3, <1>6, <2>10
<1> QED BY <1>2, <1>4, <1>5, <1>6 DEF modifyOrder

\* processRequest.
LEMMA RequestMaps ==
  ASSUME ConsistencyInv, NEW req \in Request, processRequest(req)
  PROVE  PTM!Next \/ UNCHANGED PTM!vars
<1>1. incoming = None /\ req.qty \in Nat
  BY RequestAssumption DEF processRequest
<1>2. ASSUME ~Malformed(req), req.order_type \in {"LIMIT", "MARKET", "IOC"}
      PROVE  req.qty > 0
  BY <1>1, <1>2 DEF Malformed
<1>3. ASSUME ~Malformed(req), req.order_type \in {"LIMIT", "IOC"}
      PROVE  req.price \in Price
  <2>1. ~(req.price <= 0) /\ req.price \in Int
    BY <1>3, RequestAssumption DEF Malformed
  <2> QED BY <2>1, RequestAssumption
<1>4. CASE ~Malformed(req) /\ req.order_type = "LIMIT" /\ addLimitOrder(req)
  BY <1>1, <1>2, <1>3, <1>4, AddOrderMaps, Zenon DEF addLimitOrder, PTM!Next
<1>5. CASE ~Malformed(req) /\ req.order_type = "MARKET" /\ addMarketOrder(req)
  BY <1>1, <1>2, <1>5, AddOrderMaps, Zenon DEF addMarketOrder, PTM!Next
<1>6. CASE ~Malformed(req) /\ req.order_type = "IOC" /\ addIOCOrder(req)
  BY <1>1, <1>2, <1>3, <1>6, AddOrderMaps, Zenon DEF addIOCOrder, PTM!Next
<1>7. CASE modifyOrder(req)
  BY <1>1, <1>7, ModifyMaps DEF PTM!Next
<1>8. CASE UNCHANGED <<levels, order_index, incoming>>
  BY <1>8, MappedState, MappedTaker DEF PTM!vars
<1>9. CASE OwnsResting(req) /\ removeOrder(req.order_id) /\ UNCHANGED incoming
  <2>1. req.order_id \in DOMAIN order_index
    BY <1>9 DEF OwnsResting
  <2>2. PTM!Leave(req.order_id)
    BY <1>9, <2>1, LeaveMaps, MappedState DEF PTM!Leave, removeOrder
  <2>3. TakerOrder = None /\ TakerOrder' = TakerOrder /\ req.order_id \in DOMAIN RestingOrders
    BY <1>1, <1>9, <2>1, MappedTaker, MappedState DEF Mapped
  <2> QED BY <2>2, <2>3 DEF PTM!Cancel, PTM!Next
<1>10. CASE cancelOrder(req)
  BY <1>8, <1>9, <1>10 DEF cancelOrder, Reject
<1>11. CASE Reject("REJECTED", req)
  BY <1>8, <1>11 DEF Reject
<1> QED BY <1>4, <1>5, <1>6, <1>7, <1>10, <1>11 DEF processRequest

(***************************************************************************)
(* The refinement.                                                         *)
(***************************************************************************)
\* Every level matchIncoming enters is within the order's limit, and stays so: the
\* limit of an order in matching does not move.
LEMMA CursorStaysCrossing ==
  ASSUME ConsistencyInv, CursorCrosses, [Next]_vars
  PROVE  CursorCrosses'
<1>1. CASE enterLevel
  <2>1. PICK p \in Price :
          CanEnter(p) /\ incoming' = [incoming EXCEPT !.level_price = p, !.pos = 1]
    BY <1>1, Zenon DEF enterLevel
  <2>2. incoming \in IncomingOrder
    BY <1>1 DEF enterLevel, ConsistencyInv, WellTyped
  <2>3. /\ incoming'.level_price = p /\ incoming'.side = incoming.side
        /\ incoming'.has_limit_price = incoming.has_limit_price
        /\ incoming'.limit_price = incoming.limit_price
    BY <2>1, <2>2 DEF IncomingOrder
  <2> QED BY <2>1, <2>3 DEF CursorCrosses, CanEnter, Crosses
<1>2. CASE skipNode \/ fillNodeFully \/ fillNodePartly
  <2>1. incoming # None /\ incoming \in IncomingOrder
    BY <1>2 DEF skipNode, fillNodeFully, fillNodePartly, ConsistencyInv, WellTyped
  <2>2. /\ incoming'.level_price = incoming.level_price /\ incoming'.side = incoming.side
        /\ incoming'.has_limit_price = incoming.has_limit_price
        /\ incoming'.limit_price = incoming.limit_price
    BY <1>2, <2>1, Zenon DEF skipNode, fillNodeFully, fillNodePartly, IncomingOrder
  <2> QED BY <2>1, <2>2 DEF CursorCrosses, Crosses
<1>3. CASE restRemainder \/ cancelRemainder \/ completelyFilled
  BY <1>3 DEF restRemainder, cancelRemainder, completelyFilled, CursorCrosses
<1>4. ASSUME NEW req \in Request, processRequest(req)
      PROVE  CursorCrosses'
  <2>1. incoming' = None \/ incoming'.level_price = None
    BY <1>4, StartsBeforeFirstLevel
  <2> QED BY <2>1 DEF CursorCrosses
<1>5. CASE UNCHANGED vars
  BY <1>5 DEF vars, CursorCrosses, Crosses
<1> QED BY <1>1, <1>2, <1>3, <1>4, <1>5 DEF Next, Matching, matchIncoming

\* A step of the book is a step of the abstract book, or none.
LEMMA StepMaps ==
  ASSUME ConsistencyInv, SweptAreOwn, CursorCrosses, [Next]_vars
  PROVE  [PTM!Next]_(PTM!vars)
<1>1. CASE enterLevel \/ skipNode
  BY <1>1, MovingIsInvisible
<1>2. CASE fillNodeFully \/ fillNodePartly
  <2>1. PTM!Trade(Node)
    BY <1>2, FullFillMaps, PartialFillMaps
  <2>2. Node \in DOMAIN RestingOrders
    BY <2>1 DEF PTM!Trade, PTM!Eligible
  <2> QED BY <2>1, <2>2 DEF PTM!Next
<1>3. CASE restRemainder \/ cancelRemainder \/ completelyFilled
  BY <1>3, FinishMaps DEF PTM!Next
<1>4. CASE \E req \in Request : processRequest(req)
  BY <1>4, RequestMaps
<1>5. CASE UNCHANGED vars
  <2>1. UNCHANGED <<levels, order_index, incoming>>
    BY <1>5 DEF vars
  <2> QED BY <2>1, MappedState, MappedTaker DEF PTM!vars
<1> QED BY <1>1, <1>2, <1>3, <1>4, <1>5 DEF Next, Matching, matchIncoming

\* The order book implements price-time priority: through whatever requests, every
\* fill of matchIncoming is with the best-priced, earliest order of another client,
\* matching ends only when the order is filled or nobody is left for it, and
\* modifyOrder gives an order a new place exactly when its price changes or its
\* quantity grows.  The mapping forgets levels and cursor; that the forgotten steps
\* are harmless rests on SweptAreOwn.
THEOREM BookImplementsPriceTime == Spec => ImplementsPriceTime
<1>1. Init => PTM!Init
  <2> SUFFICES ASSUME Init PROVE PTM!Init
    OBVIOUS
  <2>1. RestingOrders = [o \in {} |-> None]
    BY MappedState DEF Init, Mapped
  <2>2. \A bs \in {"BUY", "SELL"}, p \in Price : DOMAIN levels[bs][p] = {}
    BY DEF Init
  <2>3. AheadPairs = {}
    BY <2>2, MappedState DEF Pairs, Ahead
  <2>4. TakerOrder = None
    BY MappedTaker DEF Init
  <2> QED BY <2>1, <2>3, <2>4 DEF PTM!Init
<1>2. Init => CursorCrosses
  BY DEF Init, CursorCrosses
<1>3. ConsistencyInv /\ CursorCrosses /\ [Next]_vars => CursorCrosses'
  BY CursorStaysCrossing
<1>4. ConsistencyInv /\ SweptAreOwn /\ CursorCrosses /\ [Next]_vars => [PTM!Next]_(PTM!vars)
  BY StepMaps
<1>5. Spec => []ConsistencyInv
  BY BookStaysConsistent, PTL DEF ConsistencyInv
<1>6. Spec => []SweptAreOwn
  BY NobodyIsPassedOver
<1> QED BY <1>1, <1>2, <1>3, <1>4, <1>5, <1>6, PTL DEF Spec, ImplementsPriceTime, PTM!Spec
===============================================================================
