--------------------------- MODULE SymbolOrderBook ---------------------------
(***************************************************************************)
(* One symbol's limit order book and the matching thread that drives it:   *)
(* MatchingCore::processRequest and the whole of SymbolOrderBook.          *)
(*                                                                         *)
(* A request is one or several steps of the matching thread.  Cancel,      *)
(* rejections and modifications in place are one step.  An order that      *)
(* matches first becomes `incoming'; then matchIncoming visits one resting *)
(* order per step, because every visit publishes responses and book        *)
(* updates that other threads may read before the next visit; last, the    *)
(* remainder rests or is cancelled.  While an order is incoming the thread *)
(* takes no other request.                                                 *)
(*                                                                         *)
(* `responses' and `updates' hold what the last step wrote to the symbol's *)
(* two output queues; modules that compose the book append them to queues. *)
(***************************************************************************)
EXTENDS Integers, Sequences

CONSTANTS
  ClientId, OrderId,
  Price,           \* the prices at which an order may rest
  Request,         \* the requests the gateway may route to this symbol
  Invalid_Price,   \* INT64_MIN in the code
  Invalid_Qty,     \* UINT64_MAX in the code
  None             \* "no order is being matched", "no level entered yet"

Side == {"INVALID", "BUY", "SELL"}
OrderType == {"INVALID", "LIMIT", "MARKET", "IOC", "CANCEL", "MODIFY"}

ASSUME PriceAssumption ==
  /\ \A p \in Price : p \in Int /\ p > 0
  /\ Invalid_Price \in Int /\ Invalid_Price \notin Price
  /\ Invalid_Qty \in Nat
  /\ None \notin Price
  /\ \E max \in Price \cup {0} : \A p \in Price : p <= max   \* int64_t is bounded

ASSUME RequestAssumption ==
  \A r \in Request :
    /\ r \in [order_type : OrderType, client_id : ClientId, order_id : OrderId,
              side : Side, price : Int, qty : Nat]
    /\ r.price > 0 => r.price \in Price
    /\ r.qty <= Invalid_Qty                                     \* the largest uint64_t

VARIABLES
  levels,          \* bids_ and asks_: the FIFO list of order ids at each price
  order_index,     \* order_index_: what rests, by order id
  incoming,        \* the order matchIncoming is working on, or None
  responses,       \* written to response_queue_ by the last step
  updates          \* written to update_queue_ by the last step

vars == <<levels, order_index, incoming, responses, updates>>

BookOrder ==
  [client_id : ClientId, side : Side, price : Price,
   original_qty : Nat, qty : Nat]

\* level_price and pos are matchIncoming's `it' and `node': the level being
\* swept and the position of the next order to visit in it.
IncomingOrder ==
  [client_id : ClientId, order_id : OrderId, side : Side,
   limit_price : Price \cup {Invalid_Price}, has_limit_price : BOOLEAN,
   rests : BOOLEAN, qty : Nat, leaves_qty : Nat,
   level_price : Price \cup {None}, pos : Nat \ {0}]

ASSUME NoneAssumption == None \notin IncomingOrder

(***************************************************************************)
(* Sides and prices.  The code tests side == BUY and treats anything else  *)
(* as a sell, an INVALID side included.                                    *)
(***************************************************************************)
BookSide(side) == IF side = "BUY" THEN "BUY" ELSE "SELL"
OppositeSide(side) == IF side = "BUY" THEN "SELL" ELSE "BUY"

\* std::greater for the bids, std::less for the asks.
BetterPrice(bs, p, q) == IF bs = "BUY" THEN p > q ELSE p < q

\* Mutant: an order at exactly the limit price does not trade.
CrossesStrictly(order, p) ==
  \/ ~order.has_limit_price
  \/ IF order.side = "BUY" THEN order.limit_price > p ELSE order.limit_price < p

Crosses(order, p) ==
  \/ ~order.has_limit_price
  \/ IF order.side = "BUY" THEN ~(order.limit_price < p) ELSE ~(order.limit_price > p)

(***************************************************************************)
(* Output events.  Fields that only repeat the symbol or the order's id    *)
(* and side are left out.                                                  *)
(***************************************************************************)
Response(status, client_id, order_id, price, exec_qty, leaves_qty) ==
  [status |-> status, client_id |-> client_id, order_id |-> order_id,
   price |-> price, exec_qty |-> exec_qty, leaves_qty |-> leaves_qty]

BookUpdate(type, order_id, side, price, qty) ==
  [type |-> type, order_id |-> order_id, side |-> side, price |-> price, qty |-> qty]

Publish(resps, upds) == responses' = resps /\ updates' = upds

(***************************************************************************)
(* Book maintenance.  An absent level of the map is an empty sequence.     *)
(***************************************************************************)
LevelOf(id) == levels[BookSide(order_index[id].side)][order_index[id].price]

PositionOf(id) == CHOOSE k \in DOMAIN LevelOf(id) : LevelOf(id)[k] = id

\* SequencesExt's RemoveAt, restated because that module's size slows the proofs.
Unlinked(list, k) == SubSeq(list, 1, k - 1) \o SubSeq(list, k + 1, Len(list))

\* removeOrder: unlink from the level and drop from the index; the defensive
\* early return when the level is missing leaves both as they are.
UnlinkedLevels(id) ==
  IF LevelOf(id) = <<>> THEN levels
  ELSE [levels EXCEPT ![BookSide(order_index[id].side)][order_index[id].price] =
                        Unlinked(@, PositionOf(id))]

\* Mutant: order_index_.erase is forgotten.
IndexNotErased(id) == order_index

IndexWithout(id) ==
  IF LevelOf(id) = <<>> THEN order_index
  ELSE [o \in DOMAIN order_index \ {id} |-> order_index[o]]

removeOrder(id) ==
  /\ levels' = UnlinkedLevels(id)
  /\ order_index' = IndexWithout(id)

\* restOrder: append at the tail of the level and enter in the index.
Rested(index, id, order) ==
  [o \in DOMAIN index \cup {id} |-> IF o = id THEN order ELSE index[o]]

\* Mutant: new orders enter at head_.
AppendedAtHead(lvls, id, order) ==
  [lvls EXCEPT ![BookSide(order.side)][order.price] = <<id>> \o @]

Appended(lvls, id, order) ==
  [lvls EXCEPT ![BookSide(order.side)][order.price] = Append(@, id)]

restOrder(lvls, index, id, order) ==
  /\ levels' = Appended(lvls, id, order)
  /\ order_index' = Rested(index, id, order)

(***************************************************************************)
(* Matching.                                                               *)
(***************************************************************************)
StartMatching(client_id, order_id, side, price, has_limit_price, rests, qty) ==
  incoming' = [client_id |-> client_id, order_id |-> order_id, side |-> side,
               limit_price |-> price, has_limit_price |-> has_limit_price,
               rests |-> rests, qty |-> qty, leaves_qty |-> qty,
               level_price |-> None, pos |-> 1]

OppositeLevels == levels[OppositeSide(incoming.side)]

\* Mutant: the outer loop starts over at begin() instead of upper_bound.
LevelsFromBegin == {p \in Price : OppositeLevels[p] # <<>>}

\* The levels from the cursor on: all of them at begin(), those strictly worse
\* than level_price at upper_bound(level_price).
LevelsAhead ==
  {p \in Price :
     /\ OppositeLevels[p] # <<>>
     /\ incoming.level_price # None =>
          BetterPrice(OppositeSide(incoming.side), incoming.level_price, p)}

IsBestOf(p, prices) ==
  /\ p \in prices
  /\ \A q \in prices : ~BetterPrice(OppositeSide(incoming.side), q, p)

\* Mutant: the inner loop stops at tail_.
LevelSweptEarly ==
  incoming.level_price # None => incoming.pos >= Len(OppositeLevels[incoming.level_price])

\* node == nullptr: the level is swept, or none has been entered yet.
LevelSwept ==
  incoming.level_price # None => incoming.pos > Len(OppositeLevels[incoming.level_price])

\* The outer loop's body starts on level p.
CanEnter(p) ==
  /\ incoming.leaves_qty > 0
  /\ IsBestOf(p, LevelsAhead)
  /\ Crosses(incoming, p)

enterLevel ==
  /\ incoming # None
  /\ LevelSwept
  /\ \E p \in Price :
       /\ CanEnter(p)
       /\ incoming' = [incoming EXCEPT !.level_price = p, !.pos = 1]
  /\ Publish(<<>>, <<>>)
  /\ UNCHANGED <<levels, order_index>>

Node == OppositeLevels[incoming.level_price][incoming.pos]

CanFill == order_index[Node].client_id # incoming.client_id /\ incoming.leaves_qty > 0

\* Self-trade prevention, or nothing left to fill: on to the next node.
skipNode ==
  /\ incoming # None
  /\ ~LevelSwept
  /\ incoming.level_price # None
  /\ ~CanFill
  /\ incoming' = [incoming EXCEPT !.pos = @ + 1]
  /\ Publish(<<>>, <<>>)
  /\ UNCHANGED <<levels, order_index>>

MinQty(a, b) == IF a <= b THEN a ELSE b

\* Mutants: one of the two reports is built before its quantity is reduced.
FillResponsesStaleNode(node, fill_qty) ==
  << Response("FILLED", incoming.client_id, incoming.order_id, node.price, fill_qty,
              incoming.leaves_qty - fill_qty),
     Response("FILLED", node.client_id, Node, node.price, fill_qty, node.qty) >>

FillResponsesStaleIncoming(node, fill_qty) ==
  << Response("FILLED", incoming.client_id, incoming.order_id, node.price, fill_qty,
              incoming.leaves_qty),
     Response("FILLED", node.client_id, Node, node.price, fill_qty, node.qty - fill_qty) >>

FillResponses(node, fill_qty) ==
  << Response("FILLED", incoming.client_id, incoming.order_id, node.price, fill_qty,
              incoming.leaves_qty - fill_qty),
     Response("FILLED", node.client_id, Node, node.price, fill_qty, node.qty - fill_qty) >>

\* The resting order is filled completely and leaves the book; its successor
\* moves up to its position.
fillNodeFully ==
  /\ incoming # None
  /\ ~LevelSwept
  /\ incoming.level_price # None
  /\ CanFill
  /\ LET node == order_index[Node] IN
       /\ node.qty <= incoming.leaves_qty
       /\ incoming' = [incoming EXCEPT !.leaves_qty = @ - node.qty]
       /\ removeOrder(Node)
       /\ Publish(FillResponses(node, node.qty),
                  << BookUpdate("TRADE", Node, node.side, node.price, node.qty),
                     BookUpdate("CANCEL", Node, node.side, node.price, 0) >>)

\* The incoming order runs out first; the resting order keeps its place.
fillNodePartly ==
  /\ incoming # None
  /\ ~LevelSwept
  /\ incoming.level_price # None
  /\ CanFill
  /\ LET node == order_index[Node]
         fill_qty == MinQty(incoming.leaves_qty, node.qty) IN
       /\ fill_qty < node.qty
       /\ incoming' = [incoming EXCEPT !.leaves_qty = @ - fill_qty, !.pos = @ + 1]
       /\ order_index' = [order_index EXCEPT ![Node].qty = @ - fill_qty]
       /\ UNCHANGED levels
       /\ Publish(FillResponses(node, fill_qty),
                  << BookUpdate("TRADE", Node, node.side, node.price, fill_qty),
                     BookUpdate("MODIFY", Node, node.side, node.price, node.qty - fill_qty) >>)

\* Both loops of matchIncoming are over.
MatchingDone ==
  /\ incoming # None
  /\ LevelSwept
  /\ ~\E p \in Price : CanEnter(p)

\* What addLimitOrder and a re-pricing modifyOrder do with the remainder.
restRemainder ==
  /\ MatchingDone
  /\ incoming.leaves_qty > 0 /\ incoming.rests
  /\ LET order == [client_id |-> incoming.client_id, side |-> incoming.side,
                   price |-> incoming.limit_price,
                   original_qty |-> incoming.qty, qty |-> incoming.leaves_qty] IN
       /\ restOrder(levels, order_index, incoming.order_id, order)
       /\ Publish(<<>>, << BookUpdate("ADD", incoming.order_id, order.side, order.price, order.qty) >>)
  /\ incoming' = None

\* exec_qty_ is the total of the order's fills.
Canceled ==
  Response("CANCELED", incoming.client_id, incoming.order_id, incoming.limit_price,
           incoming.qty - incoming.leaves_qty, incoming.leaves_qty)

\* What addMarketOrder and addIOCOrder do with it.
cancelRemainder ==
  /\ MatchingDone
  /\ incoming.leaves_qty > 0 /\ ~incoming.rests
  /\ Publish(<< Canceled >>, <<>>)
  /\ incoming' = None
  /\ UNCHANGED <<levels, order_index>>

completelyFilled ==
  /\ MatchingDone
  /\ incoming.leaves_qty = 0
  /\ Publish(<<>>, <<>>)
  /\ incoming' = None
  /\ UNCHANGED <<levels, order_index>>

(***************************************************************************)
(* Order entry.                                                            *)
(***************************************************************************)
Reject(status, req) ==
  /\ Publish(<< IF status = "REJECTED"
                THEN Response(status, req.client_id, req.order_id, req.price, 0, req.qty)
                ELSE Response(status, req.client_id, req.order_id, Invalid_Price,
                              Invalid_Qty, Invalid_Qty) >>, <<>>)
  /\ UNCHANGED <<levels, order_index, incoming>>

\* Mutant: no test whether the order id is taken.
AddOrderUnchecked(req, price, has_limit_price, rests) ==
  /\ StartMatching(req.client_id, req.order_id, req.side, price, has_limit_price, rests, req.qty)
  /\ Publish(<< Response("ACCEPTED", req.client_id, req.order_id, price, 0, req.qty) >>, <<>>)
  /\ UNCHANGED <<levels, order_index>>

\* The body shared by addLimitOrder, addMarketOrder and addIOCOrder.
AddOrder(req, price, has_limit_price, rests) ==
  \/ /\ req.order_id \in DOMAIN order_index
     /\ Reject("REJECTED", [req EXCEPT !.price = price])
  \/ /\ req.order_id \notin DOMAIN order_index
     /\ StartMatching(req.client_id, req.order_id, req.side, price, has_limit_price, rests, req.qty)
     /\ Publish(<< Response("ACCEPTED", req.client_id, req.order_id, price, 0, req.qty) >>, <<>>)
     /\ UNCHANGED <<levels, order_index>>

addLimitOrder(req)  == AddOrder(req, req.price, TRUE, TRUE)
addMarketOrder(req) == AddOrder(req, Invalid_Price, FALSE, FALSE)
addIOCOrder(req)    == AddOrder(req, req.price, TRUE, FALSE)

OwnsResting(req) ==
  /\ req.order_id \in DOMAIN order_index
  /\ order_index[req.order_id].client_id = req.client_id

cancelOrder(req) ==
  \/ ~OwnsResting(req) /\ Reject("CANCEL_REJECTED", req)
  \/ /\ OwnsResting(req)
     /\ LET order == order_index[req.order_id] IN
          /\ removeOrder(req.order_id)
          /\ Publish(<< Response("CANCELED", req.client_id, req.order_id, order.price, 0, 0) >>,
                     << BookUpdate("CANCEL", req.order_id, order.side, order.price, order.qty) >>)
     /\ UNCHANGED incoming

Modified(req, price, qty) ==
  << Response("MODIFIED", req.client_id, req.order_id, price, 0, qty) >>

BadModify(req) == ~OwnsResting(req) \/ req.qty \in {0, Invalid_Qty} \/ req.price <= 0

\* A new price: out of the book, and matched again like a fresh limit order.
\* No book update is sent for the removal.
repriceOrder(req, order) ==
  /\ req.price # order.price
  /\ removeOrder(req.order_id)
  /\ StartMatching(req.client_id, req.order_id, order.side, req.price, TRUE, TRUE, req.qty)
  /\ Publish(Modified(req, req.price, req.qty), <<>>)

\* A smaller quantity: in place.
decreaseOrder(req, order) ==
  /\ req.price = order.price /\ req.qty < order.qty
  /\ order_index' = [order_index EXCEPT ![req.order_id].qty = req.qty,
                                        ![req.order_id].original_qty = req.qty]
  /\ Publish(Modified(req, order.price, req.qty),
             << BookUpdate("MODIFY", req.order_id, order.side, order.price, req.qty) >>)
  /\ UNCHANGED <<levels, incoming>>

\* A larger quantity: to the back of the level.
increaseOrder(req, order) ==
  /\ req.price = order.price /\ req.qty > order.qty
  /\ restOrder(UnlinkedLevels(req.order_id), IndexWithout(req.order_id), req.order_id,
               [order EXCEPT !.qty = req.qty, !.original_qty = req.qty])
  /\ Publish(Modified(req, order.price, req.qty),
             << BookUpdate("MODIFY", req.order_id, order.side, order.price, req.qty) >>)
  /\ UNCHANGED incoming

keepOrder(req, order) ==
  /\ req.price = order.price /\ req.qty = order.qty
  /\ Publish(Modified(req, order.price, order.qty), <<>>)
  /\ UNCHANGED <<levels, order_index, incoming>>

modifyOrder(req) ==
  \/ BadModify(req) /\ Reject("MODIFY_REJECTED", req)
  \/ /\ ~BadModify(req)
     /\ LET order == order_index[req.order_id] IN
          \/ repriceOrder(req, order)
          \/ decreaseOrder(req, order)
          \/ increaseOrder(req, order)
          \/ keepOrder(req, order)

(***************************************************************************)
(* MatchingCore::processRequest: validate, then dispatch by order type.    *)
(***************************************************************************)
\* Mutant: Invalid_Qty passes for a quantity.
MalformedButSentinel(req) ==
  \/ req.order_type \in {"LIMIT", "MARKET", "IOC", "MODIFY"} /\ req.qty = 0
  \/ req.order_type \in {"LIMIT", "IOC", "MODIFY"} /\ req.price <= 0
  \/ req.order_type = "INVALID"

Malformed(req) ==
  \/ req.order_type \in {"LIMIT", "MARKET", "IOC", "MODIFY"} /\ req.qty \in {0, Invalid_Qty}
  \/ req.order_type \in {"LIMIT", "IOC", "MODIFY"} /\ req.price <= 0
  \/ req.order_type = "INVALID"

processRequest(req) ==
  /\ incoming = None
  /\ \/ Malformed(req) /\ Reject("REJECTED", req)
     \/ /\ ~Malformed(req)
        /\ \/ req.order_type = "LIMIT"  /\ addLimitOrder(req)
           \/ req.order_type = "MARKET" /\ addMarketOrder(req)
           \/ req.order_type = "IOC"    /\ addIOCOrder(req)
           \/ req.order_type = "CANCEL" /\ cancelOrder(req)
           \/ req.order_type = "MODIFY" /\ modifyOrder(req)

Init ==
  /\ levels = [bs \in {"BUY", "SELL"} |-> [p \in Price |-> <<>>]]
  /\ order_index = [o \in {} |-> None]
  /\ incoming = None
  /\ responses = <<>> /\ updates = <<>>

matchIncoming == enterLevel \/ skipNode \/ fillNodeFully \/ fillNodePartly

Matching == matchIncoming \/ restRemainder \/ cancelRemainder \/ completelyFilled

Next == Matching \/ \E req \in Request : processRequest(req)

Spec == Init /\ [][Next]_vars
==============================================================================
