-------------------------- MODULE PriceTimeMatching --------------------------
(***************************************************************************)
(* What a price-time priority book with self-trade prevention promises,    *)
(* with no levels, lists, cursors or events: a set of resting orders, a    *)
(* relation that says which of two orders of one level has time priority,  *)
(* and at most one taker.  SymbolOrderBook is shown to implement it.       *)
(***************************************************************************)
EXTENDS Integers

CONSTANTS ClientId, OrderId, Price, NoTaker

VARIABLES
  resting,   \* the orders in the book, by id
  ahead,     \* <<x, y>>: x trades before y (same side, same price)
  taker      \* the order being matched, or NoTaker

vars == <<resting, ahead, taker>>

Order == [client : ClientId, buy : BOOLEAN, price : Price, qty : Nat \ {0}]

\* any_price: the taker accepts every price (a market order).
Taker ==
  [id : OrderId, client : ClientId, buy : BOOLEAN, any_price : BOOLEAN,
   price : Int, leaves : Nat, rests : BOOLEAN]

SameLevel(o, q) == o.buy = q.buy /\ o.price = q.price

Accepts(t, price) ==
  t.any_price \/ IF t.buy THEN price <= t.price ELSE price >= t.price

\* An order of the other side that the taker may trade with: never one of
\* the taker's own client.
Eligible ==
  {m \in DOMAIN resting :
     /\ resting[m].buy # taker.buy
     /\ resting[m].client # taker.client
     /\ Accepts(taker, resting[m].price)}

Before(m, n) ==
  \/ IF taker.buy THEN resting[m].price < resting[n].price
                  ELSE resting[m].price > resting[n].price
  \/ resting[m].price = resting[n].price /\ <<m, n>> \in ahead

Without(id) == [o \in DOMAIN resting \ {id} |-> resting[o]]

Forget(id) == {pair \in ahead : pair[1] # id /\ pair[2] # id}

\* Joining a level means standing behind everybody who is there.
Join(rest, pairs, id, order) ==
  /\ resting' = [o \in DOMAIN rest \cup {id} |-> IF o = id THEN order ELSE rest[o]]
  /\ ahead' = pairs \cup {<<o, id>> : o \in {o \in DOMAIN rest : SameLevel(rest[o], order)}}

Leave(id) == resting' = Without(id) /\ ahead' = Forget(id)

Accept ==
  /\ taker = NoTaker
  /\ taker' # NoTaker
  /\ taker'.id \notin DOMAIN resting
  /\ taker'.leaves > 0
  /\ UNCHANGED <<resting, ahead>>

\* The taker trades with the one order that has priority over all others.
Trade(m) ==
  /\ taker # NoTaker
  /\ taker.leaves > 0
  /\ m \in Eligible
  /\ \A n \in Eligible \ {m} : Before(m, n)
  /\ IF resting[m].qty <= taker.leaves
       THEN /\ taker' = [taker EXCEPT !.leaves = @ - resting[m].qty]
            /\ Leave(m)
       ELSE /\ taker' = [taker EXCEPT !.leaves = 0]
            /\ resting' = [resting EXCEPT ![m].qty = @ - taker.leaves]
            /\ UNCHANGED ahead

\* Matching ends only when nothing is left or nobody is left to trade with.
Finish ==
  /\ taker # NoTaker
  /\ taker.leaves = 0 \/ Eligible = {}
  /\ taker' = NoTaker
  /\ IF taker.leaves > 0 /\ taker.rests
       THEN Join(resting, ahead, taker.id,
                 [client |-> taker.client, buy |-> taker.buy,
                  price |-> taker.price, qty |-> taker.leaves])
       ELSE UNCHANGED <<resting, ahead>>

Cancel(id) == taker = NoTaker /\ Leave(id) /\ UNCHANGED taker

\* A smaller quantity keeps the place.
Reduce(id) ==
  /\ taker = NoTaker
  /\ \E q \in 1 .. (resting[id].qty - 1) : resting' = [resting EXCEPT ![id].qty = q]
  /\ UNCHANGED <<ahead, taker>>

\* A larger quantity loses it.
Enlarge(id) ==
  /\ taker = NoTaker
  /\ id \in DOMAIN resting'
  /\ resting'[id].qty > resting[id].qty
  /\ Join(Without(id), Forget(id), id, [resting[id] EXCEPT !.qty = resting'[id].qty])
  /\ UNCHANGED taker

\* A new price makes it a taker again, of the same client and side.
Reprice(id) ==
  /\ taker = NoTaker
  /\ taker' # NoTaker
  /\ taker'.id = id /\ taker'.rests /\ ~taker'.any_price
  /\ taker'.client = resting[id].client /\ taker'.buy = resting[id].buy
  /\ taker'.price # resting[id].price
  /\ taker'.leaves > 0
  /\ Leave(id)

Init == resting = [o \in {} |-> NoTaker] /\ ahead = {} /\ taker = NoTaker

Next ==
  \/ Accept
  \/ Finish
  \/ \E m \in DOMAIN resting : Trade(m)
  \/ \E id \in DOMAIN resting : Cancel(id) \/ Reduce(id) \/ Enlarge(id) \/ Reprice(id)

Spec == Init /\ [][Next]_vars
==============================================================================
