----------------------------- MODULE StreamProofs -----------------------------
(***************************************************************************)
(* What the two streams of a book tell: the responses tell a client the    *)
(* truth about every order, and the updates keep the snapshot mirror in    *)
(* step with the book however far the feed's threads lag behind; for any   *)
(* set of clients, orders, prices and requests.                            *)
(***************************************************************************)
EXTENDS ClientView, MarketData, MirrorProofs, BookProofs

(***************************************************************************)
(* The responses and a client's view.                                      *)
(***************************************************************************)
\* What the engine still owes order o: the quantity that rests, or that is being matched.
Live(o) ==
  IF o \in DOMAIN order_index THEN order_index[o].qty
  ELSE IF incoming # None /\ incoming.order_id = o THEN incoming.leaves_qty
  ELSE 0

\* What the stream says of o is what the engine has.
Told(o) ==
  /\ o \in open <=> Live(o) > 0
  /\ o \in open => leaves[o] = Live(o) /\ executed[o] + leaves[o] = ordered[o]

ViewTyped ==
  /\ open \subseteq OrderId
  /\ ordered \in [OrderId -> Nat] /\ executed \in [OrderId -> Int] /\ leaves \in [OrderId -> Nat]

ViewInv == ViewTyped /\ \A o \in OrderId : Told(o)

\* What a step may report of order o.
Restarted(o, r) == Restarts(r) /\ r.leaves_qty > 0 /\ Live(o)' = r.leaves_qty

Executed(o, r) ==
  /\ r.status = "FILLED" /\ Live(o) > 0
  /\ r.exec_qty + r.leaves_qty = Live(o) /\ Live(o)' = r.leaves_qty

Dropped(o, r) == r.status = "CANCELED" /\ Live(o)' = 0

TypedReport(r) == r.exec_qty \in Int /\ r.leaves_qty \in Nat

\* Nothing is said of o and nothing happens to it, or one report says what happens.
Reported(o) ==
  \/ ReportsOn(o) = {} /\ Live(o)' = Live(o)
  \/ \E r : /\ ReportsOn(o) = {r} /\ TypedReport(r)
            /\ Restarted(o, r) \/ Executed(o, r) \/ Dropped(o, r)

(***************************************************************************)
(* The reader.                                                             *)
(***************************************************************************)
LEMMA LiveIsNat ==
  ASSUME WellTyped, NEW o \in OrderId
  PROVE  Live(o) \in Nat
BY DEF WellTyped, Live, BookOrder, IncomingOrder

LEMMA LiveStaysNat ==
  ASSUME WellTyped', NEW o \in OrderId
  PROVE  Live(o)' \in Nat
BY DEF WellTyped, Live, BookOrder, IncomingOrder

LEMMA ReadNothing ==
  ASSUME Read, NEW o \in OrderId, ReportsOn(o) = {}
  PROVE  /\ o \in open' <=> o \in open
         /\ ordered'[o] = ordered[o] /\ executed'[o] = executed[o] /\ leaves'[o] = leaves[o]
BY DEF Read

LEMMA ReadOne ==
  ASSUME Read, NEW o \in OrderId, NEW r, ReportsOn(o) = {r}
  PROVE  /\ o \in open' <=> (o \in open \/ Restarts(r)) /\ ~Ends(r)
         /\ ordered'[o] = IF Restarts(r) THEN r.leaves_qty ELSE ordered[o]
         /\ executed'[o] = IF Restarts(r) THEN 0 ELSE executed[o] + r.exec_qty
         /\ leaves'[o] = r.leaves_qty
<1>1. Report(o) = r /\ ReportsOn(o) # {}
  BY DEF Report
<1> QED BY <1>1, Zenon DEF Read

LEMMA ReadTyped ==
  ASSUME ViewTyped, Read, \A o \in OrderId : Reported(o)
  PROVE  ViewTyped'
<1>1. open' \subseteq OrderId
  BY DEF Read, ViewTyped
<1>2. ASSUME NEW o \in OrderId
      PROVE  ordered'[o] \in Nat /\ executed'[o] \in Int /\ leaves'[o] \in Nat
  <2>1. CASE ReportsOn(o) = {}
    BY <2>1, ReadNothing DEF ViewTyped
  <2>2. ASSUME NEW r, ReportsOn(o) = {r}, TypedReport(r)
        PROVE  ordered'[o] \in Nat /\ executed'[o] \in Int /\ leaves'[o] \in Nat
    BY <2>2, ReadOne DEF ViewTyped, TypedReport
  <2> QED BY <2>1, <2>2 DEF Reported
<1>3. /\ ordered' = [o \in OrderId |-> ordered'[o]]
      /\ executed' = [o \in OrderId |-> executed'[o]]
      /\ leaves' = [o \in OrderId |-> leaves'[o]]
  BY DEF Read
<1> QED BY <1>1, <1>2, <1>3 DEF ViewTyped

LEMMA ReadKeepsTold ==
  ASSUME ViewInv, Read, NEW o \in OrderId, Reported(o), Live(o) \in Nat, Live(o)' \in Nat
  PROVE  Told(o)'
<1>1. CASE ReportsOn(o) = {} /\ Live(o)' = Live(o)
  BY <1>1, ReadNothing DEF ViewInv, Told
<1>2. ASSUME NEW r, ReportsOn(o) = {r}, TypedReport(r), Restarted(o, r)
      PROVE  Told(o)'
  <2>1. ~Ends(r)
    BY <1>2 DEF Restarted, Restarts, Ends
  <2> QED BY <1>2, <2>1, ReadOne DEF Restarted, Told, TypedReport
<1>3. ASSUME NEW r, ReportsOn(o) = {r}, TypedReport(r), Executed(o, r)
      PROVE  Told(o)'
  <2>1. ~Restarts(r) /\ (Ends(r) <=> r.leaves_qty = 0)
    BY <1>3 DEF Executed, Restarts, Ends
  <2>2. o \in open /\ leaves[o] = Live(o) /\ executed[o] + leaves[o] = ordered[o]
        /\ executed[o] \in Int /\ ordered[o] \in Nat
    BY <1>3 DEF Executed, ViewInv, Told, ViewTyped
  <2>3. /\ o \in open' <=> r.leaves_qty # 0
        /\ ordered'[o] = ordered[o] /\ executed'[o] = executed[o] + r.exec_qty
        /\ leaves'[o] = r.leaves_qty
    BY <1>3, <2>1, <2>2, ReadOne
  <2> QED BY <1>3, <2>2, <2>3 DEF Executed, Told, TypedReport
<1>4. ASSUME NEW r, ReportsOn(o) = {r}, Dropped(o, r)
      PROVE  Told(o)'
  BY <1>4, ReadOne DEF Dropped, Ends, Told
<1> QED BY <1>1, <1>2, <1>3, <1>4 DEF Reported

(***************************************************************************)
(* The reports of each step.                                               *)
(***************************************************************************)
Telling == {"ACCEPTED", "MODIFIED", "FILLED", "CANCELED"}

LEMMA NoReports ==
  ASSUME responses' = <<>>, NEW o
  PROVE  ReportsOn(o) = {}
BY DEF ReportsOn, Published

LEMMA OneReport ==
  ASSUME NEW x, responses' = <<x>>
  PROVE  /\ Published = {x}
         /\ \A o : ReportsOn(o) = IF x.order_id = o /\ x.status \in Telling THEN {x} ELSE {}
<1>1. Published = {x}
  BY DEF Published
<1> QED BY <1>1, Zenon DEF ReportsOn, Telling

\* A response's fields.
LEMMA ResponseFields ==
  ASSUME NEW st, NEW c, NEW o, NEW p, NEW e, NEW l, NEW r, r = Response(st, c, o, p, e, l)
  PROVE  r.status = st /\ r.order_id = o /\ r.exec_qty = e /\ r.leaves_qty = l
BY DEF Response

\* Two fills reported for two orders.
LEMMA TwoFills ==
  ASSUME NEW x, NEW y, responses' = <<x, y>>, x.status = "FILLED", y.status = "FILLED",
         x.order_id # y.order_id
  PROVE  \A o : ReportsOn(o) = IF o = x.order_id THEN {x} ELSE IF o = y.order_id THEN {y} ELSE {}
<1>1. Published = {x, y}
  BY DEF Published
<1>2. \A o : ReportsOn(o) = {r \in {x, y} : r.order_id = o}
  BY <1>1 DEF ReportsOn
<1> QED BY <1>2

\* Nothing said, nothing changed.
LEMMA Silent ==
  ASSUME NEW o, responses' = <<>>, Live(o)' = Live(o)
  PROVE  Reported(o)
BY NoReports DEF Reported

LEMMA MovingReports ==
  ASSUME ConsistencyInv, enterLevel \/ skipNode, NEW o \in OrderId
  PROVE  Reported(o)
<1>1. Live(o)' = Live(o)
  BY MovingEffect DEF Live
<1> QED BY <1>1, MovingEffect, Silent

\* One fill: the incoming order and a resting one lose the same quantity.
FillOf(id, fill, x, y) ==
  /\ incoming # None /\ incoming \in IncomingOrder /\ incoming.leaves_qty > 0
  /\ id \in DOMAIN order_index /\ order_index[id].qty > 0 /\ order_index[id].qty \in Nat
  /\ fill \in Nat /\ fill <= incoming.leaves_qty /\ fill <= order_index[id].qty
  /\ incoming' # None /\ incoming'.order_id = incoming.order_id /\ incoming'.qty = incoming.qty
  /\ incoming'.leaves_qty = incoming.leaves_qty - fill
  /\ responses' = <<x, y>>
  /\ x.status = "FILLED" /\ x.order_id = incoming.order_id
  /\ x.exec_qty = fill /\ x.leaves_qty = incoming.leaves_qty - fill
  /\ y.status = "FILLED" /\ y.order_id = id
  /\ y.exec_qty = fill /\ y.leaves_qty = order_index[id].qty - fill
  /\ DOMAIN order_index' \cup {id} = DOMAIN order_index
  /\ \A q \in DOMAIN order_index \ {id} : order_index'[q] = order_index[q]
  /\ IF id \in DOMAIN order_index' THEN order_index'[id].qty = order_index[id].qty - fill
     ELSE order_index[id].qty = fill

LEMMA FillsAre ==
  ASSUME ConsistencyInv, fillNodeFully \/ fillNodePartly
  PROVE  \E id, fill, x, y : FillOf(id, fill, x, y)
<1> DEFINE x == Response("FILLED", incoming.client_id, incoming.order_id, order_index[Node].price,
                         FillQty, incoming.leaves_qty - FillQty)
           y == Response("FILLED", order_index[Node].client_id, Node, order_index[Node].price,
                         FillQty, order_index[Node].qty - FillQty)
<1>1. responses' = <<x, y>>
  BY FillEffect DEF FillResponses
<1>2. /\ x.status = "FILLED" /\ x.order_id = incoming.order_id
      /\ x.exec_qty = FillQty /\ x.leaves_qty = incoming.leaves_qty - FillQty
      /\ y.status = "FILLED" /\ y.order_id = Node
      /\ y.exec_qty = FillQty /\ y.leaves_qty = order_index[Node].qty - FillQty
  BY DEF Response
<1> HIDE DEF x, y
<1>3. /\ DOMAIN order_index' \cup {Node} = DOMAIN order_index
      /\ \A q \in DOMAIN order_index \ {Node} : order_index'[q] = order_index[q]
      /\ IF Node \in DOMAIN order_index' THEN order_index'[Node].qty = order_index[Node].qty - FillQty
         ELSE order_index[Node].qty = FillQty
  <2>1. CASE fillNodeFully
    BY <2>1, FillEffect, FullFillIndex, Zenon
  <2>2. CASE fillNodePartly
    BY <2>2, FillEffect, PartialFillIndex, Zenon
  <2> QED BY <2>1, <2>2
<1>4. order_index[Node].qty \in Nat
  BY FillEffect DEF BookOrder
<1>5. FillOf(Node, FillQty, x, y)
  BY <1>1, <1>2, <1>3, <1>4, FillEffect DEF FillOf
<1> QED BY <1>5

LEMMA FillReports ==
  ASSUME ConsistencyInv, NEW id, NEW fill, NEW x, NEW y, FillOf(id, fill, x, y), NEW o \in OrderId
  PROVE  Reported(o)
<1> USE DEF FillOf
<1>1. incoming.order_id \notin DOMAIN order_index /\ incoming.order_id # id
      /\ incoming.leaves_qty \in Nat
  BY DEF ConsistencyInv, IncomingOutsideBook, IncomingOrder
<1>2. ReportsOn(o) = IF o = x.order_id THEN {x} ELSE IF o = y.order_id THEN {y} ELSE {}
  BY <1>1, TwoFills
<1>4. CASE o = incoming.order_id
  <2>1. ReportsOn(o) = {x}
    BY <1>2, <1>4
  <2>2. TypedReport(x)
    BY <1>1 DEF TypedReport
  <2>3. Live(o) = incoming.leaves_qty /\ Live(o)' = incoming.leaves_qty - fill
    BY <1>1, <1>4 DEF Live
  <2>4. Executed(o, x)
    BY <1>1, <2>3 DEF Executed
  <2> QED BY <2>1, <2>2, <2>4 DEF Reported
<1>5. CASE o = id
  <2>1. ReportsOn(o) = {y}
    BY <1>1, <1>2, <1>5
  <2>2. TypedReport(y)
    BY DEF TypedReport
  <2>3. Live(o) = order_index[id].qty /\ Live(o)' = order_index[id].qty - fill
    BY <1>1, <1>5 DEF Live
  <2>4. Executed(o, y)
    BY <2>3 DEF Executed
  <2> QED BY <2>1, <2>2, <2>4 DEF Reported
<1>6. CASE o # incoming.order_id /\ o # id
  <2>1. ReportsOn(o) = {}
    BY <1>2, <1>6
  <2>2. Live(o)' = Live(o)
    BY <1>6 DEF Live
  <2> QED BY <2>1, <2>2 DEF Reported
<1> QED BY <1>4, <1>5, <1>6

LEMMA FinishReports ==
  ASSUME ConsistencyInv, restRemainder \/ cancelRemainder \/ completelyFilled, NEW o \in OrderId
  PROVE  Reported(o)
<1>1. incoming # None /\ incoming' = None
  BY DEF restRemainder, cancelRemainder, completelyFilled, MatchingDone
<1>2. incoming \in IncomingOrder /\ incoming.order_id \notin DOMAIN order_index
  BY <1>1 DEF ConsistencyInv, WellTyped, IncomingOutsideBook
<1>3. CASE restRemainder
  <2> DEFINE order == [client_id |-> incoming.client_id, side |-> incoming.side,
                       price |-> incoming.limit_price,
                       original_qty |-> incoming.qty, qty |-> incoming.leaves_qty]
  <2>1. order_index' = Rested(order_index, incoming.order_id, order) /\ responses' = <<>>
    BY <1>3 DEF restRemainder, restOrder, Publish
  <2>2. order.qty = incoming.leaves_qty
    OBVIOUS
  <2> HIDE DEF order
  <2>3. Live(o)' = Live(o)
    BY <1>1, <1>2, <2>1, <2>2 DEF Live, Rested
  <2> QED BY <1>1, <2>1, <2>3, Silent
<1>4. CASE cancelRemainder
  <2>1. responses' = << Canceled >> /\ order_index' = order_index
    BY <1>4 DEF cancelRemainder, Publish
  <2>2. /\ Canceled.status = "CANCELED" /\ Canceled.order_id = incoming.order_id
        /\ Canceled.exec_qty = incoming.qty - incoming.leaves_qty
        /\ Canceled.leaves_qty = incoming.leaves_qty
    BY DEF Canceled, Response
  <2>3. CASE o = incoming.order_id
    <3>1. Live(o)' = 0
      BY <1>1, <1>2, <2>1, <2>3 DEF Live
    <3>2. ReportsOn(o) = {Canceled}
      BY <2>1, <2>2, <2>3, OneReport DEF Telling
    <3>3. Dropped(o, Canceled)
      BY <1>1, <2>2, <3>1 DEF Dropped
    <3>4. TypedReport(Canceled)
      BY <1>2, <2>2 DEF TypedReport, IncomingOrder
    <3> QED BY <3>2, <3>3, <3>4 DEF Reported
  <2>4. CASE o # incoming.order_id
    <3>1. Live(o)' = Live(o)
      BY <1>1, <1>2, <2>1, <2>4 DEF Live
    <3>2. ReportsOn(o) = {}
      BY <2>1, <2>2, <2>4, OneReport
    <3> QED BY <1>1, <3>1, <3>2 DEF Reported
  <2> QED BY <2>3, <2>4
<1>5. CASE completelyFilled
  <2>1. responses' = <<>> /\ order_index' = order_index /\ incoming.leaves_qty = 0
    BY <1>5 DEF completelyFilled, Publish
  <2>2. Live(o)' = Live(o)
    BY <1>1, <1>2, <2>1 DEF Live
  <2> QED BY <1>1, <2>1, <2>2, Silent
<1> QED BY <1>3, <1>4, <1>5

\* A request that reports on order id, and changes no other.
LEMMA RequestOnReports ==
  ASSUME incoming = None, NEW id, NEW status \in Telling, NEW q \in Nat,
         Responds(status, id, 0, q), NEW o \in OrderId,
         o # id => Live(o)' = Live(o),
         \A r : /\ r.status = status /\ r.exec_qty = 0 /\ r.leaves_qty = q /\ o = id
                => Restarted(o, r) \/ Dropped(o, r)
  PROVE  Reported(o)
<1>1. PICK x : /\ responses' = <<x>> /\ x.status = status /\ x.order_id = id
               /\ x.exec_qty = 0 /\ x.leaves_qty = q
  BY DEF Responds
<1>2. CASE o = id
  <2>1. ReportsOn(o) = {x}
    BY <1>1, <1>2, OneReport
  <2>2. TypedReport(x)
    BY <1>1 DEF TypedReport
  <2>3. Restarted(o, x) \/ Dropped(o, x)
    BY <1>1, <1>2
  <2> QED BY <2>1, <2>2, <2>3 DEF Reported
<1>3. CASE o # id
  <2>1. ReportsOn(o) = {}
    BY <1>1, <1>3, OneReport
  <2> QED BY <1>3, <2>1 DEF Reported
<1> QED BY <1>2, <1>3

LEMMA RequestReports ==
  ASSUME ConsistencyInv, NEW req \in Request, processRequest(req), NEW o \in OrderId
  PROVE  Reported(o)
<1> DEFINE id == req.order_id
           q == req.qty
<1>1. incoming = None /\ RequestKinds(id, q)
  BY RequestEffect
<1> HIDE DEF id, q
<1>2. CASE Rejecting
  <2>1. PICK x : /\ responses' = <<x>>
                 /\ x.status \in {"REJECTED", "CANCEL_REJECTED", "MODIFY_REJECTED"}
    BY <1>2 DEF Rejecting
  <2>2. ReportsOn(o) = {}
    BY <2>1, OneReport DEF Telling
  <2>3. Live(o)' = Live(o)
    BY <1>1, <1>2 DEF Rejecting, Live
  <2> QED BY <2>2, <2>3 DEF Reported
<1>3. CASE Accepting(id, q)
  <2>1. o # id => Live(o)' = Live(o)
    BY <1>1, <1>3 DEF Accepting, Taking, Live
  <2>2. o = id => Live(o)' = q
    BY <1>1, <1>3 DEF Accepting, Taking, Live
  <2>3. ASSUME NEW r, r.status = "ACCEPTED", r.leaves_qty = q, o = id PROVE Restarted(o, r)
    BY <1>3, <2>2, <2>3 DEF Accepting, Taking, Restarted, Restarts
  <2>4. Responds("ACCEPTED", id, 0, q) /\ q \in Nat /\ "ACCEPTED" \in Telling
    BY <1>3 DEF Accepting, Taking, Telling
  <2>5. \A r : r.status = "ACCEPTED" /\ r.exec_qty = 0 /\ r.leaves_qty = q /\ o = id
               => Restarted(o, r) \/ Dropped(o, r)
    BY <2>3
  <2> QED BY <1>1, <2>1, <2>4, <2>5, RequestOnReports
<1>4. CASE Repricing(id, q)
  <2>1. o # id => Live(o)' = Live(o)
    BY <1>1, <1>4 DEF Repricing, Taking, Live
  <2>2. o = id => Live(o)' = q
    BY <1>1, <1>4 DEF Repricing, Taking, Live
  <2>3. ASSUME NEW r, r.status = "MODIFIED", r.leaves_qty = q, o = id PROVE Restarted(o, r)
    BY <1>4, <2>2, <2>3 DEF Repricing, Taking, Restarted, Restarts
  <2>4. Responds("MODIFIED", id, 0, q) /\ q \in Nat /\ "MODIFIED" \in Telling
    BY <1>4 DEF Repricing, Taking, Telling
  <2>5. \A r : r.status = "MODIFIED" /\ r.exec_qty = 0 /\ r.leaves_qty = q /\ o = id
               => Restarted(o, r) \/ Dropped(o, r)
    BY <2>3
  <2> QED BY <1>1, <2>1, <2>4, <2>5, RequestOnReports
<1>5. CASE Requantifying(id, q)
  <2>1. o # id => Live(o)' = Live(o)
    BY <1>1, <1>5 DEF Requantifying, Live
  <2>2. o = id => Live(o)' = q
    BY <1>1, <1>5 DEF Requantifying, Live
  <2>3. ASSUME NEW r, r.status = "MODIFIED", r.leaves_qty = q, o = id PROVE Restarted(o, r)
    BY <1>5, <2>2, <2>3 DEF Requantifying, Restarted, Restarts
  <2>4. Responds("MODIFIED", id, 0, q) /\ q \in Nat /\ "MODIFIED" \in Telling
    BY <1>5 DEF Requantifying, Telling
  <2>5. \A r : r.status = "MODIFIED" /\ r.exec_qty = 0 /\ r.leaves_qty = q /\ o = id
               => Restarted(o, r) \/ Dropped(o, r)
    BY <2>3
  <2> QED BY <1>1, <2>1, <2>4, <2>5, RequestOnReports
<1>6. CASE Cancelling(id)
  <2>1. o # id => Live(o)' = Live(o)
    BY <1>1, <1>6 DEF Cancelling, Live
  <2>2. o = id => Live(o)' = 0
    BY <1>1, <1>6 DEF Cancelling, Live
  <2>3. ASSUME NEW r, r.status = "CANCELED", o = id PROVE Dropped(o, r)
    BY <2>2, <2>3 DEF Dropped
  <2>4. Responds("CANCELED", id, 0, 0) /\ 0 \in Nat /\ "CANCELED" \in Telling
    BY <1>6 DEF Cancelling, Telling
  <2>5. \A r : r.status = "CANCELED" /\ r.exec_qty = 0 /\ r.leaves_qty = 0 /\ o = id
               => Restarted(o, r) \/ Dropped(o, r)
    BY <2>3
  <2> QED BY <1>1, <2>1, <2>4, <2>5, RequestOnReports
<1> QED BY <1>1, <1>2, <1>3, <1>4, <1>5, <1>6 DEF RequestKinds

LEMMA StepReports ==
  ASSUME ConsistencyInv, Next, NEW o \in OrderId
  PROVE  Reported(o)
<1>1. CASE enterLevel \/ skipNode
  BY <1>1, MovingReports
<1>2. CASE fillNodeFully \/ fillNodePartly
  BY <1>2, FillsAre, FillReports
<1>3. CASE restRemainder \/ cancelRemainder \/ completelyFilled
  BY <1>3, FinishReports
<1>4. CASE \E req \in Request : processRequest(req)
  BY <1>4, RequestReports
<1> QED BY <1>1, <1>2, <1>3, <1>4 DEF Next, Matching, matchIncoming

(***************************************************************************)
(* The composition.                                                        *)
(***************************************************************************)
LEMMA ViewStep ==
  ASSUME ConsistencyInv, ViewInv, Next, Read
  PROVE  ViewInv'
<1>1. \A o \in OrderId : Reported(o)
  BY StepReports
<1>2. ViewTyped'
  BY <1>1, ReadTyped DEF ViewInv
<1>3. ConsistencyInv'
  BY ConsistencyStep
<1>4. ASSUME NEW o \in OrderId PROVE Told(o)'
  <2>1. Live(o) \in Nat /\ Live(o)' \in Nat
    BY <1>3, LiveIsNat, LiveStaysNat DEF ConsistencyInv
  <2> QED BY <1>1, <2>1, ReadKeepsTold
<1> QED BY <1>2, <1>4 DEF ViewInv

\* The invariant of the composition.
LEMMA ViewInvariant == ViewSpec => [](ConsistencyInv /\ ViewInv)
<1>1. Init /\ ViewInit => ConsistencyInv /\ ViewInv
  <2> SUFFICES ASSUME Init, ViewInit PROVE ConsistencyInv /\ ViewInv
    OBVIOUS
  <2>1. ConsistencyInv
    BY InitConsistent
  <2>2. ViewTyped /\ open = {} /\ incoming = None
    BY DEF ViewInit, ViewTyped, Init
  <2>3. \A o \in OrderId : Live(o) = 0
    BY DEF Live, Init
  <2> QED BY <2>1, <2>2, <2>3 DEF ViewInv, Told
<1>2. ConsistencyInv /\ ViewInv /\ [Next /\ Read]_<<vars, viewVars>> => (ConsistencyInv /\ ViewInv)'
  <2> SUFFICES ASSUME ConsistencyInv, ViewInv, [Next /\ Read]_<<vars, viewVars>>
               PROVE  ConsistencyInv' /\ ViewInv'
    OBVIOUS
  <2>1. ConsistencyInv'
    BY ConsistencyStep
  <2>2. CASE Next /\ Read
    BY <2>1, <2>2, ViewStep
  <2>3. CASE UNCHANGED <<vars, viewVars>>
    <3>1. \A o : Live(o)' = Live(o)
      BY <2>3 DEF Live, vars
    <3> QED BY <2>1, <2>3, <3>1 DEF ViewInv, ViewTyped, Told, vars, viewVars
  <2> QED BY <2>1, <2>2, <2>3
<1> QED BY <1>1, <1>2, PTL DEF ViewSpec

\* Whatever requests clients send, and however fills, partial fills, cancels and modifications
\* follow one another: between requests the responses alone tell which orders rest, how much of
\* each is left, and how that adds up.
THEOREM StreamTellsBook == ViewSpec => []ViewMatchesBook
<1>1. ConsistencyInv /\ ViewInv => ViewMatchesBook
  <2> SUFFICES ASSUME ConsistencyInv, ViewInv, incoming = None
               PROVE  /\ open = DOMAIN order_index
                      /\ \A o \in open : leaves[o] = order_index[o].qty /\ executed[o] + leaves[o] = ordered[o]
    BY DEF ViewMatchesBook
  <2>1. DOMAIN order_index \subseteq OrderId /\ \A o \in DOMAIN order_index : order_index[o].qty > 0
    BY DEF ConsistencyInv, WellTyped, BookConsistent, Consistent
  <2>2. \A o \in OrderId : Live(o) = IF o \in DOMAIN order_index THEN order_index[o].qty ELSE 0
    BY DEF Live
  <2> QED BY <2>1, <2>2 DEF ViewInv, ViewTyped, Told
<1> QED BY <1>1, ViewInvariant, PTL

\* ... and while an order is being matched, its reports and the matching loop agree on what is left.
THEOREM StreamTellsIncoming == ViewSpec => []ViewMatchesIncoming
<1>1. ConsistencyInv /\ ViewInv => ViewMatchesIncoming
  <2> SUFFICES ASSUME ConsistencyInv, ViewInv, incoming # None, incoming.leaves_qty > 0
               PROVE  /\ incoming.order_id \in open /\ leaves[incoming.order_id] = incoming.leaves_qty
                      /\ executed[incoming.order_id] + incoming.leaves_qty = ordered[incoming.order_id]
    BY DEF ViewMatchesIncoming
  <2>1. incoming.order_id \in OrderId /\ incoming.order_id \notin DOMAIN order_index
    BY DEF ConsistencyInv, WellTyped, IncomingOutsideBook, IncomingOrder
  <2>2. Live(incoming.order_id) = incoming.leaves_qty
    BY <2>1 DEF Live
  <2> QED BY <2>1, <2>2 DEF ViewInv, Told
<1> QED BY <1>1, ViewInvariant, PTL

(***************************************************************************)
(* The updates and the snapshot mirror.                                    *)
(***************************************************************************)
MarketUpdate ==
  [type : {"ADD", "MODIFY", "CANCEL", "TRADE"}, order_id : OrderId, side : Side,
   price : Price, qty : Nat]

\* The mirror, when it has caught up, is the book, and what re-pricing left behind.
Follows(shown, index, lingering) ==
  /\ DOMAIN shown = DOMAIN index \cup lingering
  /\ \A o \in DOMAIN index :
       o \in DOMAIN shown /\ shown[o] = SnapshotEntry(index[o].side, index[o].price, index[o].qty)
  /\ lingering \cap DOMAIN index = {}

FeedInv ==
  /\ snapshot_feed \in Seq(MarketUpdate) /\ update_queue \in Seq(MarketUpdate)
  /\ Follows(CaughtUp, order_index, repriced)

(***************************************************************************)
(* The two queues.                                                         *)
(***************************************************************************)
LEMMA FirstAndRest ==
  ASSUME NEW S, NEW b \in Seq(S), b # <<>>
  PROVE  Head(b) \in S /\ Tail(b) \in Seq(S) /\ <<Head(b)>> \in Seq(S) /\ b = <<Head(b)>> \o Tail(b)
<1>1. Head(b) \in S /\ Tail(b) \in Seq(S) /\ Len(b) \in Nat \ {0}
  BY HeadTailProperties, EmptySeq
<1>2. SubSeq(b, 1, Len(b)) = << b[1] >> \o SubSeq(b, 1 + 1, Len(b))
  BY <1>1, SubSeqRecursiveFirst
<1>3. SubSeq(b, 1, Len(b)) = b /\ SubSeq(b, 2, Len(b)) = Tail(b) /\ b[1] = Head(b)
  BY SubSeqFull, TailIsSubSeq
<1>4. <<Head(b)>> \in Seq(S)
  BY <1>1
<1> QED BY <1>1, <1>2, <1>3, <1>4

\* Forwarding an update from the one queue to the other.
LEMMA ForwardKeepsOrder ==
  ASSUME NEW S, NEW a \in Seq(S), NEW b \in Seq(S), b # <<>>
  PROVE  /\ Append(a, Head(b)) \in Seq(S) /\ Tail(b) \in Seq(S)
         /\ Append(a, Head(b)) \o Tail(b) = a \o b
<1>1. Head(b) \in S /\ Tail(b) \in Seq(S) /\ <<Head(b)>> \in Seq(S) /\ b = <<Head(b)>> \o Tail(b)
  BY FirstAndRest
<1>2. Append(a, Head(b)) \in Seq(S) /\ Append(a, Head(b)) = a \o <<Head(b)>>
  BY <1>1, AppendProperties, AppendIsConcat
<1>3. (a \o <<Head(b)>>) \o Tail(b) = a \o (<<Head(b)>> \o Tail(b))
  BY <1>1, ConcatAssociative
<1> QED BY <1>1, <1>2, <1>3

\* Applying the first one.
LEMMA FirstOfBoth ==
  ASSUME NEW S, NEW a \in Seq(S), NEW b \in Seq(S), a # <<>>
  PROVE  /\ Tail(a) \in Seq(S) /\ a \o b \in Seq(S) /\ a \o b # <<>>
         /\ Head(a \o b) = Head(a) /\ Tail(a \o b) = Tail(a) \o b
<1>1. Head(a) \in S /\ Tail(a) \in Seq(S) /\ Len(a) \in Nat \ {0} /\ Len(Tail(a)) = Len(a) - 1
      /\ \A i \in 1 .. (Len(a) - 1) : Tail(a)[i] = a[i + 1]
  BY HeadTailProperties, EmptySeq
<1>2. /\ a \o b \in Seq(S) /\ Len(a \o b) = Len(a) + Len(b) /\ Len(b) \in Nat
      /\ \A i \in 1 .. (Len(a) + Len(b)) : (a \o b)[i] = IF i <= Len(a) THEN a[i] ELSE b[i - Len(a)]
  BY ConcatProperties
<1>3. /\ Tail(a) \o b \in Seq(S) /\ Len(Tail(a) \o b) = Len(a) - 1 + Len(b)
      /\ \A i \in 1 .. (Len(a) - 1 + Len(b)) :
           (Tail(a) \o b)[i] = IF i <= Len(a) - 1 THEN Tail(a)[i] ELSE b[i - (Len(a) - 1)]
  BY <1>1, ConcatProperties
<1> DEFINE c == a \o b
           d == Tail(a) \o b
<1>4. c # <<>> /\ Head(c) = Head(a)
  BY <1>1, <1>2
<1>5. /\ Tail(c) \in Seq(S) /\ Len(Tail(c)) = Len(c) - 1
      /\ \A i \in 1 .. (Len(c) - 1) : Tail(c)[i] = c[i + 1]
  <2> HIDE DEF c
  <2>1. c \in Seq(S)
    BY <1>2 DEF c
  <2> QED BY <1>4, <2>1, HeadTailProperties
<1>6. ASSUME NEW i \in 1 .. Len(d) PROVE Tail(c)[i] = d[i]
  <2>1. i + 1 \in 1 .. (Len(a) + Len(b)) /\ i \in 1 .. (Len(c) - 1) /\ i \in 1 .. (Len(a) - 1 + Len(b))
    BY <1>1, <1>2, <1>3
  <2>2. Tail(c)[i] = IF i + 1 <= Len(a) THEN a[i + 1] ELSE b[i + 1 - Len(a)]
    BY <1>2, <1>5, <2>1
  <2>3. d[i] = IF i <= Len(a) - 1 THEN Tail(a)[i] ELSE b[i - (Len(a) - 1)]
    BY <1>3, <2>1
  <2>4. CASE i <= Len(a) - 1
    BY <1>1, <2>1, <2>2, <2>3, <2>4
  <2>5. CASE ~(i <= Len(a) - 1)
    <3>1. i + 1 - Len(a) = i - (Len(a) - 1) /\ ~(i + 1 <= Len(a))
      BY <1>1, <2>1, <2>5
    <3> QED BY <2>2, <2>3, <2>5, <3>1
  <2> QED BY <2>4, <2>5
<1>7. Tail(c) = d
  <2>1. Len(Tail(c)) = Len(d) /\ d \in Seq(S) /\ Tail(c) \in Seq(S)
    BY <1>1, <1>2, <1>3, <1>5
  <2> HIDE DEF c, d
  <2> QED BY <1>6, <2>1, SeqEqual, Zenon
<1> QED BY <1>1, <1>2, <1>4, <1>7

\* Publishing one update more, behind everything under way.
LEMMA ReplayPublished ==
  ASSUME NEW S, NEW a \in Seq(S), NEW b \in Seq(S), NEW u \in S, NEW book
  PROVE  /\ b \o <<u>> \in Seq(S)
         /\ Replayed(book, a \o (b \o <<u>>)) = Applied(Replayed(book, a \o b), u)
<1>1. <<u>> \in Seq(S)
  OBVIOUS
<1>2. a \o b \in Seq(S) /\ b \o <<u>> \in Seq(S)
  BY <1>1, ConcatProperties
<1>3. a \o (b \o <<u>>) = (a \o b) \o <<u>>
  BY <1>1, ConcatAssociative
<1>4. (a \o b) \o <<u>> = Append(a \o b, u)
  BY <1>2, AppendIsConcat
<1> DEFINE c == a \o b
<1>5. Replayed(book, Append(c, u)) = Applied(Replayed(book, c), u)
  <2>1. c \in Seq(S)
    BY <1>2
  <2> HIDE DEF c
  <2> QED BY <2>1, ReplayAppend
<1> QED BY <1>2, <1>3, <1>4, <1>5, Zenon

(***************************************************************************)
(* What applyUpdate makes of a mirror that follows the book.               *)
(***************************************************************************)
LEMMA FollowsCancel ==
  ASSUME NEW shown, NEW index, NEW lingering, Follows(shown, index, lingering),
         NEW id \in DOMAIN index, NEW u, u.type = "CANCEL", u.order_id = id
  PROVE  Follows(Applied(shown, u), [o \in DOMAIN index \ {id} |-> index[o]], lingering)
<1>1. Applied(shown, u) = [o \in DOMAIN shown \ {id} |-> shown[o]]
  BY DEF Applied, Erased
<1> QED BY <1>1 DEF Follows

LEMMA FollowsModify ==
  ASSUME NEW shown, NEW index, NEW lingering, Follows(shown, index, lingering),
         NEW id \in DOMAIN index, NEW u, u.type = "MODIFY", u.order_id = id,
         NEW after, DOMAIN after = DOMAIN index, after[id].side = index[id].side,
         after[id].price = index[id].price, after[id].qty = u.qty,
         \A o \in DOMAIN index : o # id => after[o] = index[o]
  PROVE  Follows(Applied(shown, u), after, lingering)
<1>1. Applied(shown, u) =
        [o \in DOMAIN shown |-> IF o = id THEN [shown[o] EXCEPT !.qty = u.qty] ELSE shown[o]]
  BY DEF Applied, Requantified
<1>2. shown[id] = SnapshotEntry(index[id].side, index[id].price, index[id].qty) /\ id \in DOMAIN shown
  BY DEF Follows
<1>3. [shown[id] EXCEPT !.qty = u.qty] = SnapshotEntry(after[id].side, after[id].price, after[id].qty)
  BY <1>2 DEF SnapshotEntry
<1>4. ASSUME NEW o \in DOMAIN after
      PROVE  /\ o \in DOMAIN Applied(shown, u)
             /\ Applied(shown, u)[o] = SnapshotEntry(after[o].side, after[o].price, after[o].qty)
  <2>1. o \in DOMAIN shown /\ shown[o] = SnapshotEntry(index[o].side, index[o].price, index[o].qty)
    BY DEF Follows
  <2>2. CASE o = id
    BY <1>1, <1>3, <2>1, <2>2
  <2>3. CASE o # id
    BY <1>1, <2>1, <2>3
  <2> QED BY <2>2, <2>3
<1>5. DOMAIN Applied(shown, u) = DOMAIN shown
  BY <1>1
<1> QED BY <1>4, <1>5 DEF Follows

LEMMA FollowsAdd ==
  ASSUME NEW shown, NEW index, NEW lingering, Follows(shown, index, lingering),
         NEW id, id \notin DOMAIN index, NEW u, u.type = "ADD", u.order_id = id,
         NEW order, order.side = u.side, order.price = u.price, order.qty = u.qty
  PROVE  Follows(Applied(shown, u), Rested(index, id, order), lingering \ {id})
<1>1. Applied(shown, u) =
        [o \in DOMAIN shown \cup {id} |->
           IF o = id THEN SnapshotEntry(u.side, u.price, u.qty) ELSE shown[o]]
  BY DEF Applied, Added, With
<1>2. Rested(index, id, order) = [o \in DOMAIN index \cup {id} |-> IF o = id THEN order ELSE index[o]]
  BY DEF Rested
<1>3. DOMAIN Rested(index, id, order) = DOMAIN index \cup {id} /\ DOMAIN Applied(shown, u) = DOMAIN shown \cup {id}
  BY <1>1, <1>2
<1>4. ASSUME NEW o \in DOMAIN index \cup {id}
      PROVE  /\ o \in DOMAIN shown \cup {id}
             /\ Applied(shown, u)[o] =
                  SnapshotEntry(Rested(index, id, order)[o].side, Rested(index, id, order)[o].price,
                                Rested(index, id, order)[o].qty)
  <2>1. CASE o = id
    BY <1>1, <1>2, <2>1
  <2>2. CASE o # id
    BY <1>1, <1>2, <2>2 DEF Follows
  <2> QED BY <2>1, <2>2
<1>5. /\ DOMAIN shown \cup {id} = (DOMAIN index \cup {id}) \cup (lingering \ {id})
      /\ (lingering \ {id}) \cap (DOMAIN index \cup {id}) = {}
  BY DEF Follows
<1> QED BY <1>3, <1>4, <1>5 DEF Follows

LEMMA FollowsReprice ==
  ASSUME NEW shown, NEW index, NEW lingering, Follows(shown, index, lingering),
         NEW id \in DOMAIN index
  PROVE  Follows(shown, [o \in DOMAIN index \ {id} |-> index[o]], lingering \cup {id})
BY DEF Follows

(***************************************************************************)
(* What an engine step sends, and what it makes of `repriced'.             *)
(***************************************************************************)
LEMMA RepricedIs ==
  ASSUME engineStep
  PROVE  /\ incoming # None => repriced' = repriced \ (DOMAIN order_index' \ DOMAIN order_index)
         /\ incoming = None /\ incoming' = None => repriced' = repriced
         /\ incoming = None /\ incoming' # None =>
              repriced' = repriced \cup (DOMAIN order_index \ DOMAIN order_index')
BY DEF engineStep, Repriced

\* A step that sends nothing, one update, or two.
LEMMA SendsNothing ==
  ASSUME FeedInv, engineStep, updates' = <<>>
  PROVE  /\ snapshot_feed' \in Seq(MarketUpdate) /\ update_queue' \in Seq(MarketUpdate)
         /\ CaughtUp' = CaughtUp
<1>1. update_queue' = update_queue /\ snapshot_feed' = snapshot_feed /\ mirror' = mirror
  BY DEF engineStep, FeedInv
<1> QED BY <1>1 DEF FeedInv, CaughtUp

LEMMA SendsOne ==
  ASSUME FeedInv, engineStep, NEW u \in MarketUpdate, updates' = <<u>>
  PROVE  /\ snapshot_feed' \in Seq(MarketUpdate) /\ update_queue' \in Seq(MarketUpdate)
         /\ CaughtUp' = Applied(CaughtUp, u)
<1>1. update_queue' = update_queue \o <<u>> /\ snapshot_feed' = snapshot_feed /\ mirror' = mirror
  BY DEF engineStep
<1>2. snapshot_feed \in Seq(MarketUpdate) /\ update_queue \in Seq(MarketUpdate)
  BY DEF FeedInv
<1>3. /\ update_queue \o <<u>> \in Seq(MarketUpdate)
      /\ Replayed(mirror, snapshot_feed \o (update_queue \o <<u>>))
           = Applied(Replayed(mirror, snapshot_feed \o update_queue), u)
  BY <1>2, ReplayPublished
<1> QED BY <1>1, <1>2, <1>3 DEF CaughtUp

LEMMA SendsTwo ==
  ASSUME FeedInv, engineStep, NEW u \in MarketUpdate, NEW v \in MarketUpdate, updates' = <<u, v>>
  PROVE  /\ snapshot_feed' \in Seq(MarketUpdate) /\ update_queue' \in Seq(MarketUpdate)
         /\ CaughtUp' = Applied(Applied(CaughtUp, u), v)
<1>1. /\ snapshot_feed \in Seq(MarketUpdate) /\ update_queue \in Seq(MarketUpdate)
      /\ <<u>> \in Seq(MarketUpdate) /\ <<v>> \in Seq(MarketUpdate)
  BY DEF FeedInv
<1>6. <<u, v>> = <<u>> \o <<v>>
  <2>1. Append(<<u>>, v) = <<u>> \o <<v>>
    BY <1>1, AppendIsConcat
  <2>2. Append(<<u>>, v) = <<u, v>>
    <3> DEFINE a == Append(<<u>>, v)
               b == <<u, v>>
    <3>1. a \in Seq(MarketUpdate) /\ Len(a) = 2 /\ a[1] = u /\ a[2] = v
      BY <1>1, AppendProperties
    <3>2. b \in Seq(MarketUpdate) /\ Len(b) = 2 /\ b[1] = u /\ b[2] = v
      OBVIOUS
    <3> HIDE DEF a, b
    <3>3. \A i \in 1 .. Len(a) : a[i] = b[i]
      <4>1. \A i \in 1 .. Len(a) : i = 1 \/ i = 2
        BY <3>1
      <4> QED BY <3>1, <3>2, <4>1
    <3>4. a = b
      BY <3>1, <3>2, <3>3, SeqEqual
    <3> QED BY <3>4 DEF a, b
  <2> QED BY <2>1, <2>2, Zenon
<1>2. /\ snapshot_feed' = snapshot_feed /\ mirror' = mirror
      /\ update_queue' = (update_queue \o <<u>>) \o <<v>>
  BY <1>1, <1>6, ConcatAssociative DEF engineStep
<1> DEFINE q == update_queue \o <<u>>
<1>3. q \in Seq(MarketUpdate) /\ Replayed(mirror, snapshot_feed \o q) = Applied(CaughtUp, u)
  BY <1>1, ReplayPublished DEF CaughtUp
<1>4. update_queue' = q \o <<v>>
  BY <1>2
<1> HIDE DEF q
<1>5. /\ q \o <<v>> \in Seq(MarketUpdate)
      /\ Replayed(mirror, snapshot_feed \o (q \o <<v>>)) = Applied(Replayed(mirror, snapshot_feed \o q), v)
  BY <1>1, <1>3, ReplayPublished
<1> QED BY <1>1, <1>2, <1>3, <1>4, <1>5, Zenon DEF CaughtUp

(***************************************************************************)
(* The invariant is kept by every step.                                    *)
(***************************************************************************)
LEMMA QuietStep ==
  ASSUME FeedInv, engineStep, updates' = <<>>, order_index' = order_index
  PROVE  FeedInv'
<1>1. repriced' = repriced
  BY RepricedIs, Zenon
<1> QED BY <1>1, SendsNothing DEF FeedInv

\* A TRADE for the order at the cursor, then a CANCEL or a MODIFY for it.
LEMMA FillStep ==
  ASSUME ConsistencyInv, FeedInv, engineStep, fillNodeFully \/ fillNodePartly
  PROVE  FeedInv'
<1> DEFINE node == order_index[Node]
           left == IF fillNodeFully THEN 0 ELSE node.qty - FillQty
           u == BookUpdate("TRADE", Node, node.side, node.price, FillQty)
<1>1. /\ incoming # None /\ Node \in DOMAIN order_index /\ node \in BookOrder
      /\ FillQty \in Nat /\ FillQty <= node.qty /\ Node \in OrderId
  BY FillEffect DEF ConsistencyInv, WellTyped
<1>2. node.side \in Side /\ node.price \in Price /\ node.qty \in Nat /\ node.qty - FillQty \in Nat
  BY <1>1 DEF BookOrder
<1>3. u \in MarketUpdate /\ u.type = "TRADE"
  <2> HIDE DEF node
  <2> QED BY <1>1, <1>2 DEF BookUpdate, MarketUpdate
<1>4. Applied(CaughtUp, u) = CaughtUp
  BY <1>3 DEF Applied
<1>5. Follows(CaughtUp, order_index, repriced)
  BY DEF FeedInv
<1>6. CASE fillNodeFully
  <2> DEFINE v == BookUpdate("CANCEL", Node, node.side, node.price, 0)
  <2>1. v \in MarketUpdate /\ v.type = "CANCEL" /\ v.order_id = Node
    <3> HIDE DEF node
    <3> QED BY <1>1, <1>2 DEF BookUpdate, MarketUpdate
  <2>2. FillQty = node.qty /\ order_index' = [o \in DOMAIN order_index \ {Node} |-> order_index[o]]
    BY <1>6, FullFillIndex
  <2>3. updates' = <<u, v>>
    BY <1>6, <2>2 DEF fillNodeFully, Publish
  <2>4. repriced' = repriced
    BY <1>1, <2>2, RepricedIs, Zenon
  <2> HIDE DEF u, v, node
  <2>5. /\ snapshot_feed' \in Seq(MarketUpdate) /\ update_queue' \in Seq(MarketUpdate)
        /\ CaughtUp' = Applied(CaughtUp, v)
    BY <1>3, <1>4, <2>1, <2>3, SendsTwo
  <2>6. Follows(Applied(CaughtUp, v), [o \in DOMAIN order_index \ {Node} |-> order_index[o]], repriced)
    BY <1>1, <1>5, <2>1, FollowsCancel
  <2> QED BY <2>2, <2>4, <2>5, <2>6 DEF FeedInv
<1>7. CASE fillNodePartly
  <2> DEFINE v == BookUpdate("MODIFY", Node, node.side, node.price, node.qty - FillQty)
  <2>1. v \in MarketUpdate /\ v.type = "MODIFY" /\ v.order_id = Node /\ v.qty = node.qty - FillQty
    <3> HIDE DEF node
    <3> QED BY <1>1, <1>2 DEF BookUpdate, MarketUpdate
  <2>2. /\ DOMAIN order_index' = DOMAIN order_index
        /\ order_index'[Node].qty = node.qty - FillQty /\ order_index'[Node].side = node.side
        /\ order_index'[Node].price = node.price
        /\ \A o \in DOMAIN order_index : o # Node => order_index'[o] = order_index[o]
    BY <1>7, PartialFillIndex
  <2>3. updates' = <<u, v>>
    BY <1>7 DEF fillNodePartly, Publish, FillQty
  <2>4. repriced' = repriced
    BY <1>1, <2>2, RepricedIs, Zenon
  <2>7. /\ order_index'[Node].qty = v.qty /\ order_index'[Node].side = order_index[Node].side
        /\ order_index'[Node].price = order_index[Node].price
    BY <2>1, <2>2
  <2> HIDE DEF u, v, node
  <2>5. /\ snapshot_feed' \in Seq(MarketUpdate) /\ update_queue' \in Seq(MarketUpdate)
        /\ CaughtUp' = Applied(CaughtUp, v)
    BY <1>3, <1>4, <2>1, <2>3, SendsTwo
  <2>6. Follows(Applied(CaughtUp, v), order_index', repriced)
    BY <1>1, <1>5, <2>1, <2>2, <2>7, FollowsModify
  <2> QED BY <2>4, <2>5, <2>6 DEF FeedInv
<1> QED BY <1>6, <1>7

\* An ADD for the remainder that comes to rest.
LEMMA RestStep ==
  ASSUME ConsistencyInv, FeedInv, engineStep, restRemainder
  PROVE  FeedInv'
<1> DEFINE order == [client_id |-> incoming.client_id, side |-> incoming.side,
                     price |-> incoming.limit_price,
                     original_qty |-> incoming.qty, qty |-> incoming.leaves_qty]
           id == incoming.order_id
           u == BookUpdate("ADD", id, order.side, order.price, order.qty)
<1>1. /\ incoming # None /\ incoming.rests /\ order_index' = Rested(order_index, id, order)
      /\ updates' = <<u>>
  BY DEF restRemainder, restOrder, MatchingDone, Publish
<1>2. incoming \in IncomingOrder /\ incoming.limit_price \in Price /\ id \notin DOMAIN order_index
  BY <1>1 DEF ConsistencyInv, WellTyped, IncomingOutsideBook
<1>3. id \in OrderId /\ order.side \in Side /\ order.price \in Price /\ order.qty \in Nat
  BY <1>2 DEF IncomingOrder
<1> HIDE DEF id, order
<1>4. /\ u \in MarketUpdate /\ u.type = "ADD" /\ u.order_id = id
      /\ u.side = order.side /\ u.price = order.price /\ u.qty = order.qty
  BY <1>3 DEF BookUpdate, MarketUpdate
<1> HIDE DEF u
<1>5. /\ snapshot_feed' \in Seq(MarketUpdate) /\ update_queue' \in Seq(MarketUpdate)
      /\ CaughtUp' = Applied(CaughtUp, u)
  BY <1>1, <1>4, SendsOne
<1>6. DOMAIN order_index' \ DOMAIN order_index = {id}
  BY <1>1, <1>2 DEF Rested
<1>7. repriced' = repriced \ {id}
  BY <1>1, <1>6, RepricedIs
<1>8. Follows(Applied(CaughtUp, u), Rested(order_index, id, order), repriced \ {id})
  BY <1>2, <1>4, FollowsAdd DEF FeedInv
<1> QED BY <1>1, <1>5, <1>7, <1>8 DEF FeedInv

LEMMA RequestStep ==
  ASSUME ConsistencyInv, FeedInv, engineStep, NEW req \in Request, processRequest(req)
  PROVE  FeedInv'
<1> DEFINE id == req.order_id
           q == req.qty
<1>1. incoming = None /\ id \in OrderId /\ RequestKinds(id, q)
  BY RequestEffect
<1> HIDE DEF id, q
<1>2. CASE Rejecting \/ Accepting(id, q)
  BY <1>2, QuietStep DEF Rejecting, Accepting
<1>3. CASE Cancelling(id)
  <2>1. PICK side \in Side, price \in Price, n \in Nat : updates' = << BookUpdate("CANCEL", id, side, price, n) >>
    BY <1>3 DEF Cancelling
  <2> DEFINE u == BookUpdate("CANCEL", id, side, price, n)
  <2>2. u \in MarketUpdate /\ u.type = "CANCEL" /\ u.order_id = id
    BY <1>1 DEF BookUpdate, MarketUpdate
  <2>3. updates' = <<u>>
    BY <2>1
  <2> HIDE DEF u
  <2>4. /\ id \in DOMAIN order_index /\ order_index' = [o \in DOMAIN order_index \ {id} |-> order_index[o]]
        /\ incoming' = None
    BY <1>3 DEF Cancelling
  <2>5. repriced' = repriced
    BY <1>1, <2>4, RepricedIs
  <2>6. Follows(Applied(CaughtUp, u), [o \in DOMAIN order_index \ {id} |-> order_index[o]], repriced)
    BY <2>2, <2>4, FollowsCancel, Zenon DEF FeedInv
  <2> QED BY <2>2, <2>3, <2>4, <2>5, <2>6, SendsOne DEF FeedInv
<1>4. CASE Repricing(id, q)
  <2>1. /\ id \in DOMAIN order_index /\ order_index' = [o \in DOMAIN order_index \ {id} |-> order_index[o]]
        /\ incoming' # None /\ updates' = <<>>
    BY <1>4 DEF Repricing, Taking
  <2>2. DOMAIN order_index \ DOMAIN order_index' = {id}
    BY <2>1
  <2>3. repriced' = repriced \cup {id}
    BY <1>1, <2>1, <2>2, RepricedIs
  <2>4. Follows(CaughtUp, [o \in DOMAIN order_index \ {id} |-> order_index[o]], repriced \cup {id})
    BY <2>1, FollowsReprice, Zenon DEF FeedInv
  <2> QED BY <2>1, <2>3, <2>4, SendsNothing DEF FeedInv
<1>5. CASE Requantifying(id, q)
  <2>1. CASE updates' = <<>> /\ order_index' = order_index
    BY <2>1, QuietStep
  <2>2. CASE \E side \in Side, price \in Price : updates' = << BookUpdate("MODIFY", id, side, price, q) >>
    <3>1. PICK side \in Side, price \in Price : updates' = << BookUpdate("MODIFY", id, side, price, q) >>
      BY <2>2
    <3> DEFINE u == BookUpdate("MODIFY", id, side, price, q)
    <3>2. /\ id \in DOMAIN order_index /\ DOMAIN order_index' = DOMAIN order_index
          /\ order_index'[id].qty = q /\ order_index'[id].side = order_index[id].side
          /\ order_index'[id].price = order_index[id].price
          /\ \A o \in DOMAIN order_index : o # id => order_index'[o] = order_index[o]
          /\ incoming' = None /\ q \in Nat
      BY <1>5 DEF Requantifying
    <3>3. u \in MarketUpdate /\ u.type = "MODIFY" /\ u.order_id = id /\ u.qty = q
      BY <1>1, <3>2 DEF BookUpdate, MarketUpdate
    <3>4. updates' = <<u>>
      BY <3>1
    <3> HIDE DEF u
    <3>5. repriced' = repriced
      BY <1>1, <3>2, RepricedIs
    <3>6. Follows(CaughtUp, order_index, repriced)
      BY DEF FeedInv
    <3>7. Follows(Applied(CaughtUp, u), order_index', repriced)
      BY <3>2, <3>3, <3>6, FollowsModify
    <3> QED BY <3>3, <3>4, <3>5, <3>7, SendsOne DEF FeedInv
  <2> QED BY <1>5, <2>1, <2>2 DEF Requantifying
<1> QED BY <1>1, <1>2, <1>3, <1>4, <1>5 DEF RequestKinds

LEMMA EngineStep ==
  ASSUME ConsistencyInv, FeedInv, engineStep
  PROVE  FeedInv'
<1>1. Next
  BY DEF engineStep
<1>2. CASE enterLevel \/ skipNode \/ cancelRemainder \/ completelyFilled
  BY <1>2, QuietStep, Zenon DEF enterLevel, skipNode, cancelRemainder, completelyFilled, Publish
<1>3. CASE fillNodeFully \/ fillNodePartly
  BY <1>3, FillStep
<1>4. CASE restRemainder
  BY <1>4, RestStep
<1>5. CASE \E req \in Request : processRequest(req)
  BY <1>5, RequestStep
<1> QED BY <1>1, <1>2, <1>3, <1>4, <1>5 DEF Next, Matching, matchIncoming

\* The feed's thread and the service's thread move updates on; what the mirror will show
\* when it has caught up stays the same.
LEMMA ForwardStep ==
  ASSUME FeedInv, forwardUpdate
  PROVE  FeedInv'
<1>1. /\ update_queue # <<>> /\ update_queue' = Tail(update_queue)
      /\ snapshot_feed' = Append(snapshot_feed, Head(update_queue)) /\ mirror' = mirror
      /\ order_index' = order_index /\ repriced' = repriced
  BY DEF forwardUpdate, forward, vars
<1>2. snapshot_feed \in Seq(MarketUpdate) /\ update_queue \in Seq(MarketUpdate)
  BY DEF FeedInv
<1>3. /\ snapshot_feed' \in Seq(MarketUpdate) /\ update_queue' \in Seq(MarketUpdate)
      /\ snapshot_feed' \o update_queue' = snapshot_feed \o update_queue
  BY <1>1, <1>2, ForwardKeepsOrder
<1>4. CaughtUp' = CaughtUp
  BY <1>1, <1>3, Zenon DEF CaughtUp
<1> QED BY <1>1, <1>3, <1>4 DEF FeedInv

LEMMA MirrorStep ==
  ASSUME FeedInv, mirrorUpdate
  PROVE  FeedInv'
<1> DEFINE both == snapshot_feed \o update_queue
<1>1. /\ snapshot_feed # <<>> /\ snapshot_feed' = Tail(snapshot_feed)
      /\ mirror' = Applied(mirror, Head(snapshot_feed)) /\ update_queue' = update_queue
      /\ order_index' = order_index /\ repriced' = repriced
  BY DEF mirrorUpdate, applyUpdate, vars
<1>2. snapshot_feed \in Seq(MarketUpdate) /\ update_queue \in Seq(MarketUpdate)
  BY DEF FeedInv
<1>3. /\ Tail(snapshot_feed) \in Seq(MarketUpdate) /\ both \in Seq(MarketUpdate) /\ both # <<>>
      /\ Head(both) = Head(snapshot_feed) /\ Tail(both) = Tail(snapshot_feed) \o update_queue
  BY <1>1, <1>2, FirstOfBoth
<1> HIDE DEF both
<1>4. Replayed(Applied(mirror, Head(both)), Tail(both)) = Replayed(mirror, both)
  BY <1>3, ReplayHead
<1>5. CaughtUp' = CaughtUp
  BY <1>1, <1>3, <1>4, Zenon DEF CaughtUp, both
<1> QED BY <1>1, <1>2, <1>3, <1>5 DEF FeedInv

LEMMA FeedInvariant == FeedSpec => [](ConsistencyInv /\ FeedInv)
<1>1. FeedInit => ConsistencyInv /\ FeedInv
  <2> SUFFICES ASSUME FeedInit PROVE ConsistencyInv /\ FeedInv
    OBVIOUS
  <2>1. ConsistencyInv
    BY InitConsistent DEF FeedInit
  <2>2. /\ snapshot_feed = <<>> /\ update_queue = <<>> /\ mirror = EmptyMirror /\ repriced = {}
        /\ DOMAIN order_index = {}
    BY DEF FeedInit, MirrorInit, Init
  <2>3. snapshot_feed \o update_queue = <<>>
    BY <2>2
  <2>4. CaughtUp = EmptyMirror
    BY <2>2, <2>3, ReplayNothing DEF CaughtUp
  <2>5. DOMAIN EmptyMirror = {}
    BY DEF EmptyMirror
  <2> QED BY <2>1, <2>2, <2>4, <2>5 DEF FeedInv, Follows
<1>2. ConsistencyInv /\ FeedInv /\ [FeedNext]_<<vars, feedVars>> => (ConsistencyInv /\ FeedInv)'
  <2> SUFFICES ASSUME ConsistencyInv, FeedInv, [FeedNext]_<<vars, feedVars>>
               PROVE  ConsistencyInv' /\ FeedInv'
    OBVIOUS
  <2>1. [Next]_vars
    BY DEF FeedNext, engineStep, forwardUpdate, mirrorUpdate
  <2>2. ConsistencyInv'
    BY <2>1, ConsistencyStep
  <2>3. CASE FeedNext
    BY <2>2, <2>3, EngineStep, ForwardStep, MirrorStep DEF FeedNext
  <2>4. CASE UNCHANGED <<vars, feedVars>>
    BY <2>2, <2>4 DEF FeedInv, CaughtUp, vars, feedVars
  <2> QED BY <2>2, <2>3, <2>4
<1> QED BY <1>1, <1>2, PTL DEF FeedSpec

\* However far MarketDataFeed's and BookSnapshotService's threads lag behind the matching thread,
\* the updates under way bring the mirror to every resting order with its side, price and
\* remaining quantity: no change to an order that stays goes unannounced, or announced in the
\* wrong order.
THEOREM MirrorFollowsBook == FeedSpec => []MirrorShowsResting
<1>1. FeedInv => MirrorShowsResting
  BY DEF FeedInv, Follows, MirrorShowsResting, BookEntries
<1> QED BY <1>1, FeedInvariant, PTL

\* What the mirror shows besides is exactly what modifyOrder took out at a new price, for which
\* it sends no update, and what has not come to rest again since.
THEOREM OnlyRepricingLeavesEntries == FeedSpec => []OnlyRepricedLinger
<1>1. FeedInv => OnlyRepricedLinger
  BY DEF FeedInv, Follows, OnlyRepricedLinger
<1> QED BY <1>1, FeedInvariant, PTL
===============================================================================
