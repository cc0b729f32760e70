------------------------------ MODULE ClientView ------------------------------
(***************************************************************************)
(* What a client knows of their orders from the response stream alone: the *)
(* order book composed with a reader of every response it publishes.       *)
(***************************************************************************)
EXTENDS SymbolOrderBook

VARIABLES
  open,      \* the orders the stream says are alive
  ordered,   \* the quantity of the last ACCEPTED or MODIFIED
  executed,  \* the sum of exec_qty since then
  leaves     \* the last leaves_qty reported

viewVars == <<open, ordered, executed, leaves>>

ViewInit ==
  /\ open = {}
  /\ ordered = [o \in OrderId |-> 0]
  /\ executed = [o \in OrderId |-> 0]
  /\ leaves = [o \in OrderId |-> 0]

Published == {responses'[k] : k \in DOMAIN responses'}

\* A step publishes at most one response for an order; rejections say nothing
\* about the state of an order.
ReportsOn(o) ==
  {r \in Published :
     r.order_id = o /\ r.status \in {"ACCEPTED", "MODIFIED", "FILLED", "CANCELED"}}

Report(o) == CHOOSE r \in ReportsOn(o) : TRUE

Restarts(r) == r.status \in {"ACCEPTED", "MODIFIED"}

Ends(r) == r.status = "CANCELED" \/ (r.status = "FILLED" /\ r.leaves_qty = 0)

Read ==
  LET reported == {o \in OrderId : ReportsOn(o) # {}} IN
  /\ open' = (open \cup {o \in reported : Restarts(Report(o))})
             \ {o \in reported : Ends(Report(o))}
  /\ ordered' = [o \in OrderId |->
       IF o \in reported /\ Restarts(Report(o)) THEN Report(o).leaves_qty ELSE ordered[o]]
  /\ executed' = [o \in OrderId |->
       IF o \notin reported THEN executed[o]
       ELSE IF Restarts(Report(o)) THEN 0 ELSE executed[o] + Report(o).exec_qty]
  /\ leaves' = [o \in OrderId |-> IF o \in reported THEN Report(o).leaves_qty ELSE leaves[o]]

ViewSpec == Init /\ ViewInit /\ [][Next /\ Read]_<<vars, viewVars>>

\* Between requests the responses alone tell which orders rest and how much of
\* each is left, and the quantities reported for a resting order add up: whatever
\* mix of fills, partial fills, cancels and modifications it has been through, the
\* stream neither loses the order nor keeps it alive.
ViewMatchesBook ==
  incoming = None =>
    /\ open = DOMAIN order_index
    /\ \A o \in open :
         /\ leaves[o] = order_index[o].qty
         /\ executed[o] + leaves[o] = ordered[o]

\* While an order is matched, its reports and the matching loop agree.
ViewMatchesIncoming ==
  incoming # None /\ incoming.leaves_qty > 0 =>
    /\ incoming.order_id \in open
    /\ leaves[incoming.order_id] = incoming.leaves_qty
    /\ executed[incoming.order_id] + incoming.leaves_qty = ordered[incoming.order_id]

\* A client that adds up exec_qty_, "quantity filled in this event", never counts more than
\* was ordered.
ExecutedAtMostOrdered == \A o \in OrderId : executed[o] <= ordered[o]
===============================================================================
