------------------------------ MODULE MCRequests ------------------------------
(* The requests of the runs that compose the book with something else. *)
EXTENDS SymbolOrderBook, TLC

CONSTANTS Qty

Entry(types, sides, prices, qtys) ==
  [order_type : types, client_id : ClientId, order_id : OrderId,
   side : sides, price : prices, qty : qtys]

MCRequest ==
  UNION {
    Entry({"LIMIT", "IOC"}, {"BUY", "SELL"}, Price, Qty),
    Entry({"MARKET"}, {"BUY", "SELL"}, {Invalid_Price}, Qty),
    Entry({"CANCEL"}, {"INVALID"}, {Invalid_Price}, {Invalid_Qty}),
    Entry({"MODIFY"}, {"INVALID"}, Price, Qty),
    Entry({"INVALID"}, {"BUY"}, {1}, {1}) }

MCInvalid_Price == -1

MCInvalid_Qty == 99

Symmetry == Permutations(ClientId) \cup Permutations(OrderId)
===============================================================================
