------------------------------- MODULE MCBook -------------------------------
EXTENDS BookProperties, TLC

CONSTANTS Qty

Entry(types, sides, prices, qtys) ==
  [order_type : types, client_id : ClientId, order_id : OrderId,
   side : sides, price : prices, qty : qtys]

MCRequest ==
  UNION {
    Entry({"LIMIT", "IOC"}, {"BUY", "SELL"}, Price, Qty),
    Entry({"MARKET"}, {"BUY", "SELL"}, {Invalid_Price}, Qty),
    Entry({"CANCEL"}, {"INVALID"}, {Invalid_Price}, {Invalid_Qty}),
    Entry({"MODIFY"}, {"INVALID"}, Price, Qty),
    Entry({"LIMIT", "IOC"}, {"INVALID"}, Price, {1}),
    Entry({"LIMIT", "MARKET", "IOC", "MODIFY"}, {"BUY"}, {1}, {0, Invalid_Qty}),
    Entry({"LIMIT", "IOC", "MODIFY"}, {"SELL"}, {0}, {1}),
    Entry({"INVALID"}, {"BUY"}, {1}, {1}) }

MCInvalid_Price == -1

MCInvalid_Qty == 99

\* No action and no property of these runs reads what the last step published.
BookView == <<levels, order_index, incoming>>

Symmetry == Permutations(ClientId) \cup Permutations(OrderId)
=============================================================================
