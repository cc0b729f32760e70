\* exec_qty_ as order_response.h describes it: the sum a client makes of it.
SPECIFICATION ViewSpec
CONSTANTS
  ClientId = {c1, c2}
  OrderId = {o1, o2}
  Price = {1, 2}
  Qty = {1, 2, 3}
  Request <- MCRequest
  Invalid_Price <- MCInvalid_Price
  Invalid_Qty <- MCInvalid_Qty
  None = None
SYMMETRY Symmetry
VIEW ClientViewView
INVARIANT ExecutedAtMostOrdered
