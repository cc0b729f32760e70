\* The response stream agrees with the book.
SPECIFICATION ViewSpec
CONSTANTS
  ClientId = {c1, c2}
  OrderId = {o1, o2}
  Price = {1, 2}
  Qty = {1, 2, 3}
  Request <- MCRequest
  Invalid_Price <- MCInvalid_Price
  Invalid_Qty <- MCInvalid_Qty
  None = None
SYMMETRY Symmetry
VIEW ClientViewView
INVARIANTS
  ViewMatchesBook
  ViewMatchesIncoming
