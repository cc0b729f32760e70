\* The book, and that it implements price-time priority: three orders, two clients, two prices.
SPECIFICATION Spec
CONSTANTS
  ClientId = {c1, c2}
  OrderId = {o1, o2, o3}
  Price = {1, 2}
  Qty = {1, 2}
  Request <- MCRequest
  Invalid_Price <- MCInvalid_Price
  Invalid_Qty <- MCInvalid_Qty
  None = None
SYMMETRY Symmetry
VIEW BookView
INVARIANTS
  TypeOK
  BookConsistent
  IncomingOutsideBook
  CrossedOnlyBySelf
  SweptAreOwn
PROPERTIES
  SweepAdvances
  ImplementsPriceTime
