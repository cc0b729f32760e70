\* An order repriced into a complete fill stays in the mirror.
SPECIFICATION FeedSpec
CONSTANTS
  ClientId = {c1, c2}
  OrderId = {o1, o2}
  Price = {1, 2}
  Qty = {1, 2}
  MaxUnderWay = 2
  Request <- MCRequest
  Invalid_Price <- MCInvalid_Price
  Invalid_Qty <- MCInvalid_Qty
  None = None
SYMMETRY Symmetry
VIEW MarketDataView
INVARIANT MirrorIsBook
