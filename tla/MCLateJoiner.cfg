\* A consumer that connects late, over any stream of updates for three orders.
SPECIFICATION JoinerSpec
CONSTANTS
  OrderId = {o1, o2, o3}
  Side = {BUY}
  Price = {1}
  Qty = {1, 2}
  MaxUnderWay = 2
  MaxBacklog = 2
  End = End
SYMMETRY Symmetry
INVARIANT OnlyStaleDiffer
