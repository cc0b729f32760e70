\* The logger's queue, shared by two matching threads; never full.
SPECIFICATION Spec
CONSTANTS
  Producer = {p1, p2}
  Size = 5
  MaxWrites = 2
  Empty = Empty
INVARIANT NoElementLost
