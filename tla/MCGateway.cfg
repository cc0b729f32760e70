\* Two producers, two submissions each, a buffer of two.
SPECIFICATION FairSpec
CONSTANTS
  Producer = {p1, p2}
  Symbol = {s1}
  Unknown = s0
  MaxPending = 2
  MaxSubmits = 2
  MaxClock = 2
INVARIANTS
  TypeOK
  ExactlyOnce
  RealTimeOrder
PROPERTIES
  EventuallyRouted
