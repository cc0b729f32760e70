\* A later receive time overtakes an earlier one.
SPECIFICATION Spec
CONSTANTS
  Producer = {p1, p2}
  Symbol = {s1}
  Unknown = s0
  MaxPending = 2
  MaxSubmits = 1
  MaxClock = 2
INVARIANT RoutedInReceiveTimeOrder
