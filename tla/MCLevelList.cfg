\* Four orders at two prices in a pool of four blocks: the fourth order exhausts it.
SPECIFICATION ListSpec
CONSTANTS
  OrderId = {o1, o2, o3, o4}
  Price = {1, 2}
  Size = 4
  Null = Null
VIEW ListView
INVARIANTS
  TypeOK
  HandsOutFreeBlocks
  FatalOnlyWhenFull
  LinksSound
  SweepVisitsAll
PROPERTIES
  ImplementsLevels
  SweepEnds
CHECK_DEADLOCK FALSE
