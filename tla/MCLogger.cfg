\* One producer, the logger thread and the destructor: several wraps of a queue of three slots.
SPECIFICATION LogSpec
CONSTANTS
  Producer = {p1}
  Size = 3
  MaxWrites = 8
  Empty = Empty
INVARIANTS
  TypeOK
  FifoUnlessOverrun
  NoSlotRaceUnlessOverrun
  ReadAssertHolds
  LogComplete
PROPERTIES
  EverythingConsumed
  LoggerCloses
