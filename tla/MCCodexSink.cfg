CONSTANTS
  MaxEvents = 3
  MaxTroubles = 1
SPECIFICATION FairSpec
CHECK_DEADLOCK FALSE
INVARIANTS
  TakenInOrder
  FlushedAtTheEnd
PROPERTIES
  EventsSettle
  TeardownEnds
