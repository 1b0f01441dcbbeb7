CONSTANTS
  o1 = o1
  o2 = o2
  Ids = {o1, o2}
  MaxChanges = 3
  MaxTroubles = 1
SPECIFICATION TrackerSpec
CHECK_DEADLOCK FALSE
INVARIANTS
  QuietCopyIsRight
  MarkersBracket
PROPERTIES
  ComesToRest
