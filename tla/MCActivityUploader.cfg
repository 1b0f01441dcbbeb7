SPECIFICATION Spec
CONSTANTS
  MaxEvents = 6
  Size <- MCSize
  Invalid <- MCInvalid
  MaxBatch = 2
  MaxQueue = 3
  MaxBytes = 5
  MaxTroubles = 2
CHECK_DEADLOCK FALSE
INVARIANTS InOrder NothingLostSilently QueueReach NeverStranded
PROPERTIES Delivered
