CONSTANTS
  h1 = h1
  h2 = h2
  Handles = {h1, h2}
  Sessions = {"s"}
  Stamps = {1, 2}
  Items = {"i"}
  LlmAge = 1
  ToolAge = 1
  MaxPending = 2
  MaxBlows = 1
  Ttl = 1
  MaxFlight = 2
  MaxLost = 1
  MaxCrashes = 1
SPECIFICATION FairSpec
CHECK_DEADLOCK FALSE
INVARIANTS
  SignalMatchesWork
  BeatsWhileBusy
PROPERTIES
  SpinnerStops
  WorkIsSeen
