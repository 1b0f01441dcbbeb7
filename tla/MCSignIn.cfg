CONSTANTS
  ada = ada
  bo = bo
  i1 = i1
  i2 = i2
  Names = {ada, bo}
  Codeless = Codeless
  Ids = {i1, i2}
  Ttl = 1
  Window = 2
  MaxFailures = 1
  MaxCodeless = 2
  MaxClock = 3
  MaxSecrets = 2
  MaxRefusals = 4
  MaxFaults = 1
SYMMETRY Alike
SPECIFICATION Spec
CHECK_DEADLOCK FALSE
INVARIANTS
  NoReplay
  GuessesBounded
  EndedForGood
