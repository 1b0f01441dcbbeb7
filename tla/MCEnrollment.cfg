CONSTANTS
  ada = ada
  bo = bo
  admin = admin
  k1 = k1
  k2 = k2
  d1 = d1
  Names = {ada, bo}
  Presets = {admin}
  Admin = admin
  Raws = {{}, {admin}}
  Conns = {k1, k2}
  Nobody = Nobody
  Codes = {d1}
  MaxTokens = 2
  MaxEdits = 2
  MaxCrashes = 1
  MaxLosses = 1
SPECIFICATION Spec
CHECK_DEADLOCK FALSE
INVARIANTS
  DecidedOnce
  HandedOutOnce
  TokensAccountedFor
PROPERTIES
  EveryDeviceStops
