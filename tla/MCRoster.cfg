CONSTANTS
  ada = ada
  bo = bo
  admin = admin
  k1 = k1
  k2 = k2
  Names = {ada, bo}
  Presets = {admin}
  Admin = admin
  Raws = {{}, {"members.manage"}, {admin}}
  Conns = {k1, k2}
  Nobody = Nobody
  MaxTokens = 3
  MaxEdits = 4
  MaxCrashes = 1
SPECIFICATION RosterSpec
CHECK_DEADLOCK FALSE
INVARIANTS
  AnAdminRemains
  TokensFollowMembers
