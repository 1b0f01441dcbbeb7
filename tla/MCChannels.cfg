CONSTANTS
  ada = ada
  bo = bo
  ops = ops
  dev = dev
  Names = {ada, bo}
  Founders = {ada}
  Slugs = {ops, dev}
  MaxChannels = 3
  MaxWaiting = 1
  MaxTeamEdits = 1
  MaxFaults = 1
SYMMETRY EitherSlug
SPECIFICATION Spec
CHECK_DEADLOCK FALSE
INVARIANTS
  OneActivePerSlug
  AnAdminInEach
PROPERTY
  ReadOnlyOnceArchived
