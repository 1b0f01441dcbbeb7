CONSTANTS
  ada = ada
  bo = bo
  cy = cy
  Ids = {o1}
  Members = {ada, bo, cy}
  Admins = {ada}
  Creators = {bo}
  Cancellers = {ada}
  Reassigners = {ada}
  WatchEditors = {ada}
  Reasons = {r1}
  Nobody = Nobody
  NoReason = NoReason
  MaxNames = 1
  MaxEvents = 3
  MaxPosts = 1
  MaxInflight = 2
  MaxFaults = 1
SPECIFICATION Spec
CHECK_DEADLOCK FALSE
INVARIANTS
  RowFollowsAudit
  ActorsWereEntitled
  ThreadFollowsAudit
  RightAudience
PROPERTIES
  EventsAnnounced
  ImplementsLifecycle
