CONSTANTS
  ada = ada
  bo = bo
  docs = docs
  Docs = Docs
  f = f
  f1 = f1
  objs = objs
  o1 = o1
  c1 = c1
  c2 = c2
  h1 = h1
  h2 = h2
  Names = {ada, bo}
  Managers = {ada}
  Objective = o1
  Shared = objs
  Crew = {bo}
  Paths <- MCPaths
  Others <- MCSuffix
  Alike <- MCNone
  Hashes = {h1, h2}
  NoHash = NoHash
  Conns = {c1, c2}
  MaxWrites = 3
  MaxEdits = 1
  MaxPosts = 1
  MaxFaults = 1
SYMMETRY Interchangeable
SPECIFICATION Spec
CHECK_DEADLOCK FALSE
INVARIANTS
  RefsCountEntries
  BytesPresent
  TreeClosed
  GrantsHaveFiles
