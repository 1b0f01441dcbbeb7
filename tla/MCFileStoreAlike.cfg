CONSTANTS
  ada = ada
  bo = bo
  docs = docs
  Docs = Docs
  f = f
  f1 = f1
  objs = objs
  o1 = o1
  c1 = c1
  c2 = c2
  h1 = h1
  h2 = h2
  Names = {ada, bo}
  Managers = {}
  Objective = o1
  Shared = objs
  Crew = {}
  Paths <- MCBoth
  Others <- MCNoSuffix
  Alike <- MCAlike
  Hashes = {h1, h2}
  NoHash = NoHash
  Conns = {c1, c2}
  MaxWrites = 1
  MaxEdits = 2
  MaxPosts = 1
  MaxFaults = 0
SPECIFICATION Spec
CHECK_DEADLOCK FALSE
PROPERTY
  RemovesOneSubtree
