SPECIFICATION FairSpec
CONSTANTS
  t1 = t1
  t2 = t2
  p1 = p1
  p2 = p2
  a = a
  b = b
  d = d
  NoPath = NoPath
  Threads = {t1}
  Procs = {p1}
  ProcOf <- Single
  Paths = {a, b, d}
  Refs <- Tri
  Deriver <- MadeByD
  KeepOutputs = TRUE
  KeepDerivations = TRUE
  Roots = {b}
  InitValid = {a, b, d}
  InitDisk = {a, b, d}
  MaxGC = 2
  MaxExits = 0
INVARIANTS TypeOK PermanentRootsKept OnlySparedLeft
PROPERTY AddTempRootReturns
CHECK_DEADLOCK FALSE
