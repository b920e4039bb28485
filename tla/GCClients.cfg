SPECIFICATION Spec
CONSTANTS
  t1 = t1
  t2 = t2
  p1 = p1
  p2 = p2
  a = a
  b = b
  d = d
  NoPath = NoPath
  Threads = {t1, t2}
  Procs = {p1, p2}
  ProcOf <- OwnProcess
  Paths = {a, b}
  Refs <- Pair
  Deriver <- NoDeriver
  KeepOutputs = FALSE
  KeepDerivations = FALSE
  Roots = {}
  InitValid = {a, b}
  InitDisk = {a, b}
  MaxGC = 1
  MaxExits = 1
INVARIANTS StoreClosed RootsHonoured CreationUndisturbed ValidOnDisk GarbageCollected
CHECK_DEADLOCK FALSE
