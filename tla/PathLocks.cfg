SPECIFICATION FairSpec
CONSTANTS
  Procs = {p1, p2}
  Paths = {1, 2}
  Inodes = {i1, i2, i3}
  NoFile = NoFile
  NoProc = NoProc
INVARIANTS TypeOK MutualExclusion NoCircularWait NothingLeftBehind
PROPERTIES RemovalByOwner WaitersProceed
