SPECIFICATION EINTRSpec
CONSTANTS
  Procs = {p1, p2}
  Paths = {1}
  Inodes = {i1, i2, i3}
  NoFile = NoFile
  NoProc = NoProc
INVARIANT MutualExclusion
