SPECIFICATION Spec
CONSTANTS
  Inodes = {i1, i2, i3}
  None = None
  Owners = 3
  MaxScans = 3
INVARIANT RootsVisible
PROPERTY CreationEnds
CHECK_DEADLOCK FALSE
