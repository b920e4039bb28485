SPECIFICATION FairSpec
CONSTANTS
  Items = {1, 2, 3, 4}
  MaxThreads = 3
  ItemLabels <- Places
  NoItem = NoItem
  Graphs <- FourGraphs
  MayThrow = {3}
INVARIANT TypeOK
PROPERTIES ImplementsGraphWalk ProcessGraphEnds
CHECK_DEADLOCK FALSE
