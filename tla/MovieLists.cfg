SPECIFICATION Spec

CONSTANTS
  p = p
  q = q
  r = r
  Titles <- MCTitles
  Attr <- MCAttr
  IntMin <- MCIntMin
  IntMax = 3
  Addrs <- MCAddrs
  Free = Free
  Slices <- MCSlices
  PageSize = 2
  Deltas <- MCDeltas
  SizeMax = 7

INVARIANTS
  ListsHold
  SortedStrictly
  PagesShowAll

PROPERTIES
  SlicesReturn
  SelectsInterval
