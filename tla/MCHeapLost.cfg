SPECIFICATION Spec
CONSTANTS
  LONG = 1
  HEADER = 2
  QUICK = 2
  NRQUICKLISTS = 1
  PAGE = 16
  End = 3
  HeapBound = 83
  LiveBound = 4
  Sizes = {4, 8}
INVARIANTS
  NothingLost
