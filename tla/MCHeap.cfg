SPECIFICATION FairSpec
CONSTANTS
  LONG = 2
  HEADER = 4
  QUICK = 4
  NRQUICKLISTS = 3
  PAGE = 48
  End = 6
  HeapBound = 102
  LiveBound = 3
  Sizes = {3, 9, 17}
INVARIANTS
  NoOverlap
  ListsSeparate
  Coalesced
PROPERTIES
  ImplementsAllocator
  CallsReturn
