SPECIFICATION FairImageSpec
CONSTANTS
  Total = 18
  Boot = 4
  NodeCount = 7
  Parent <- MCParent
  Level <- MCLevel
  User = {p, q}
  Kernel = krn
  First = p
  BootTree <- MCBootTree
  MAPPER_PAGES = 10
  P = 4
  PageNode <- MCPageNode
  Images <- MCImages
  Align = {0, 3}
  MaxCalls = 5
INVARIANTS
  CounterCovered
  NoDoubleUse
  MapperFits
  RomTableOnlyWhenExhausted
  TreeClosed
  LoadedWhole
  CloneFaithful
  
PROPERTIES
  ImplementsStore
  NoFrameDropped
  CallsEnd
