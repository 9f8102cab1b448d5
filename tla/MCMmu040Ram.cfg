SPECIFICATION Spec
CONSTANTS
  Total = 12
  Boot = 4
  NodeCount = 4
  Parent <- MCParent
  Level <- MCLevel
  User = {p, q}
  Kernel = krn
  BootTree <- MCBootTree
  MAPPER_PAGES = 10
INVARIANTS
  RamUsedIsReported
