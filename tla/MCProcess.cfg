SPECIFICATION FairSpec
CONSTANTS
  MAX_PROCESSES = 4
  LastBound = 11
  StackWord = {0, 65520}
INVARIANTS
  OwnRegisters
  UrpExplained
  WindowIsCurrent
  HangNeedsFullTable
  RefusesOnce
PROPERTIES
  ImagesAreKept
  EveryoneRuns
