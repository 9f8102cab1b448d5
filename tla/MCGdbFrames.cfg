SPECIFICATION Spec
CONSTANTS
  StackBytes = 160
  Pc = {0, 8, 10, 12}
  Taken <- MCTaken
  FpBytes = {4, 52, 100}
INVARIANTS
  FrameStackFits
  LostExplained
  BusErrorHandlerRestored
PROPERTIES
  NormalUseDoesNotCreep
