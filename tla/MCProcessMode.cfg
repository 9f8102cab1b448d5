SPECIFICATION Spec
CONSTANTS
  MAX_PROCESSES = 4
  LastBound = 11
  StackWord = {0, 65520}
INVARIANTS
  ResumedInUserMode
