SPECIFICATION Spec
CONSTANTS
  w_chars = 2
  h_chars = 2
  Letters = {"blank"}
  RowBound = 3
  MAX_ARG = 2
  WORD = 65536
  Digits = {3}
  Commands <- MCCommands
  Junk = {0, 1}
  ArgBound = 33
  GivenBound = 3
INVARIANTS
  WildNeedsArguments
  TextStaysInside
PROPERTIES
  PrintRecovers
