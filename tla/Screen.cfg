SPECIFICATION ScreenSpec
CONSTANTS
  w_chars = 2
  h_chars = 2
  Letters = {"a", "b"}
  RowBound = 3
  TextBound = 8
INVARIANTS
  ScreenShowsTail
