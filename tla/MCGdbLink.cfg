SPECIFICATION FairSpec
CONSTANTS
  BUFMAX = 6
  hexchars <- MChexchars
  Code <- MCCode
  Script <- MCScript
  Answer <- MCAnswer
  Noise = {":", "+", "-", "$", "#", "1"}
  MaxErrors = 2
  MaxDamaged = 1
  MaxHasty = 1
INVARIANTS
  NothingForged
  CarriedOutOnce
  AnswersBelong
PROPERTIES
  EveryCommandAnswered
