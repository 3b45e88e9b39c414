SPECIFICATION LiveSpec
CONSTANTS
  Length = 3
  Free = 9
  Inputs <- MCInputs
  Lanes = {"Core", "Count", "Python", "Generic", "Slice"}
  Patterns <- MCPatterns
  Again <- MCAgain
INVARIANTS
  TypeOK
  MatchesFollow
  NothingLeft
PROPERTIES
  EndIsFinal
  EveryCallReturns
