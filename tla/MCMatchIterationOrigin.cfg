SPECIFICATION Spec
CONSTANTS
  Length = 3
  Free = 9
  Inputs <- MCInputs
  Lanes = {"Core"}
  Patterns <- LookingBehind
  Again <- NoRepeat
INVARIANTS
  MatchesFollow
