SPECIFICATION Spec
CONSTANTS
  Length = 3
  Free = 9
  Inputs <- MCInputs
  Lanes = {"Slice"}
  Patterns <- PlainSlice
  Again <- Repeated
PROPERTIES
  EndIsFinal
