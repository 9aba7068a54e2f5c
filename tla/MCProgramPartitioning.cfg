SPECIFICATION Spec
CONSTANTS
  main = main
  a = a
  b = b
  c = c
  ext = ext
  g = g
  h = h
  Main = main
  Functions <- MCFunctions
  Globals <- MCGlobals
  Programs <- MCProgs
  OptNames <- MCOptNames
INVARIANTS
  TypeOK
  PartitionsComplementary
  SensitiveStaysSecure
  InterfacesAgree
  LevelsMinimal
  RelatedAccountedFor
  EntryPointsJustified
PROPERTIES
  ImplementsSecureSplit
CHECK_DEADLOCK FALSE
