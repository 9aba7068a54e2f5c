SPECIFICATION Spec
CONSTANTS
  s = s
  main = main
  a = a
  b = b
  c = c
  Functions <- MCFunctions
  Graphs <- MCGraphs
  Starts <- MCStarts
  POS_INFINITY = 5
INVARIANTS
  AlwaysSplit
  GainsExact
  KeepsBestPrefix
  NeverWorse
PROPERTIES
  ImplementsMoveChoice
CHECK_DEADLOCK FALSE
