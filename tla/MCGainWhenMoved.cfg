SPECIFICATION Spec
CONSTANTS
  s = s
  main = main
  a = a
  b = b
  c = c
  Functions <- MCFunctions
  Graphs <- MCGraphs
  Starts <- MCStarts
  POS_INFINITY = 5
PROPERTIES
  GainWhenMoved
CHECK_DEADLOCK FALSE
