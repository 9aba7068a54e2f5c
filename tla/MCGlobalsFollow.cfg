SPECIFICATION Spec
CONSTANTS
  main = main
  a = a
  b = b
  c = c
  ext = ext
  g = g
  h = h
  Main = main
  Functions <- MCFunctions
  Globals <- MCGlobals
  Programs <- MovedCallee
  OptNames <- DocumentedMove
INVARIANT GlobalsFollowFunctions
CHECK_DEADLOCK FALSE
