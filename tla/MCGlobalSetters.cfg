SPECIFICATION FairSpec
CONSTANTS
  main = main
  key = key
  helper = helper
  puts = puts
  pos = pos
  fuel = fuel
  s1 = s1
  s2 = s2
  s3 = s3
  s4 = s4
  x = x
  None = none
  Functions <- MCFunctions
  Globals <- MCGlobals
  Nodes <- MCNodes
  Programs <- MCPrograms
INVARIANTS
  CopiesAgree
  StoresForwarded
  CalleesResolved
PROPERTIES
  Termination
