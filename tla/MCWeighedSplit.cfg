SPECIFICATION SplitSpec
CONSTANTS
  s = s
  main = main
  helper = helper
  library = library
  null = null
  Functions <- MCFunctions
  NoFunction = null
  Programs <- MCPrograms
  Splits <- MCSplits
  Types <- MCTypes
  LOOP_COST = 3
  POS_INFINITY = 7
  Main = main
  Declarations = {library}
INVARIANTS
  EdgesPaired
  CallNumbersBounded
  CopiesCorrespond
  OnlyFirstLevelWeighs
  SwitchesCounted
  IlpMinimumCut
CHECK_DEADLOCK FALSE
