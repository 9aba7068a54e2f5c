SPECIFICATION FairSpec
CONSTANTS
  a = a
  g = g
  h = h
  d = d
  NoFunction = "nofunction"
  NoNode = "none"
  NoValue = "none"
  Annotated = a
  Functions <- MCFunctions
  Declarations <- MCDeclarations
  WithPDG <- MCWithPDG
  Nodes <- MCNodes
  Values <- MCNodes
  Kind <- MCKind
  Parent <- MCParent
  Value <- MCValue
  Pointer <- MCPointer
  StoredValue <- MCStoredValue
  EdgeSets <- MCEdgeSets
  Annotations <- MCAnnotations
  Returns <- MCReturns
INVARIANTS
  LevelsJustified
  AssertionsHold
  FindsAllReachable
PROPERTIES
  Termination
CHECK_DEADLOCK FALSE
