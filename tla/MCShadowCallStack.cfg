SPECIFICATION Spec
CONSTANTS
  main = main
  work = work
  library = library
  external = external
  t1 = t1
  t2 = t2
  Functions = {main, work, library}
  Main = main
  Declared = {library}
  External = external
  Threads = {t1, t2}
  First = t1
  MaxCalls = 3
INVARIANTS
  PairsExact
  ExternalExact
  TotalsExact
CHECK_DEADLOCK FALSE
