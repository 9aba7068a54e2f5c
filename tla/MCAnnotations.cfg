SPECIFICATION Spec
CONSTANTS
  main = main
  login = login
  check = check
  show = show
  printf = printf
  counter = counter
  absent = absent
  nofile = nofile
  Main = main
  Modules <- MCModules
  Files <- MCFiles
  Elements <- MCElements
  NoFile = nofile
  Absent = absent
  Percentages = {0, 50, 100, 150}
INVARIANTS
  PickedOnce
  CreatedFileReadBack
  FirstEntryKept
CHECK_DEADLOCK FALSE
