SPECIFICATION Spec
CONSTANTS
  Ecalls = {"show_score", "move"}
  Ocalls = {"draw_line", "puts"}
  Programs <- MCPrograms
INVARIANTS
  SelectorsDistinct
  StartedComplete
  StartsWhenFoundOnce
CHECK_DEADLOCK FALSE
