SPECIFICATION CallsSpec
CONSTANTS
  move = move
  score = score
  puts = puts
  ask = ask
  Ecalls = {move, score}
  Ocalls = {puts, ask}
  Arity <- MCArity
  Void = {score, puts}
  Vals = {0, 1}
  Garbage = 99
  MaxDepth = 3
INVARIANTS
  ParametersWrittenBack
CHECK_DEADLOCK FALSE
