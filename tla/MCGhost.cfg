SPECIFICATION Spec
CONSTANTS
  Players = {p1, p2, p3}
  Bots = {p3}
  Layouts = {{1}}
  Visited = {1}
  NeutralLimit = 2
  EnemyLimit = 3
  MaxHandOvers = 0
  Clips = {FALSE, TRUE}
SYMMETRY PlayerSymmetry
PROPERTIES TakenByStanding
