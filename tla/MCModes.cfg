SPECIFICATION FairSpec
CONSTANTS
  Players = {p1, p2, p3}
  Bots = {p2}
  FlagPlayers = {p1, p2}
  None = None
  Layouts <- TwoFlags
  FlagLimit = 1
  LowScore = 0
  Versions = 2
  BaseLayouts = {{1, 2}}
  Visited = {1}
  NeutralLimit = 2
  EnemyLimit = 3
  MaxHandOvers = 1
  Clips = {FALSE}
INVARIANTS CarrierFits BarredStillLives CountsFit
PROPERTIES ImplementsCustody GroundIsTemporary EnemyFades
