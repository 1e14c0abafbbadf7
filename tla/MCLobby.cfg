SPECIFICATION LobbySpec
CONSTANTS
  Slots = {c1, c2}
  NoSlot = NoSlot
  Addrs = {a1}
  MaxClients = 2
  MaxKicks = 2
  AdminPass = TRUE
  ServerPass = FALSE
  MasterMask <- MCPubServ
  AutoApprove = TRUE
  MasterLink = TRUE
  Operator = TRUE
  ReachConnecting = TRUE
  ListCommands = {"ban", "pban", "gban", "blacklist"}
  LoopSlots = {l1, l2, l3}
  LoopBots = 4
  People = {p1, p2, p3}
  NumTeams = 3
  BotLimit = 3
  MaxRank = 2
SYMMETRY SlotSymmetry
INVARIANTS TypeOK PauseHasAdmin OneAdmin LoopsAgree AutoteamIsFair BotsEvenTeams
PROPERTIES LoopsEnd
