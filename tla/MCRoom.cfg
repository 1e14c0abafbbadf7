SPECIFICATION RoomSpec
CONSTANTS
  Slots = {c1, c2, c3}
  NoSlot = NoSlot
  Addrs = {a1}
  MaxClients = 2
  MaxKicks = 2
  AdminPass = TRUE
  ServerPass = FALSE
  MasterMask <- MCPrivServ
  AutoApprove = TRUE
  MasterLink = TRUE
  Operator = FALSE
  ReachConnecting = FALSE
  ListCommands = {}
  Bots = {b1}
  MaxSaid = 2
  MaxWorlds = 2
  MaxLate = 1
  Players = {p1, p2}
  Names = {"n1", "n2"}
  MaxIds = 2
  MaxLines = 2
SYMMETRY SlotSymmetry
CHECK_DEADLOCK FALSE
INVARIANTS SoleMaster ModeHasHolder GuestListFresh OthersAreHeard AuthFitsRequest
PROPERTIES ImplementsMastership BansClearWhenEmpty OneVictimPerInterval
