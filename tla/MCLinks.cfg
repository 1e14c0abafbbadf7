SPECIFICATION LinksSpec
CONSTANTS
  Packets <- FourPackets
  Bases = {9}
  Windows = 6
  FreeWindows = 3
  WindowSize = 2
  Limits = {2, 3}
  UintRange = 16
  Patience = 1
  MaxAge = 3
  SocketFails = FALSE
  Hosts = {h1}
  Channels = {a, b}
  QuitSecs = {0, 1}
  MaxQueue = 3
CHECK_DEADLOCK FALSE
INVARIANTS AnsweredWasTaken WindowsCount ChannelsInStep
PROPERTIES ImplementsPipe PacketsArrive QuitEnds
