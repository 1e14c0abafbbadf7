SPECIFICATION FairSpec
CONSTANTS
  Packets <- ThreePackets
  Bases = {9}
  Windows = 6
  FreeWindows = 3
  WindowSize = 2
  Limits = {2, 3}
  UintRange = 16
  Patience = 1
  MaxAge = 3
  SocketFails = TRUE
CHECK_DEADLOCK FALSE
PROPERTIES ReliablePacketsArrive
