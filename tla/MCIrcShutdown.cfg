SPECIFICATION FairSpec
CONSTANTS
 Hosts = {h1}
 Channels = {a}
 QuitSecs = {1}
 MaxQueue = 2
PROPERTY ShutdownEnds
