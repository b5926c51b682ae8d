SPECIFICATION FairSpec
CONSTANTS
  Name = {n1}
  NoName = NoName
  Commands <- ShutdownCommands
  FifoCap = 3
  ReadMax = 2
  PacketMax = 1
  MaxFrame = 2
PROPERTIES MainKeepsLooping FifoDrains ShutdownEnds
CHECK_DEADLOCK FALSE
