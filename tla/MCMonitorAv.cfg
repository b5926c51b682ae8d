SPECIFICATION Spec
CONSTANTS
  Name = {n1, n2}
  NoName = NoName
  Commands <- AvCommands
  FifoCap = 2
  ReadMax = 1
  PacketMax = 1
  MaxFrame = 3
INVARIANTS NoUseAfterDestroy SessionsWhole NoHoldAndWait
PROPERTIES SessionsSpec
CHECK_DEADLOCK FALSE
