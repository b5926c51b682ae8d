CONSTANTS
  Connections <- MCConnections
  BufferSize = 3
  Growth = 4
SPECIFICATION FairSpec
CHECK_DEADLOCK FALSE
INVARIANTS DeliveredAsSent NoneLost
PROPERTY Drains
