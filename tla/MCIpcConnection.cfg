CONSTANTS
  Backlog = 1
  Room = 3
  MaxRuns = 4
  MaxCommands = 5
  MaxReboots = 1
SPECIFICATION FairSpec
INVARIANTS InOrder
PROPERTIES CommandsKept Served
