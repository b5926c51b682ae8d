SPECIFICATION FairSpec
CONSTANTS
  Channel = {1}
  Tables <- EmptyOrAdjacent
  Guide <- ProgramsOfOne
  HasRemote = FALSE
  MaxTime = 3
  MaxMessages = 0
  MaxFaults = 2
INVARIANTS OrphansAccounted
PROPERTIES RecordingStops
CHECK_DEADLOCK FALSE
