SPECIFICATION Spec
CONSTANTS
  Channel = {1, 2}
  Tables <- EmptyOrProlonged
  Guide <- Programs
  HasRemote = TRUE
  MaxTime = 3
  MaxMessages = 1
  MaxFaults = 1
INVARIANTS Durable MonitorAgrees RecordingNamed ProgramDescribed LoudnessOfItsOwn EntryRecorded
CHECK_DEADLOCK FALSE
