SPECIFICATION BroadcastSpec
CONSTANTS
  FrameSize = 2
  CaptureMax = 3
  Rate = 5
  Frames = 2
  MaxSamples = 9
  MaxPictures = 2
  MaxFailed = 1
  PacketSize = 2
  ChunkMax = 5
  MaxBytes = 7
  MaxFailures = 1
  MuxMax = 3
INVARIANTS TypeOK StreamInOrder SoundInOrder SoundInStep
CHECK_DEADLOCK FALSE
