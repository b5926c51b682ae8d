------------------------------ MODULE Recorder ------------------------------
(* recorder.c of apollo_monitor: pictures and captured sound become frames    *)
(* with time stamps.  Sound comes in chunks of any size and is cut anew into  *)
(* the encoder's frames.  Of a recording with pictures a sound frame is       *)
(* stamped with the time of the next picture, and by one more for each        *)
(* further frame until that picture comes; of a recording of sound alone by   *)
(* the samples before it.  The calls of one recorder exclude one another (the *)
(* mutex it is used under); samples are numbered as they are captured.        *)
EXTENDS Integers, Sequences, FiniteSets

CONSTANTS
  FrameSize,       \* audio_codec_context->frame_size, in samples
  CaptureMax,      \* most samples captured at a time
  Rate,            \* the audio sample rate, in samples ...
  Frames,          \* ... in the time of this many pictures
  MaxSamples, MaxPictures, MaxFailed   \* bounds: samples, pictures, calls that fail

ASSUME RecorderAssumption ==
  /\ {FrameSize, CaptureMax, Frames} \subseteq Nat \ {0} /\ Rate \in Nat
  /\ Rate >= Frames
  /\ {MaxSamples, MaxPictures, MaxFailed} \subseteq Nat

VARIABLES
  record_type,
  video_pts, audio_pts, audio_pts_offset,
  audio_fifo,    \* samples not encoded yet
  writing,       \* recorder_write_audio_frame is in its loop
  captured,      \* samples captured so far
  origin,        \* number of the recording's first sample
  stamps,        \* history: the time stamps given, each with the picture it is for
  encoded,       \* history: the samples of the frames encoded, one after the other
  failed         \* calls that failed in this recording

recorderVars == <<record_type, video_pts, audio_pts, audio_pts_offset, audio_fifo, writing,
                  captured, origin, stamps, encoded, failed>>

\* recorder_init, by main for the stream and at AUDIO_RECORD_START.
Begin(type) ==
  /\ record_type = type
  /\ video_pts = 0 /\ audio_pts = 0 /\ audio_pts_offset = 0
  /\ audio_fifo = <<>> /\ writing = FALSE
  /\ stamps = <<>> /\ encoded = <<>> /\ failed = 0

RecorderInit ==
  /\ Begin("video_audio") \/ Begin("audio_only")
  /\ captured = 0 /\ origin = 1

\* A recording of sound begins anew; what the last one had not encoded is gone.
AudioRestart ==
  /\ record_type = "audio_only" /\ ~writing
  /\ record_type' = record_type
  /\ video_pts' = 0 /\ audio_pts' = 0 /\ audio_pts_offset' = 0
  /\ audio_fifo' = <<>> /\ writing' = FALSE
  /\ stamps' = <<>> /\ encoded' = <<>> /\ failed' = 0
  /\ origin' = captured + 1 /\ UNCHANGED captured

-----------------------------------------------------------------------------
(* A picture                                                                  *)

\* A picture the encoder refuses has its time stamp all the same; one that
\* cannot be scaled has none.
WritePicture ==
  /\ record_type = "video_audio" /\ ~writing
  /\ video_pts < MaxPictures
  /\ video_pts' = video_pts + 1
  /\ UNCHANGED <<record_type, audio_pts, audio_pts_offset, audio_fifo, writing, captured,
                 origin, stamps, encoded, failed>>

-----------------------------------------------------------------------------
(* Sound                                                                      *)

Samples(n) == [i \in 1..n |-> captured + i]

WriteSamples(n) ==
  /\ ~writing /\ captured + n <= MaxSamples
  /\ captured' = captured + n
  /\ \/ /\ audio_fifo' = audio_fifo \o Samples(n)
        /\ writing' = TRUE /\ UNCHANGED failed
     \/ /\ failed < MaxFailed /\ failed' = failed + 1
        /\ UNCHANGED <<audio_fifo, writing>>
  /\ UNCHANGED <<record_type, video_pts, audio_pts, audio_pts_offset, origin, stamps, encoded>>

\* The time of a picture in samples; 64 bits are enough for any recording.
Stamp(picture) == (picture * Rate) \div Frames

Stamped(pts) == stamps' = Append(stamps, [pts |-> pts, picture |-> video_pts])

\* Mutant: the count of frames since the last picture is never set back.
StampFrameOn ==
  IF record_type = "audio_only"
  THEN /\ Stamped(audio_pts)
       /\ audio_pts' = audio_pts + FrameSize /\ UNCHANGED audio_pts_offset
  ELSE LET pts == Stamp(video_pts)
       IN IF pts = audio_pts
          THEN /\ audio_pts_offset' = audio_pts_offset + 1
               /\ Stamped(pts + audio_pts_offset') /\ UNCHANGED audio_pts
          ELSE /\ Stamped(pts)
               /\ audio_pts' = pts /\ UNCHANGED audio_pts_offset

StampFrame ==
  \/ /\ record_type = "audio_only"
     /\ Stamped(audio_pts)
     /\ audio_pts' = audio_pts + FrameSize /\ UNCHANGED audio_pts_offset
  \/ /\ record_type = "video_audio" /\ Stamp(video_pts) = audio_pts
     /\ audio_pts_offset' = audio_pts_offset + 1
     /\ Stamped(audio_pts + audio_pts_offset') /\ UNCHANGED audio_pts
  \/ /\ record_type = "video_audio" /\ Stamp(video_pts) # audio_pts
     /\ Stamped(Stamp(video_pts))
     /\ audio_pts' = Stamp(video_pts) /\ audio_pts_offset' = 0

\* Mutant: a chunk that makes up exactly a frame waits for more.
MoreThanAFrame == FrameSize < Len(audio_fifo)

\* The loop goes on while there is a frame.
WholeFrame == FrameSize <= Len(audio_fifo)

\* The frame is taken from the FIFO before anything else can fail.
TakeFrame == audio_fifo' = SubSeq(audio_fifo, FrameSize + 1, Len(audio_fifo))

\* Encoding and muxing, in the order of the samples.
EncodeFrame ==
  /\ writing /\ WholeFrame
  /\ TakeFrame
  /\ StampFrame
  /\ encoded' = encoded \o SubSeq(audio_fifo, 1, FrameSize)
  /\ UNCHANGED <<record_type, video_pts, writing, captured, origin, failed>>

\* A frame that cannot be read, converted or encoded is lost, with or without a
\* time stamp, and the call returns: later frames wait for the next chunk.
EncodeFails ==
  /\ writing /\ WholeFrame
  /\ failed < MaxFailed /\ failed' = failed + 1
  /\ TakeFrame
  /\ StampFrame \/ UNCHANGED <<stamps, audio_pts, audio_pts_offset>>
  /\ writing' = FALSE
  /\ UNCHANGED <<record_type, video_pts, captured, origin, encoded>>

WritingEnds ==
  /\ writing /\ ~WholeFrame
  /\ writing' = FALSE
  /\ UNCHANGED <<record_type, video_pts, audio_pts, audio_pts_offset, audio_fifo, captured,
                 origin, stamps, encoded, failed>>

RecorderStep ==
  \/ AudioRestart \/ WritePicture \/ (\E n \in 1..CaptureMax : WriteSamples(n))
  \/ EncodeFrame \/ EncodeFails \/ WritingEnds

RecorderSpec == RecorderInit /\ [][RecorderStep]_recorderVars

-----------------------------------------------------------------------------
(* Properties                                                                 *)

\* The sound is encoded in the order it was captured, each sample once, in
\* whole frames; while no call failed all of it but less than a frame.
SoundInOrder ==
  LET sound == encoded \o audio_fifo
  IN /\ \A i \in 2..Len(sound) : sound[i - 1] < sound[i]
     /\ \E k \in 0..Len(encoded) : Len(encoded) = k * FrameSize
     /\ failed = 0 => sound = [i \in 1..(captured - origin + 1) |-> origin + i - 1]
     /\ failed = 0 /\ ~writing => Len(audio_fifo) < FrameSize

\* More frames were stamped for a picture than its time has samples: it was so
\* long in coming.  (The first has one less: no frame is stamped 0.)
Crowded(picture) ==
  Cardinality({i \in DOMAIN stamps : stamps[i].picture = picture})
    > Stamp(picture + 1) - Stamp(picture) - (IF picture = 0 THEN 1 ELSE 0)

\* The time stamps of the sound rise from frame to frame, as the muxer needs,
\* and keep in step with the pictures: the sound captured before a picture has
\* a time between that picture's and the next one's, as long as the pictures
\* come.  A recording of sound alone is stamped by its samples.
SoundInStep ==
  \A i \in DOMAIN stamps :
    LET s == stamps[i]
    IN CASE record_type = "audio_only" -> s.pts = (i - 1) * FrameSize
         [] record_type = "video_audio" /\ ~Crowded(s.picture) ->
              /\ Stamp(s.picture) <= s.pts /\ s.pts < Stamp(s.picture + 1)
              /\ i > 1 /\ ~Crowded(stamps[i - 1].picture) => stamps[i - 1].pts < s.pts
         [] OTHER -> TRUE
=============================================================================
