------------------------------ MODULE Broadcast ------------------------------
(* From the capture threads to the network: what the recorder muxes goes      *)
(* through the FIFO to main, which hands what it reads to the streamer        *)
(* (monitor/main.c).  Monitor has the threads and mutexes around it; here the *)
(* bytes are followed, and a FIFO of any size.                                *)
EXTENDS Recorder, Streamer

CONSTANT MuxMax   \* bound: bytes a frame or a picture is muxed to

ASSUME MuxAssumption == MuxMax \in Nat

VARIABLE written    \* bytes written to the FIFO; Streamer counts those taken

broadcastVars == <<recorderVars, vars, written>>

BroadcastInit == RecorderInit /\ Init /\ written = 0

\* The muxer writes some, all or nothing of what it has when it gets a frame.
Mux ==
  IF record_type = "video_audio"
  THEN \E n \in 0..MuxMax : written + n <= MaxBytes /\ written' = written + n
  ELSE UNCHANGED written

\* The capture threads.
Capture ==
  /\ \/ (WritePicture \/ EncodeFrame \/ EncodeFails) /\ Mux
     \/ /\ AudioRestart \/ WritingEnds \/ \E n \in 1..CaptureMax : WriteSamples(n)
        /\ UNCHANGED written
  /\ UNCHANGED vars

\* Main reads no more than was written.
ReadFifo ==
  /\ \/ \E n \in 1..ChunkMax : taken + n <= written /\ Take(n)
     \/ SendPacket \/ SendFails \/ Keep
     \/ \E n \in 0..MaxBytes : taken + n <= written /\ Restart(n)
  /\ UNCHANGED <<recorderVars, written>>

BroadcastSpec == BroadcastInit /\ [][Capture \/ ReadFifo]_broadcastVars
=============================================================================
