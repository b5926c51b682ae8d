------------------------------ MODULE Streamer ------------------------------
(***************************************************************************)
(* streamer.c of apollo_monitor: what main reads from the FIFO, in chunks  *)
(* of any size, goes out in UDP packets of one size.  Bytes are numbered   *)
(* in the order they come in.  A send may fail: then the rest of the chunk *)
(* is dropped.                                                             *)
(***************************************************************************)
EXTENDS Integers, Sequences

CONSTANTS
  PacketSize,   \* context->packet_size
  ChunkMax,     \* most bytes of a chunk
  MaxBytes,     \* bound: bytes taken
  MaxFailures   \* bound: sends that fail

ASSUME StreamerAssumption ==
  /\ PacketSize \in Nat \ {0} /\ ChunkMax \in Nat
  /\ MaxBytes \in Nat /\ MaxFailures \in Nat

VARIABLES
  buffer,       \* context->buffer up to buffer_index
  data,         \* what the call in progress has not looked at yet
  sending,      \* a call is in its loop
  sent,         \* the bytes of the packets sent, one after the other
  first,        \* number of the stream's first byte
  taken,        \* bytes taken so far
  failures      \* sends that failed in this stream

vars == <<buffer, data, sending, sent, first, taken, failures>>

Init ==
  /\ buffer = <<>> /\ data = <<>> /\ sending = FALSE
  /\ sent = <<>> /\ first = 1 /\ taken = 0 /\ failures = 0

Chunk(n) == [i \in 1..n |-> taken + i]

\* Mutant: a chunk that fills the buffer exactly is kept as well.
TakeOver(n) ==
  /\ ~sending /\ taken + n <= MaxBytes
  /\ taken' = taken + n
  /\ IF Len(buffer) + n <= PacketSize
     THEN buffer' = buffer \o Chunk(n) /\ UNCHANGED <<data, sending>>
     ELSE data' = Chunk(n) /\ sending' = TRUE /\ UNCHANGED buffer
  /\ UNCHANGED <<sent, first, failures>>

\* streamer_send: a chunk that does not fill the buffer is only kept.
Take(n) ==
  /\ ~sending /\ taken + n <= MaxBytes
  /\ taken' = taken + n
  /\ IF Len(buffer) + n < PacketSize
     THEN buffer' = buffer \o Chunk(n) /\ UNCHANGED <<data, sending>>
     ELSE data' = Chunk(n) /\ sending' = TRUE /\ UNCHANGED buffer
  /\ UNCHANGED <<sent, first, failures>>

Room == PacketSize - Len(buffer)
Packet == buffer \o SubSeq(data, 1, Room)
Drop(n) == SubSeq(data, n + 1, Len(data))

\* Mutant: the buffer is not emptied after it was sent.
SendPacketKeeping ==
  /\ sending /\ Room <= Len(data)
  /\ sent' = sent \o Packet
  /\ data' = Drop(Room)
  /\ UNCHANGED <<buffer, sending, first, taken, failures>>

SendPacket ==
  /\ sending /\ Room <= Len(data)
  /\ sent' = sent \o Packet
  /\ buffer' = <<>>
  /\ data' = Drop(Room)
  /\ UNCHANGED <<sending, first, taken, failures>>

\* The call returns: what was buffered before it stays, the chunk is gone.
SendFails ==
  /\ sending /\ Room <= Len(data)
  /\ failures < MaxFailures
  /\ failures' = failures + 1
  /\ data' = <<>> /\ sending' = FALSE
  /\ UNCHANGED <<buffer, sent, first, taken>>

\* What does not fill a packet is copied to the buffer's beginning.
Keep ==
  /\ sending /\ Len(data) < Room
  /\ buffer' = data
  /\ data' = <<>> /\ sending' = FALSE
  /\ UNCHANGED <<sent, first, taken, failures>>

\* streamer_uninit, and streamer_init when n bytes have gone by that main read
\* and dropped, there being no stream: AV_STREAM_END and AV_STREAM_START.
Restart(n) ==
  /\ ~sending /\ taken + n <= MaxBytes
  /\ buffer' = <<>>
  /\ taken' = taken + n
  /\ sent' = <<>> /\ first' = taken + n + 1 /\ failures' = 0
  /\ UNCHANGED <<data, sending>>

Next ==
  \/ \E n \in 1..ChunkMax : Take(n)
  \/ SendPacket \/ SendFails \/ Keep
  \/ \E n \in 0..MaxBytes : Restart(n)

Spec == Init /\ [][Next]_vars

-----------------------------------------------------------------------------
Stream == sent \o buffer \o data

\* Every variable has its type, and streamer.c's buffer never holds a whole
\* packet: memcpy never writes past its end, whatever the sizes of the chunks
\* and whichever sends fail.
TypeOK ==
  /\ buffer \in Seq(Nat) /\ Len(buffer) < PacketSize
  /\ data \in Seq(Nat) /\ (~sending => data = <<>>)
  /\ sent \in Seq(Nat)
  /\ sending \in BOOLEAN
  /\ first \in Nat /\ taken \in 0..MaxBytes /\ failures \in 0..MaxFailures

Ordered(s) == \A i \in 2..Len(s) : s[i - 1] < s[i]
Whole(s, lo, hi) == Len(s) = hi - lo + 1 /\ \A i \in 1..Len(s) : s[i] = lo + i - 1

\* What goes out is in order, each byte once, in packets of one size; without a
\* failed send it is everything taken since the stream began.
StreamInOrder ==
  /\ Ordered(Stream)
  /\ failures = 0 => Whole(Stream, first, taken)
  /\ \E k \in 0..Len(sent) : Len(sent) = k * PacketSize
=============================================================================
