---------------------------- MODULE BroadcastProofs ----------------------------
(* Theorems about Streamer, Recorder and the two composed, for every size of  *)
(* frames, captures, packets and chunks.                                      *)
EXTENDS Broadcast, SequenceTheorems, FiniteSetTheorems, TLAPS

-----------------------------------------------------------------------------
(* The streamer                                                               *)

\* A chunk is a sequence of as many bytes as were read (streamer_send's data).
LEMMA ChunkType ==
  ASSUME taken \in Nat, NEW n \in Nat
  PROVE  Chunk(n) \in Seq(Nat) /\ Len(Chunk(n)) = n
<1>1. Chunk(n) \in [1..n -> Nat] BY DEF Chunk
<1> QED BY <1>1

\* Concatenation of bytes is associative.
LEMMA Assoc ==
  ASSUME NEW a \in Seq(Nat), NEW b \in Seq(Nat), NEW c \in Seq(Nat)
  PROVE  a \o (b \o c) = (a \o b) \o c
<1>1. (a \o b) \o c = a \o (b \o c) BY ConcatAssociative
<1> QED BY <1>1

\* Two sequences that are a sequence's beginning and the rest make it up again.
LEMMA Recombine ==
  ASSUME NEW s \in Seq(Nat), NEW a \in Seq(Nat), NEW b \in Seq(Nat),
         Len(a) + Len(b) = Len(s),
         \A i \in 1..Len(a) : a[i] = s[i],
         \A i \in 1..Len(b) : b[i] = s[Len(a) + i]
  PROVE  a \o b = s
<1>1. Len(a) \in Nat /\ Len(b) \in Nat BY LenProperties
<1>2. a \o b \in Seq(Nat) /\ Len(a \o b) = Len(s) BY ConcatProperties
<1>3. \A i \in 1..(Len(a) + Len(b)) :
        (a \o b)[i] = IF i <= Len(a) THEN a[i] ELSE b[i - Len(a)]
  BY ConcatProperties
<1>4. ASSUME NEW i \in 1..Len(s) PROVE (a \o b)[i] = s[i]
  <2>1. CASE i <= Len(a) BY <1>1, <1>3, <2>1
  <2>2. CASE i > Len(a)
    <3>1. i - Len(a) \in 1..Len(b) BY <1>1, <2>2
    <3>2. b[i - Len(a)] = s[Len(a) + (i - Len(a))] BY <3>1
    <3>3. Len(a) + (i - Len(a)) = i /\ ~(i <= Len(a)) BY <1>1, <2>2
    <3> QED BY <1>1, <1>3, <3>2, <3>3
  <2> QED BY <1>1, <2>1, <2>2
<1>5. \A i \in 1..Len(a \o b) : (a \o b)[i] = s[i] BY <1>2, <1>4
<1> QED BY <1>2, <1>5, SeqEqual

\* Cutting a sequence of bytes leaves two that make it up (the memcpy calls).
LEMMA CutType ==
  ASSUME NEW s \in Seq(Nat), NEW k \in Nat, k <= Len(s)
  PROVE  /\ SubSeq(s, 1, k) \in Seq(Nat)
         /\ SubSeq(s, k + 1, Len(s)) \in Seq(Nat)
         /\ SubSeq(s, 1, k) \o SubSeq(s, k + 1, Len(s)) = s
<1>1. Len(s) \in Nat BY LenProperties
<1>2. PICK a : a = SubSeq(s, 1, k) OBVIOUS
<1>3. PICK b : b = SubSeq(s, k + 1, Len(s)) OBVIOUS
<1>4. \A i \in 1..k : s[i] \in Nat BY <1>1, ElementOfSeq
<1>5. \A i \in (k + 1)..Len(s) : s[i] \in Nat BY <1>1, ElementOfSeq
<1>6. /\ a \in Seq(Nat)
      /\ Len(a) = IF 1 <= k THEN k - 1 + 1 ELSE 0
      /\ \A i \in 1..(k - 1 + 1) : a[i] = s[1 + i - 1]
  BY <1>2, <1>4, SubSeqProperties
<1>7. /\ b \in Seq(Nat)
      /\ Len(b) = IF k + 1 <= Len(s) THEN Len(s) - (k + 1) + 1 ELSE 0
      /\ \A i \in 1..(Len(s) - (k + 1) + 1) : b[i] = s[k + 1 + i - 1]
  BY <1>1, <1>3, <1>5, SubSeqProperties
<1>8. Len(a) = k /\ Len(b) = Len(s) - k BY <1>1, <1>6, <1>7
<1>9. \A i \in 1..Len(a) : a[i] = s[i]
  <2> TAKE i \in 1..Len(a)
  <2>1. i \in 1..(k - 1 + 1) /\ 1 + i - 1 = i BY <1>8
  <2> QED BY <1>6, <2>1
<1>10. \A i \in 1..Len(b) : b[i] = s[Len(a) + i]
  <2> TAKE i \in 1..Len(b)
  <2>1. i \in 1..(Len(s) - (k + 1) + 1) /\ k + 1 + i - 1 = Len(a) + i BY <1>1, <1>8
  <2> QED BY <1>7, <2>1
<1>11. Len(a) + Len(b) = Len(s) BY <1>1, <1>8
<1>12. a \in Seq(Nat) /\ b \in Seq(Nat) BY <1>6, <1>7
<1>13. a \o b = s BY <1>9, <1>10, <1>11, <1>12, Recombine
<1> QED BY <1>2, <1>3, <1>12, <1>13

\* The steps of streamer_send keep its buffer short of a packet.
LEMMA TypeStep == TypeOK /\ [Next]_vars => TypeOK'
<1> SUFFICES ASSUME TypeOK, [Next]_vars PROVE TypeOK'
  OBVIOUS
<1> USE StreamerAssumption DEF TypeOK
<1>0. <<>> \in Seq(Nat) /\ Len(<<>>) = 0 BY EmptySeq
<1>1. ASSUME NEW n \in 1..ChunkMax, Take(n) PROVE TypeOK'
  <2>1. Chunk(n) \in Seq(Nat) /\ Len(Chunk(n)) = n BY ChunkType
  <2>2. taken' \in 0..MaxBytes BY <1>1 DEF Take
  <2>3. CASE Len(buffer) + n < PacketSize
    <3>1. buffer' = buffer \o Chunk(n) BY <1>1, <2>3 DEF Take
    <3>2. buffer' \in Seq(Nat) /\ Len(buffer') = Len(buffer) + n
      BY <2>1, <3>1, ConcatProperties
    <3> QED BY <1>1, <2>2, <2>3, <3>2 DEF Take
  <2>4. CASE ~(Len(buffer) + n < PacketSize)
    BY <1>1, <2>1, <2>2, <2>4 DEF Take
  <2> QED BY <2>3, <2>4
<1>2. CASE SendPacket
  <2>1. Room \in Nat /\ Room <= Len(data) BY <1>2, LenProperties DEF SendPacket, Room
  <2>2. SubSeq(data, 1, Room) \in Seq(Nat) /\ Drop(Room) \in Seq(Nat)
    BY <2>1, CutType DEF Drop
  <2>3. Packet \in Seq(Nat) BY <2>2, ConcatProperties DEF Packet
  <2>4. sent \o Packet \in Seq(Nat) BY <2>3, ConcatProperties
  <2> QED BY <1>0, <1>2, <2>2, <2>4 DEF SendPacket
<1>3. CASE SendFails
  <2>1. failures' \in 0..MaxFailures BY <1>3 DEF SendFails
  <2> QED BY <1>0, <1>3, <2>1 DEF SendFails
<1>4. CASE Keep
  <2>1. buffer' \in Seq(Nat) /\ Len(buffer') < PacketSize
    BY <1>4, LenProperties DEF Keep, Room
  <2> QED BY <1>0, <1>4, <2>1 DEF Keep
<1>5. ASSUME NEW n \in 0..MaxBytes, Restart(n) PROVE TypeOK'
  <2>1. taken' \in 0..MaxBytes /\ first' \in Nat /\ failures' = 0 BY <1>5 DEF Restart
  <2> QED BY <1>0, <1>5, <2>1 DEF Restart
<1>6. CASE UNCHANGED vars BY <1>6 DEF vars
<1> QED BY <1>1, <1>2, <1>3, <1>4, <1>5, <1>6 DEF Next

\* The stream begins with an empty buffer.
LEMMA TypeInit == Init => TypeOK
<1> SUFFICES ASSUME Init PROVE TypeOK
  OBVIOUS
<1>1. <<>> \in Seq(Nat) /\ Len(<<>>) = 0 BY EmptySeq
<1>2. buffer \in Seq(Nat) /\ data \in Seq(Nat) /\ sent \in Seq(Nat) BY <1>1 DEF Init
<1>3. Len(buffer) < PacketSize BY <1>1, StreamerAssumption DEF Init
<1>4. sending \in BOOLEAN /\ (~sending => data = <<>>) BY DEF Init
<1>5. first \in Nat /\ taken \in 0..MaxBytes /\ failures \in 0..MaxFailures
  BY StreamerAssumption DEF Init
<1> QED BY <1>2, <1>3, <1>4, <1>5 DEF TypeOK

\* In every behaviour the buffer of streamer.c holds less than a packet, so the
\* copies into it stay inside, and between calls nothing else is pending.
THEOREM TypeCorrect == Spec => []TypeOK
<1> QED BY TypeInit, TypeStep, PTL DEF Spec

-----------------------------------------------------------------------------
(* The stream is in order.  By itself that is not inductive: the bytes of the *)
(* stream are between its first byte and the last one taken, and what a call  *)
(* keeps in the end replaces an empty buffer.                                 *)

InOrder(s, lo, hi) == Ordered(s) /\ \A i \in 1..Len(s) : lo <= s[i] /\ s[i] <= hi

Packets == \E k \in Nat : k <= Len(sent) /\ Len(sent) = k * PacketSize

LoopInv == sending => buffer = <<>> \/ Len(buffer) + Len(data) >= PacketSize

StreamInv ==
  /\ TypeOK /\ LoopInv
  /\ first <= taken + 1
  /\ InOrder(Stream, first, taken)
  /\ failures = 0 => Whole(Stream, first, taken)
  /\ Packets

\* The three parts of the stream are sequences, and so is the stream.
LEMMA StreamType ==
  ASSUME TypeOK
  PROVE  sent \o buffer \in Seq(Nat) /\ Stream \in Seq(Nat)
<1>1. sent \o buffer \in Seq(Nat) BY ConcatProperties DEF TypeOK
<1> QED BY <1>1, ConcatProperties DEF Stream, TypeOK

\* Taking a chunk puts it at the stream's end, whichever branch it takes.
LEMMA TakeStream ==
  ASSUME TypeOK, NEW n \in Nat, Take(n)
  PROVE  Stream' = Stream \o Chunk(n)
<1> USE DEF TypeOK, Stream
<1>0. data = <<>> /\ sent' = sent /\ taken \in Nat BY StreamerAssumption DEF Take
<1>1. Chunk(n) \in Seq(Nat) BY <1>0, ChunkType
<1>2. sent \o buffer \in Seq(Nat) BY ConcatProperties
<1>3. Stream = sent \o buffer BY <1>0, <1>2, ConcatEmptySeq
<1>4. CASE Len(buffer) + n < PacketSize
  <2>1. buffer' = buffer \o Chunk(n) /\ data' = <<>> BY <1>0, <1>4 DEF Take
  <2>2. buffer' \in Seq(Nat) BY <1>1, <2>1, ConcatProperties
  <2>3. sent \o buffer' \in Seq(Nat) BY <2>2, ConcatProperties
  <2>4. Stream' = sent \o buffer' BY <1>0, <2>1, <2>3, ConcatEmptySeq
  <2>5. sent \o (buffer \o Chunk(n)) = (sent \o buffer) \o Chunk(n)
    BY <1>1, Assoc
  <2> QED BY <1>3, <2>1, <2>4, <2>5
<1>5. CASE ~(Len(buffer) + n < PacketSize)
  <2>1. buffer' = buffer /\ data' = Chunk(n) BY <1>5 DEF Take
  <2> QED BY <1>0, <1>3, <2>1
<1> QED BY <1>4, <1>5

\* A packet moves bytes from the buffer and the chunk to the wire, in order.
LEMMA PacketStream ==
  ASSUME TypeOK, SendPacket
  PROVE  Stream' = Stream
<1> USE DEF TypeOK
<1>1. Room \in Nat /\ Room <= Len(data)
  BY StreamerAssumption, LenProperties DEF SendPacket, Room
<1>2. PICK head : head = SubSeq(data, 1, Room) OBVIOUS
<1>3. /\ head \in Seq(Nat) /\ Drop(Room) \in Seq(Nat)
      /\ head \o Drop(Room) = data
  BY <1>1, <1>2, CutType DEF Drop
<1>4. sent' = sent \o (buffer \o head) /\ buffer' = <<>> /\ data' = Drop(Room)
  BY <1>2 DEF SendPacket, Packet
<1>5. sent \o buffer \in Seq(Nat) BY ConcatProperties
<1>6. sent' = (sent \o buffer) \o head BY <1>3, <1>4, Assoc
<1>7. sent' \in Seq(Nat) BY <1>3, <1>5, <1>6, ConcatProperties
<1>8. sent' \o buffer' = sent' BY <1>4, <1>7, ConcatEmptySeq
<1>9. (sent \o buffer) \o data = ((sent \o buffer) \o head) \o Drop(Room)
  BY <1>3, <1>5, Assoc
<1> QED BY <1>4, <1>6, <1>8, <1>9 DEF Stream

\* What is sent grows by one packet.
LEMMA PacketSent ==
  ASSUME TypeOK, SendPacket, Packets
  PROVE  Packets'
<1> USE DEF TypeOK
<1>1. Room \in Nat /\ Room <= Len(data) /\ Room = PacketSize - Len(buffer)
  BY StreamerAssumption, LenProperties DEF SendPacket, Room
<1>2. PICK head : head = SubSeq(data, 1, Room) OBVIOUS
<1>3. head \in Seq(Nat) /\ Len(head) = Room
  <2>1. Len(data) \in Nat BY LenProperties
  <2>2. \A i \in 1..Room : data[i] \in Nat BY <1>1, <2>1, ElementOfSeq
  <2>3. /\ head \in Seq(Nat)
        /\ Len(head) = IF 1 <= Room THEN Room - 1 + 1 ELSE 0
    BY <1>1, <1>2, <2>2, SubSeqProperties
  <2> QED BY <1>1, <2>3
<1>4. sent' = sent \o (buffer \o head) BY <1>2 DEF SendPacket, Packet
<1>5. buffer \o head \in Seq(Nat) /\ Len(buffer \o head) = Len(buffer) + Room
  BY <1>3, ConcatProperties
<1>6. Len(sent') = Len(sent) + (Len(buffer) + Room) BY <1>4, <1>5, ConcatProperties
<1>7. Len(sent) \in Nat /\ Len(buffer) \in Nat BY LenProperties
<1>8. Len(sent') = Len(sent) + PacketSize BY <1>1, <1>6, <1>7, StreamerAssumption
<1>9. PICK k \in Nat : k <= Len(sent) /\ Len(sent) = k * PacketSize BY DEF Packets
<1>10. k + 1 \in Nat /\ k + 1 <= Len(sent')
  <2>1. k \in Nat /\ k <= Len(sent) BY <1>9
  <2>2. PacketSize \in Nat /\ 1 <= PacketSize BY StreamerAssumption
  <2> QED BY <1>7, <1>8, <2>1, <2>2
<1>11. Len(sent') = (k + 1) * PacketSize BY <1>7, <1>8, <1>9, StreamerAssumption
<1> QED BY <1>10, <1>11 DEF Packets

\* A call that fails leaves the stream at what the buffer held before.
LEMMA FailedStream ==
  ASSUME TypeOK, SendFails
  PROVE  Stream' = sent \o buffer /\ Stream = (sent \o buffer) \o data
<1>1. sent \o buffer \in Seq(Nat) BY ConcatProperties DEF TypeOK
<1>2. sent' \o buffer' = sent \o buffer /\ data' = <<>> BY DEF SendFails
<1> QED BY <1>1, <1>2, ConcatEmptySeq DEF Stream

\* What does not fill a packet is kept: nothing of the stream is lost.
LEMMA KeepStream ==
  ASSUME TypeOK, LoopInv, Keep
  PROVE  Stream' = Stream
<1> USE DEF TypeOK
<1>1. buffer = <<>>
  <2>1. sending /\ Len(data) < PacketSize - Len(buffer) BY DEF Keep, Room
  <2>2. Len(data) \in Nat /\ Len(buffer) \in Nat BY LenProperties
  <2> QED BY <2>1, <2>2, StreamerAssumption DEF LoopInv
<1>2. sent' = sent /\ buffer' = data /\ data' = <<>> BY DEF Keep
<1>3. sent \o buffer = sent BY <1>1, ConcatEmptySeq
<1>4. sent \o data \in Seq(Nat) BY ConcatProperties
<1>5. Stream' = sent \o data BY <1>2, <1>4, ConcatEmptySeq DEF Stream
<1> QED BY <1>3, <1>5 DEF Stream

\* Bytes taken go on from those that are there.
LEMMA ChunkInOrder ==
  ASSUME NEW s \in Seq(Nat), NEW n \in Nat, NEW lo \in Nat, taken \in Nat,
         lo <= taken + 1, InOrder(s, lo, taken)
  PROVE  InOrder(s \o Chunk(n), lo, taken + n)
<1>1. Len(s) \in Nat BY LenProperties
<1>2. Chunk(n) \in Seq(Nat) /\ Len(Chunk(n)) = n BY ChunkType
<1>3. PICK t \in Seq(Nat) : t = s \o Chunk(n) BY <1>2, ConcatProperties
<1>4. Len(t) = Len(s) + n BY <1>2, <1>3, ConcatProperties
<1>5. \A i \in 1..(Len(s) + n) : t[i] = IF i <= Len(s) THEN s[i] ELSE Chunk(n)[i - Len(s)]
  BY <1>2, <1>3, ConcatProperties
<1>6. \A j \in 1..n : Chunk(n)[j] = taken + j BY DEF Chunk
<1>7. \A i \in 1..Len(s) : t[i] = s[i] /\ s[i] \in Nat BY <1>1, <1>5, ElementOfSeq
<1>8. ASSUME NEW i \in (Len(s) + 1)..(Len(s) + n) PROVE t[i] = taken + (i - Len(s))
  <2>1. i - Len(s) \in 1..n /\ ~(i <= Len(s)) /\ i \in 1..(Len(s) + n) BY <1>1
  <2> QED BY <1>5, <1>6, <2>1
<1>9. ASSUME NEW i \in 1..Len(t) PROVE lo <= t[i] /\ t[i] <= taken + n
  <2>1. CASE i <= Len(s)
    <3>1. i \in 1..Len(s) BY <1>1, <1>4, <2>1
    <3>2. t[i] \in Nat /\ lo <= t[i] /\ t[i] <= taken BY <1>7, <3>1 DEF InOrder, Ordered
    <3> QED BY <3>2
  <2>2. CASE i > Len(s)
    <3>1. i \in (Len(s) + 1)..(Len(s) + n) BY <1>1, <1>4, <2>2
    <3>2. t[i] = taken + (i - Len(s)) BY <1>8, <3>1
    <3> QED BY <1>1, <3>1, <3>2
  <2> QED BY <1>1, <1>4, <2>1, <2>2
<1>10. ASSUME NEW i \in 2..Len(t) PROVE t[i - 1] < t[i]
  <2>1. CASE i <= Len(s)
    <3>1. i \in 2..Len(s) /\ i \in 1..Len(s) /\ i - 1 \in 1..Len(s) BY <1>1, <2>1
    <3> QED BY <1>7, <3>1 DEF InOrder, Ordered
  <2>2. CASE i = Len(s) + 1
    <3>1. i - 1 \in 1..Len(s) /\ i \in (Len(s) + 1)..(Len(s) + n) BY <1>1, <1>4, <2>2
    <3>2. t[i - 1] \in Nat /\ t[i - 1] <= taken BY <1>7, <3>1 DEF InOrder, Ordered
    <3>3. t[i] = taken + (i - Len(s)) BY <1>8, <3>1
    <3> QED BY <1>1, <2>2, <3>2, <3>3
  <2>3. CASE i > Len(s) + 1
    <3>1. /\ i - 1 \in (Len(s) + 1)..(Len(s) + n)
          /\ i \in (Len(s) + 1)..(Len(s) + n)
      BY <1>1, <1>4, <2>3
    <3>2. t[i - 1] = taken + (i - 1 - Len(s)) /\ t[i] = taken + (i - Len(s))
      BY <1>8, <3>1
    <3> QED BY <1>1, <3>2
  <2> QED BY <1>1, <1>4, <2>1, <2>2, <2>3
<1> QED BY <1>3, <1>9, <1>10 DEF InOrder, Ordered

\* Without a failed send none is missing.
LEMMA ChunkWhole ==
  ASSUME NEW s \in Seq(Nat), NEW n \in Nat, NEW lo \in Nat, taken \in Nat,
         Whole(s, lo, taken)
  PROVE  Whole(s \o Chunk(n), lo, taken + n)
<1>1. Len(s) \in Nat /\ Len(s) = taken - lo + 1 BY LenProperties DEF Whole
<1>2. Chunk(n) \in Seq(Nat) /\ Len(Chunk(n)) = n BY ChunkType
<1>3. PICK t \in Seq(Nat) : t = s \o Chunk(n) BY <1>2, ConcatProperties
<1>4. Len(t) = Len(s) + n BY <1>2, <1>3, ConcatProperties
<1>5. \A i \in 1..(Len(s) + n) : t[i] = IF i <= Len(s) THEN s[i] ELSE Chunk(n)[i - Len(s)]
  BY <1>2, <1>3, ConcatProperties
<1>6. \A j \in 1..n : Chunk(n)[j] = taken + j BY DEF Chunk
<1>7. ASSUME NEW i \in 1..Len(t) PROVE t[i] = lo + i - 1
  <2>1. CASE i <= Len(s)
    <3>1. i \in 1..Len(s) /\ i \in 1..(Len(s) + n) BY <1>1, <1>4, <2>1
    <3>2. t[i] = s[i] BY <1>5, <2>1, <3>1
    <3> QED BY <3>1, <3>2 DEF Whole
  <2>2. CASE i > Len(s)
    <3>1. i - Len(s) \in 1..n /\ ~(i <= Len(s)) /\ i \in 1..(Len(s) + n)
      BY <1>1, <1>4, <2>2
    <3>2. t[i] = taken + (i - Len(s)) BY <1>5, <1>6, <3>1
    <3> QED BY <1>1, <3>2
  <2> QED BY <1>1, <1>4, <2>1, <2>2
<1>8. Len(t) = (taken + n) - lo + 1 BY <1>1, <1>4
<1> QED BY <1>3, <1>7, <1>8 DEF Whole

\* A beginning of an ordered stream is ordered.
LEMMA PrefixInOrder ==
  ASSUME NEW s \in Seq(Nat), NEW t \in Seq(Nat), NEW lo, NEW hi, InOrder(s \o t, lo, hi)
  PROVE  InOrder(s, lo, hi)
<1>1. PICK u \in Seq(Nat) : u = s \o t BY ConcatProperties
<1>2. Len(s) \in Nat /\ Len(t) \in Nat BY LenProperties
<1>3. Len(u) = Len(s) + Len(t) BY <1>1, ConcatProperties
<1>4. \A i \in 1..(Len(s) + Len(t)) : u[i] = IF i <= Len(s) THEN s[i] ELSE t[i - Len(s)]
  BY <1>1, ConcatProperties
<1>5. \A i \in 1..Len(s) : u[i] = s[i] /\ i \in 1..Len(u) BY <1>2, <1>3, <1>4
<1>6. \A i \in 1..Len(s) : lo <= s[i] /\ s[i] <= hi BY <1>1, <1>5 DEF InOrder, Ordered
<1>7. \A i \in 2..Len(s) : s[i - 1] < s[i]
  <2> TAKE i \in 2..Len(s)
  <2>1. i \in 1..Len(s) /\ i - 1 \in 1..Len(s) /\ i \in 2..Len(u) BY <1>2, <1>3
  <2>2. u[i - 1] < u[i] BY <1>1, <2>1 DEF InOrder, Ordered
  <2> QED BY <1>5, <2>1, <2>2
<1> QED BY <1>6, <1>7 DEF InOrder, Ordered

\* Every step of streamer_send keeps the stream in order.
LEMMA StreamStep == StreamInv /\ [Next]_vars => StreamInv'
<1> SUFFICES ASSUME StreamInv, [Next]_vars PROVE StreamInv'
  OBVIOUS
<1>1. TypeOK /\ LoopInv BY DEF StreamInv
<1>2. TypeOK' BY <1>1, TypeStep
<1>3. Stream \in Seq(Nat) BY <1>1, StreamType
<1>4. first \in Nat /\ taken \in Nat /\ failures \in Nat
  BY <1>1, StreamerAssumption DEF TypeOK
<1>5. ASSUME NEW n \in 1..ChunkMax, Take(n) PROVE StreamInv'
  <2>0. n \in Nat BY StreamerAssumption
  <2>1. Stream' = Stream \o Chunk(n) BY <1>1, <1>5, <2>0, TakeStream
  <2>2. taken' = taken + n /\ first' = first /\ failures' = failures BY <1>5 DEF Take
  <2>3. InOrder(Stream', first', taken')
    BY <1>3, <1>4, <2>0, <2>1, <2>2, ChunkInOrder DEF StreamInv
  <2>4. failures' = 0 => Whole(Stream', first', taken')
    BY <1>3, <1>4, <2>0, <2>1, <2>2, ChunkWhole DEF StreamInv
  <2>5. LoopInv'
    <3>1. Len(Chunk(n)) = n BY <1>4, <2>0, ChunkType
    <3>2. ~sending BY <1>5 DEF Take
    <3>3. sending' => /\ buffer' = buffer /\ data' = Chunk(n)
                      /\ ~(Len(buffer) + n < PacketSize)
      BY <1>5, <3>2 DEF Take
    <3>4. Len(buffer) \in Nat BY <1>1, LenProperties DEF TypeOK
    <3> QED BY <2>0, <3>1, <3>3, <3>4, StreamerAssumption DEF LoopInv
  <2>6. first' <= taken' + 1 BY <1>4, <2>0, <2>2 DEF StreamInv
  <2>7. Packets' BY <1>5 DEF Take, StreamInv, Packets
  <2> QED BY <1>2, <2>3, <2>4, <2>5, <2>6, <2>7 DEF StreamInv
<1>6. CASE SendPacket
  <2>1. Stream' = Stream BY <1>1, <1>6, PacketStream
  <2>2. UNCHANGED <<first, taken, failures>> /\ LoopInv' BY <1>6 DEF SendPacket, LoopInv
  <2>3. Packets' BY <1>1, <1>6, PacketSent DEF StreamInv
  <2> QED BY <1>2, <2>1, <2>2, <2>3 DEF StreamInv
<1>7. CASE SendFails
  <2>1. Stream' = sent \o buffer /\ Stream = (sent \o buffer) \o data
    BY <1>1, <1>7, FailedStream
  <2>2. first' = first /\ taken' = taken /\ failures' = failures + 1 /\ ~sending'
    BY <1>7 DEF SendFails
  <2>3. sent \o buffer \in Seq(Nat) /\ data \in Seq(Nat) BY <1>1, StreamType DEF TypeOK
  <2>4. InOrder(Stream', first', taken')
    BY <2>1, <2>2, <2>3, PrefixInOrder DEF StreamInv
  <2>5. failures' # 0 BY <1>4, <2>2
  <2>6. Packets' BY <1>7 DEF SendFails, StreamInv, Packets
  <2> QED BY <1>2, <2>2, <2>4, <2>5, <2>6 DEF StreamInv, LoopInv
<1>8. CASE Keep
  <2>1. Stream' = Stream BY <1>1, <1>8, KeepStream
  <2>2. UNCHANGED <<first, taken, failures>> /\ ~sending' BY <1>8 DEF Keep
  <2>3. Packets' BY <1>8 DEF Keep, StreamInv, Packets
  <2> QED BY <1>2, <2>1, <2>2, <2>3 DEF StreamInv, LoopInv
<1>9. ASSUME NEW n \in 0..MaxBytes, Restart(n) PROVE StreamInv'
  <2>1. /\ ~sending /\ ~sending' /\ data' = data /\ buffer' = <<>> /\ sent' = <<>>
        /\ first' = taken + n + 1 /\ taken' = taken + n
        /\ n \in Nat
    BY <1>9, StreamerAssumption DEF Restart
  <2>2. data = <<>> BY <1>1, <2>1 DEF TypeOK
  <2>3. <<>> \in Seq(Nat) /\ Len(<<>>) = 0 BY EmptySeq
  <2>4. Stream' = <<>>
    <3>1. <<>> \o <<>> = <<>> BY <2>3, ConcatEmptySeq
    <3> QED BY <2>1, <2>2, <3>1 DEF Stream
  <2>5. InOrder(Stream', first', taken') BY <2>3, <2>4 DEF InOrder, Ordered
  <2>6. Whole(Stream', first', taken') BY <1>4, <2>1, <2>3, <2>4 DEF Whole
  <2>7. first' <= taken' + 1 BY <1>4, <2>1
  <2>8. Packets' BY <2>1, <2>3, StreamerAssumption DEF Packets
  <2> QED BY <1>2, <2>1, <2>5, <2>6, <2>7, <2>8 DEF StreamInv, LoopInv
<1>10. CASE UNCHANGED vars
  <2>1. Stream' = Stream /\ LoopInv' BY <1>1, <1>10 DEF Stream, LoopInv, vars
  <2>2. UNCHANGED <<first, taken, failures>> BY <1>10 DEF vars
  <2>3. Packets' BY <1>10 DEF StreamInv, Packets, vars
  <2> QED BY <1>2, <2>1, <2>2, <2>3 DEF StreamInv
<1> QED BY <1>5, <1>6, <1>7, <1>8, <1>9, <1>10 DEF Next

\* Whatever the sizes of the chunks and whichever sends fail, streamer.c sends
\* the bytes in order, none twice, and all of them when no send fails.
THEOREM InOrderAlways == Spec => []StreamInOrder
<1>1. Init => StreamInv
  <2> SUFFICES ASSUME Init PROVE StreamInv
    OBVIOUS
  <2>1. <<>> \in Seq(Nat) /\ Len(<<>>) = 0 BY EmptySeq
  <2>2. TypeOK BY TypeInit
  <2>3. Stream = <<>>
    <3>1. <<>> \o <<>> = <<>> BY <2>1, ConcatEmptySeq
    <3> QED BY <3>1 DEF Init, Stream
  <2>4. InOrder(Stream, first, taken) BY <2>1, <2>3 DEF InOrder, Ordered
  <2>5. Whole(Stream, first, taken) BY <2>1, <2>3 DEF Init, Whole
  <2>6. Packets BY <2>1, StreamerAssumption DEF Init, Packets
  <2> QED BY <2>2, <2>4, <2>5, <2>6 DEF Init, StreamInv, LoopInv
<1>2. StreamInv => StreamInOrder
  <2> SUFFICES ASSUME StreamInv PROVE StreamInOrder
    OBVIOUS
  <2>1. Len(sent) \in Nat BY LenProperties DEF StreamInv, TypeOK
  <2>2. \E k \in 0..Len(sent) : Len(sent) = k * PacketSize
    BY <2>1 DEF StreamInv, Packets
  <2> QED BY <2>2 DEF StreamInv, StreamInOrder, InOrder
<1> QED BY <1>1, <1>2, StreamStep, PTL DEF Spec

-----------------------------------------------------------------------------
(* The composition                                                            *)

\* The capture threads leave the streamer alone and main the recorder, so what
\* each of them does alone it does next to the other one: Broadcast implements
\* both Recorder and Streamer.
THEOREM Composed == BroadcastSpec => RecorderSpec /\ Spec
<1>1. BroadcastInit => RecorderInit /\ Init BY DEF BroadcastInit
<1>2. [Capture \/ ReadFifo]_broadcastVars => [RecorderStep]_recorderVars
  <2>1. CASE Capture BY <2>1 DEF Capture, RecorderStep
  <2>2. CASE ReadFifo BY <2>2 DEF ReadFifo
  <2>3. CASE UNCHANGED broadcastVars BY <2>3 DEF broadcastVars
  <2> QED BY <2>1, <2>2, <2>3
<1>3. [Capture \/ ReadFifo]_broadcastVars => [Next]_vars
  <2>1. CASE Capture BY <2>1 DEF Capture
  <2>2. CASE ReadFifo BY <2>2 DEF ReadFifo, Next
  <2>3. CASE UNCHANGED broadcastVars BY <2>3 DEF broadcastVars
  <2> QED BY <2>1, <2>2, <2>3
<1> QED BY <1>1, <1>2, <1>3, PTL DEF BroadcastSpec, RecorderSpec, Spec

\* Whatever the recorder muxes and however main reads it, the network gets it
\* in order, none twice, and all of it while no send fails.
THEOREM BroadcastInOrder == BroadcastSpec => []StreamInOrder
<1> QED BY Composed, InOrderAlways, PTL

-----------------------------------------------------------------------------
(* The sound is encoded in order.  For the induction every two samples are    *)
(* compared, not only neighbours: a frame may be lost between two that stay.  *)

Rising(s) == \A i, j \in 1..Len(s) : i < j => s[i] < s[j]
Within(s, lo, hi) == \A i \in 1..Len(s) : lo <= s[i] /\ s[i] <= hi

Sound == encoded \o audio_fifo

WholeFrames == \E k \in Nat : k <= Len(encoded) /\ Len(encoded) = k * FrameSize

RecorderType ==
  /\ encoded \in Seq(Nat) /\ audio_fifo \in Seq(Nat)
  /\ captured \in Nat /\ origin \in Nat /\ failed \in Nat

SoundInv ==
  /\ RecorderType
  /\ origin <= captured + 1
  /\ Rising(Sound) /\ Within(Sound, origin, captured)
  /\ failed = 0 => Whole(Sound, origin, captured)
  /\ failed = 0 /\ ~writing => Len(audio_fifo) < FrameSize
  /\ WholeFrames

\* What is captured is a sequence of as many samples as were asked for.
LEMMA SamplesType ==
  ASSUME captured \in Nat, NEW n \in Nat
  PROVE  /\ Samples(n) \in Seq(Nat) /\ Len(Samples(n)) = n
         /\ \A i \in 1..n : Samples(n)[i] = captured + i
<1>1. Samples(n) \in [1..n -> Nat] BY DEF Samples
<1> QED BY <1>1 DEF Samples

\* The new samples come after all those that are there.
LEMMA SamplesRise ==
  ASSUME NEW s \in Seq(Nat), NEW n \in Nat, NEW lo \in Nat, captured \in Nat,
         lo <= captured + 1, Rising(s), Within(s, lo, captured)
  PROVE  Rising(s \o Samples(n)) /\ Within(s \o Samples(n), lo, captured + n)
<1>1. Len(s) \in Nat BY LenProperties
<1>2. PICK c \in Seq(Nat) : c = Samples(n) /\ Len(c) = n BY SamplesType
<1>0. \A i \in 1..n : c[i] = captured + i BY <1>2, SamplesType
<1>3. PICK t \in Seq(Nat) : t = s \o c BY ConcatProperties
<1>4. Len(t) = Len(s) + Len(c) BY <1>3, ConcatProperties
<1>a. Len(t) = Len(s) + n BY <1>2, <1>4
<1>5. \A i \in 1..(Len(s) + Len(c)) : t[i] = IF i <= Len(s) THEN s[i] ELSE c[i - Len(s)]
  BY <1>3, ConcatProperties
<1>6. ASSUME NEW i \in 1..Len(t), i <= Len(s)
      PROVE  i \in 1..Len(s) /\ t[i] = s[i] /\ t[i] \in Nat /\ lo <= t[i] /\ t[i] <= captured
  <2>1. i \in 1..Len(s) /\ i \in 1..(Len(s) + n) BY <1>1, <1>a, <1>6
  <2>2. t[i] = s[i] BY <1>2, <1>5, <1>6, <2>1
  <2> QED BY <2>1, <2>2, ElementOfSeq DEF Within
<1>7. ASSUME NEW i \in 1..Len(t), i > Len(s)
      PROVE  t[i] = captured + (i - Len(s)) /\ i - Len(s) \in 1..n
  <2>1. i - Len(s) \in 1..n /\ ~(i <= Len(s)) /\ i \in 1..(Len(s) + n)
    BY <1>1, <1>a, <1>7
  <2> QED BY <1>0, <1>2, <1>5, <2>1
<1>8. ASSUME NEW i \in 1..Len(t) PROVE lo <= t[i] /\ t[i] <= captured + n
  <2>1. CASE i <= Len(s) BY <1>6, <2>1
  <2>2. CASE i > Len(s) BY <1>1, <1>7, <2>2
  <2> QED BY <1>1, <1>a, <2>1, <2>2
<1>9. ASSUME NEW i \in 1..Len(t), NEW j \in 1..Len(t), i < j PROVE t[i] < t[j]
  <2>1. CASE j <= Len(s)
    <3>1. i <= Len(s) BY <1>1, <1>a, <1>9, <2>1
    <3> QED BY <1>6, <1>9, <2>1, <3>1 DEF Rising
  <2>2. CASE i <= Len(s) /\ j > Len(s)
    <3>1. t[i] \in Nat /\ t[i] <= captured BY <1>6, <2>2
    <3>2. t[j] = captured + (j - Len(s)) /\ j - Len(s) \in 1..n BY <1>7, <2>2
    <3> QED BY <3>1, <3>2
  <2>3. CASE i > Len(s) /\ j > Len(s)
    <3>1. t[i] = captured + (i - Len(s)) /\ t[j] = captured + (j - Len(s))
      BY <1>7, <2>3
    <3> QED BY <1>1, <1>9, <3>1
  <2> QED BY <1>1, <1>a, <1>9, <2>1, <2>2, <2>3
<1> QED BY <1>2, <1>3, <1>8, <1>9 DEF Rising, Within

\* While none is missing the new ones go on where the old ones end.
LEMMA SamplesWhole ==
  ASSUME NEW s \in Seq(Nat), NEW n \in Nat, NEW lo \in Nat, captured \in Nat,
         Whole(s, lo, captured)
  PROVE  Whole(s \o Samples(n), lo, captured + n)
<1>1. Len(s) \in Nat /\ Len(s) = captured - lo + 1 BY LenProperties DEF Whole
<1>2. PICK c \in Seq(Nat) : c = Samples(n) /\ Len(c) = n BY SamplesType
<1>0. \A i \in 1..n : c[i] = captured + i BY <1>2, SamplesType
<1>3. PICK t \in Seq(Nat) : t = s \o c BY ConcatProperties
<1>4. Len(t) = Len(s) + Len(c) BY <1>3, ConcatProperties
<1>a. Len(t) = Len(s) + n BY <1>2, <1>4
<1>5. \A i \in 1..(Len(s) + Len(c)) : t[i] = IF i <= Len(s) THEN s[i] ELSE c[i - Len(s)]
  BY <1>3, ConcatProperties
<1>6. ASSUME NEW i \in 1..Len(t) PROVE t[i] = lo + i - 1
  <2>1. CASE i <= Len(s)
    <3>1. i \in 1..Len(s) /\ i \in 1..(Len(s) + n) BY <1>1, <1>a, <2>1
    <3>2. t[i] = s[i] BY <1>2, <1>5, <2>1, <3>1
    <3> QED BY <3>1, <3>2 DEF Whole
  <2>2. CASE i > Len(s)
    <3>1. i - Len(s) \in 1..n /\ ~(i <= Len(s)) /\ i \in 1..(Len(s) + n)
      BY <1>1, <1>a, <2>2
    <3>2. t[i] = captured + (i - Len(s)) BY <1>0, <1>2, <1>5, <3>1
    <3> QED BY <1>1, <3>2
  <2> QED BY <1>1, <1>a, <2>1, <2>2
<1>7. Len(t) = (captured + n) - lo + 1 BY <1>1, <1>a
<1> QED BY <1>2, <1>3, <1>6, <1>7 DEF Whole

\* A frame lost from the middle leaves the rest in order.
LEMMA PartOut ==
  ASSUME NEW a \in Seq(Nat), NEW h \in Seq(Nat), NEW r \in Seq(Nat), NEW lo, NEW hi,
         Rising((a \o h) \o r), Within((a \o h) \o r, lo, hi)
  PROVE  Rising(a \o r) /\ Within(a \o r, lo, hi)
<1>1. Len(a) \in Nat /\ Len(h) \in Nat /\ Len(r) \in Nat BY LenProperties
<1>2. PICK b \in Seq(Nat) : b = a \o h BY ConcatProperties
<1>3. Len(b) = Len(a) + Len(h) /\ \A i \in 1..Len(a) : b[i] = a[i]
  <2>1. /\ Len(b) = Len(a) + Len(h)
        /\ \A i \in 1..(Len(a) + Len(h)) : b[i] = IF i <= Len(a) THEN a[i] ELSE h[i - Len(a)]
    BY <1>2, ConcatProperties
  <2> QED BY <1>1, <2>1
<1>4. PICK s \in Seq(Nat) : s = b \o r BY ConcatProperties
<1>5. /\ Len(s) = Len(b) + Len(r)
      /\ \A i \in 1..(Len(b) + Len(r)) : s[i] = IF i <= Len(b) THEN b[i] ELSE r[i - Len(b)]
  BY <1>4, ConcatProperties
<1>6. PICK t \in Seq(Nat) : t = a \o r BY ConcatProperties
<1>7. /\ Len(t) = Len(a) + Len(r)
      /\ \A i \in 1..(Len(a) + Len(r)) : t[i] = IF i <= Len(a) THEN a[i] ELSE r[i - Len(a)]
  BY <1>6, ConcatProperties
<1> DEFINE at(i) == IF i <= Len(a) THEN i ELSE i + Len(h)
<1>8. ASSUME NEW i \in 1..Len(t) PROVE at(i) \in 1..Len(s) /\ t[i] = s[at(i)]
  <2>1. CASE i <= Len(a)
    <3>1. /\ i \in 1..Len(a) /\ i \in 1..(Len(a) + Len(r)) /\ i <= Len(b)
          /\ i \in 1..(Len(b) + Len(r))
      BY <1>1, <1>3, <1>7, <2>1
    <3>2. t[i] = a[i] /\ s[i] = b[i] /\ b[i] = a[i] BY <1>3, <1>5, <1>7, <2>1, <3>1
    <3> QED BY <1>5, <2>1, <3>1, <3>2
  <2>2. CASE i > Len(a)
    <3>1. /\ ~(i <= Len(a)) /\ i \in 1..(Len(a) + Len(r))
          /\ ~(i + Len(h) <= Len(b)) /\ i + Len(h) \in 1..(Len(b) + Len(r))
          /\ (i + Len(h)) - Len(b) = i - Len(a)
      BY <1>1, <1>3, <1>7, <2>2
    <3>2. t[i] = r[i - Len(a)] BY <1>7, <3>1
    <3>3. s[i + Len(h)] = r[(i + Len(h)) - Len(b)] BY <1>5, <3>1
    <3> QED BY <1>5, <3>1, <3>2, <3>3
  <2> QED BY <1>1, <1>7, <2>1, <2>2
<1>9. ASSUME NEW i \in 1..Len(t), NEW j \in 1..Len(t), i < j PROVE at(i) < at(j)
  <2>1. i \in Int /\ j \in Int OBVIOUS
  <2>2. CASE i <= Len(a) /\ j <= Len(a) BY <1>9, <2>2
  <2>3. CASE i <= Len(a) /\ ~(j <= Len(a)) BY <1>1, <1>9, <2>1, <2>3
  <2>4. CASE ~(i <= Len(a)) /\ ~(j <= Len(a)) BY <1>1, <1>9, <2>1, <2>4
  <2> QED BY <1>1, <1>9, <2>1, <2>2, <2>3, <2>4
<1>10. Rising(s) /\ Within(s, lo, hi) BY <1>2, <1>4
<1>11. Rising(t)
  <2>1. ASSUME NEW i \in 1..Len(t), NEW j \in 1..Len(t), i < j PROVE t[i] < t[j]
    <3>1. PICK x : x = at(i) OBVIOUS
    <3>2. PICK y : y = at(j) OBVIOUS
    <3>3. x < y BY <1>9, <2>1, <3>1, <3>2
    <3> HIDE DEF at
    <3>4. /\ x \in 1..Len(s) /\ y \in 1..Len(s)
          /\ t[i] = s[x] /\ t[j] = s[y]
      BY <1>8, <3>1, <3>2
    <3>5. s[x] < s[y] BY <1>10, <3>3, <3>4 DEF Rising
    <3> QED BY <3>4, <3>5
  <2> QED BY <2>1 DEF Rising
<1>12. Within(t, lo, hi)
  <2>1. ASSUME NEW i \in 1..Len(t) PROVE lo <= t[i] /\ t[i] <= hi
    <3>1. at(i) \in 1..Len(s) /\ t[i] = s[at(i)] BY <1>8
    <3> HIDE DEF at
    <3> QED BY <1>10, <3>1 DEF Within
  <2> QED BY <2>1 DEF Within
<1> QED BY <1>6, <1>11, <1>12

\* Encoding takes the first samples of the FIFO and leaves the others.
LEMMA FrameCut ==
  ASSUME RecorderType, WholeFrame
  PROVE  LET head == SubSeq(audio_fifo, 1, FrameSize)
             rest == SubSeq(audio_fifo, FrameSize + 1, Len(audio_fifo))
         IN /\ head \in Seq(Nat) /\ Len(head) = FrameSize /\ rest \in Seq(Nat)
            /\ Sound = (encoded \o head) \o rest
<1> USE DEF RecorderType
<1>1. FrameSize \in Nat /\ FrameSize <= Len(audio_fifo)
  BY RecorderAssumption DEF WholeFrame
<1>2. PICK head : head = SubSeq(audio_fifo, 1, FrameSize) OBVIOUS
<1>3. PICK rest : rest = SubSeq(audio_fifo, FrameSize + 1, Len(audio_fifo)) OBVIOUS
<1>4. head \in Seq(Nat) /\ rest \in Seq(Nat) /\ head \o rest = audio_fifo
  BY <1>1, <1>2, <1>3, CutType
<1>5. Len(head) = FrameSize
  <2>1. Len(audio_fifo) \in Nat BY LenProperties
  <2>2. \A i \in 1..FrameSize : audio_fifo[i] \in Nat BY <1>1, <2>1, ElementOfSeq
  <2>3. Len(head) = IF 1 <= FrameSize THEN FrameSize - 1 + 1 ELSE 0
    BY <1>1, <1>2, <2>2, SubSeqProperties
  <2> QED BY <1>1, <2>3
<1>6. encoded \o (head \o rest) = (encoded \o head) \o rest
  <2>1. encoded \in Seq(Nat) OBVIOUS
  <2> QED BY <1>4, <2>1, Assoc
<1>7. Sound = (encoded \o head) \o rest BY <1>4, <1>6 DEF Sound
<1> QED BY <1>2, <1>3, <1>4, <1>5, <1>7

\* A recorder begins with nothing captured and nothing encoded.
LEMMA SoundInit == RecorderInit => SoundInv
<1> SUFFICES ASSUME RecorderInit PROVE SoundInv
  OBVIOUS
<1>1. <<>> \in Seq(Nat) /\ Len(<<>>) = 0 BY EmptySeq
<1>2. /\ encoded = <<>> /\ audio_fifo = <<>> /\ captured = 0 /\ origin = 1
      /\ failed = 0 /\ writing = FALSE
  BY DEF RecorderInit, Begin
<1>3. Sound = <<>>
  <2>1. <<>> \o <<>> = <<>> BY <1>1, ConcatEmptySeq
  <2> QED BY <1>2, <2>1 DEF Sound
<1>4. RecorderType BY <1>1, <1>2 DEF RecorderType
<1>5. Rising(Sound) /\ Within(Sound, origin, captured) BY <1>1, <1>3 DEF Rising, Within
<1>6. Whole(Sound, origin, captured) BY <1>1, <1>2, <1>3 DEF Whole
<1>7. Len(audio_fifo) < FrameSize /\ FrameSize \in Nat
  BY <1>1, <1>2, RecorderAssumption
<1>8. WholeFrames BY <1>1, <1>2, <1>7 DEF WholeFrames
<1> QED BY <1>2, <1>4, <1>5, <1>6, <1>7, <1>8 DEF SoundInv

\* Every call of the recorder keeps the sound in order.
LEMMA SoundStep == SoundInv /\ [RecorderStep]_recorderVars => SoundInv'
<1> SUFFICES ASSUME SoundInv, [RecorderStep]_recorderVars PROVE SoundInv'
  OBVIOUS
<1>0. /\ RecorderType
      /\ encoded \in Seq(Nat) /\ audio_fifo \in Seq(Nat)
      /\ captured \in Nat /\ origin \in Nat /\ failed \in Nat
  BY DEF SoundInv, RecorderType
<1>e. <<>> \in Seq(Nat) /\ Len(<<>>) = 0 BY EmptySeq
<1>f. FrameSize \in Nat /\ 1 <= FrameSize BY RecorderAssumption
<1>1. CASE AudioRestart
  <2>1. /\ encoded' = <<>> /\ audio_fifo' = <<>> /\ captured' = captured
        /\ origin' = captured + 1 /\ failed' = 0 /\ writing' = FALSE
    BY <1>1 DEF AudioRestart
  <2>2. Sound' = <<>>
    <3>1. <<>> \o <<>> = <<>> BY <1>e, ConcatEmptySeq
    <3> QED BY <2>1, <3>1 DEF Sound
  <2>3. RecorderType' BY <1>0, <1>e, <2>1 DEF RecorderType
  <2>4. Rising(Sound') /\ Within(Sound', origin', captured')
    BY <1>e, <2>2 DEF Rising, Within
  <2>5. Whole(Sound', origin', captured') BY <1>0, <1>e, <2>1, <2>2 DEF Whole
  <2>6. WholeFrames' BY <1>e, <1>f, <2>1 DEF WholeFrames
  <2> QED BY <1>0, <1>e, <1>f, <2>1, <2>3, <2>4, <2>5, <2>6 DEF SoundInv
<1>2. CASE WritePicture \/ UNCHANGED recorderVars
  <2>1. UNCHANGED <<encoded, audio_fifo, captured, origin, failed, writing>>
    BY <1>2 DEF WritePicture, recorderVars
  <2>2. Sound' = Sound BY <2>1 DEF Sound
  <2>3. RecorderType' /\ WholeFrames' BY <2>1 DEF SoundInv, RecorderType, WholeFrames
  <2> QED BY <2>1, <2>2, <2>3 DEF SoundInv
<1>3. ASSUME NEW n \in 1..CaptureMax, WriteSamples(n) PROVE SoundInv'
  <2>0. n \in Nat BY RecorderAssumption
  <2>1. /\ captured' = captured + n /\ encoded' = encoded /\ origin' = origin
        /\ UNCHANGED <<encoded, origin>>
    BY <1>3 DEF WriteSamples
  <2>2. CASE audio_fifo' = audio_fifo \o Samples(n) /\ writing' = TRUE /\ failed' = failed
    <3>1. PICK c \in Seq(Nat) : c = Samples(n) BY <1>0, <2>0, SamplesType
    <3>2. audio_fifo' \in Seq(Nat) BY <1>0, <2>2, <3>1, ConcatProperties
    <3>3. Sound \in Seq(Nat) BY <1>0, ConcatProperties DEF Sound
    <3>a. encoded \o (audio_fifo \o c) = (encoded \o audio_fifo) \o c BY <1>0, Assoc
    <3>4. Sound' = Sound \o Samples(n) BY <2>1, <2>2, <3>1, <3>a DEF Sound
    <3>5. Rising(Sound') /\ Within(Sound', origin', captured')
      BY <1>0, <2>0, <2>1, <3>3, <3>4, SamplesRise DEF SoundInv
    <3>6. failed' = 0 => Whole(Sound', origin', captured')
      BY <1>0, <2>0, <2>1, <2>2, <3>3, <3>4, SamplesWhole DEF SoundInv
    <3>7. RecorderType' BY <1>0, <2>0, <2>1, <2>2, <3>2 DEF RecorderType
    <3>8. WholeFrames' BY <2>1 DEF SoundInv, WholeFrames
    <3>9. origin' <= captured' + 1 BY <1>0, <2>0, <2>1 DEF SoundInv
    <3> QED BY <2>2, <3>5, <3>6, <3>7, <3>8, <3>9 DEF SoundInv
  <2>3. CASE failed' = failed + 1 /\ UNCHANGED <<audio_fifo, writing>>
    <3>1. Sound' = Sound BY <2>1, <2>3 DEF Sound
    <3>2. Within(Sound', origin', captured')
      <4>1. Sound \in Seq(Nat) BY <1>0, ConcatProperties DEF Sound
      <4>2. ASSUME NEW i \in 1..Len(Sound)
            PROVE  origin <= Sound[i] /\ Sound[i] <= captured + n
        <5>1. Sound[i] \in Nat BY <4>1, ElementOfSeq
        <5>2. origin <= Sound[i] /\ Sound[i] <= captured BY DEF SoundInv, Within
        <5> QED BY <1>0, <2>0, <5>1, <5>2
      <4> QED BY <2>1, <3>1, <4>2 DEF Within
    <3>3. RecorderType' BY <1>0, <2>0, <2>1, <2>3 DEF RecorderType
    <3>4. WholeFrames' BY <2>1 DEF SoundInv, WholeFrames
    <3>5. origin' <= captured' + 1 /\ failed' # 0 BY <1>0, <2>0, <2>1, <2>3 DEF SoundInv
    <3>6. Rising(Sound') BY <3>1 DEF SoundInv
    <3> QED BY <3>2, <3>3, <3>4, <3>5, <3>6 DEF SoundInv
  <2> QED BY <1>3, <2>2, <2>3 DEF WriteSamples
<1>4. CASE EncodeFrame
  <2>1. PICK head : head = SubSeq(audio_fifo, 1, FrameSize) OBVIOUS
  <2>2. /\ head \in Seq(Nat) /\ Len(head) = FrameSize /\ audio_fifo' \in Seq(Nat)
        /\ Sound = (encoded \o head) \o audio_fifo'
    BY <1>0, <1>4, <2>1, FrameCut DEF EncodeFrame, TakeFrame
  <2>3. /\ encoded' = encoded \o head /\ writing
        /\ UNCHANGED <<writing, captured, origin, failed>>
    BY <1>4, <2>1 DEF EncodeFrame
  <2>4. Sound' = Sound BY <2>2, <2>3 DEF Sound
  <2>5. encoded' \in Seq(Nat) /\ Len(encoded') = Len(encoded) + FrameSize
    BY <1>0, <2>2, <2>3, ConcatProperties
  <2>6. RecorderType' BY <1>0, <2>2, <2>3, <2>5 DEF RecorderType
  <2>7. WholeFrames'
    <3>1. PICK k \in Nat : k <= Len(encoded) /\ Len(encoded) = k * FrameSize
      BY DEF SoundInv, WholeFrames
    <3>2. Len(encoded) \in Nat BY <1>0, LenProperties
    <3>3. k + 1 \in Nat /\ k + 1 <= Len(encoded') BY <1>f, <2>5, <3>1, <3>2
    <3>4. Len(encoded') = (k + 1) * FrameSize BY <1>f, <2>5, <3>1, <3>2
    <3> QED BY <3>3, <3>4 DEF WholeFrames
  <2> QED BY <2>3, <2>4, <2>6, <2>7 DEF SoundInv
<1>5. CASE EncodeFails
  <2>1. PICK head : head = SubSeq(audio_fifo, 1, FrameSize) OBVIOUS
  <2>2. /\ head \in Seq(Nat) /\ audio_fifo' \in Seq(Nat)
        /\ Sound = (encoded \o head) \o audio_fifo'
    BY <1>0, <1>5, <2>1, FrameCut DEF EncodeFails, TakeFrame
  <2>3. /\ writing' = FALSE /\ failed' = failed + 1
        /\ UNCHANGED <<captured, origin, encoded>>
    BY <1>5 DEF EncodeFails
  <2>4. Sound' = encoded \o audio_fifo' BY <2>3 DEF Sound
  <2>5. Rising(Sound') /\ Within(Sound', origin', captured')
    BY <1>0, <2>2, <2>3, <2>4, PartOut DEF SoundInv
  <2>6. RecorderType' BY <1>0, <2>2, <2>3 DEF RecorderType
  <2>7. WholeFrames' BY <2>3 DEF SoundInv, WholeFrames
  <2>8. failed' # 0 BY <1>0, <2>3
  <2> QED BY <2>3, <2>5, <2>6, <2>7, <2>8 DEF SoundInv
<1>6. CASE WritingEnds
  <2>1. /\ UNCHANGED <<encoded, audio_fifo, captured, origin, failed>>
        /\ writing' = FALSE /\ ~WholeFrame
    BY <1>6 DEF WritingEnds
  <2>2. Sound' = Sound BY <2>1 DEF Sound
  <2>3. RecorderType' BY <1>0, <2>1 DEF RecorderType
  <2>4. WholeFrames' BY <2>1 DEF SoundInv, WholeFrames
  <2>5. Len(audio_fifo) < FrameSize
    <3>1. Len(audio_fifo) \in Nat BY <1>0, LenProperties
    <3> QED BY <1>f, <2>1, <3>1 DEF WholeFrame
  <2> QED BY <2>1, <2>2, <2>3, <2>4, <2>5 DEF SoundInv
<1> QED BY <1>1, <1>2, <1>3, <1>4, <1>5, <1>6 DEF RecorderStep

\* However the samples come in and whatever fails, they are encoded in the order
\* they were captured, none twice, in whole frames; while nothing fails, all of
\* them but less than a frame.
THEOREM SoundAlways == BroadcastSpec => []SoundInOrder
<1>1. SoundInv => SoundInOrder
  <2> SUFFICES ASSUME SoundInv PROVE SoundInOrder
    OBVIOUS
  <2>1. /\ encoded \in Seq(Nat) /\ audio_fifo \in Seq(Nat)
        /\ captured \in Nat /\ origin \in Nat
    BY DEF SoundInv, RecorderType
  <2>2. Sound \in Seq(Nat) /\ Len(Sound) \in Nat
    BY <2>1, ConcatProperties, LenProperties DEF Sound
  <2>3. \A i \in 2..Len(Sound) : Sound[i - 1] < Sound[i]
    <3> TAKE i \in 2..Len(Sound)
    <3>1. i \in 1..Len(Sound) /\ i - 1 \in 1..Len(Sound) /\ i - 1 < i BY <2>2
    <3> QED BY <3>1 DEF SoundInv, Rising
  <2>4. \E k \in 0..Len(encoded) : Len(encoded) = k * FrameSize
    <3>1. Len(encoded) \in Nat BY <2>1, LenProperties
    <3> QED BY <3>1 DEF SoundInv, WholeFrames
  <2>5. ASSUME failed = 0 PROVE Sound = [i \in 1..(captured - origin + 1) |-> origin + i - 1]
    <3>1. PICK all : all = [i \in 1..(captured - origin + 1) |-> origin + i - 1] OBVIOUS
    <3>2. captured - origin + 1 \in Nat BY <2>1 DEF SoundInv
    <3>3. all \in [1..(captured - origin + 1) -> Nat] BY <2>1, <3>1, <3>2
    <3>4. all \in Seq(Nat) /\ Len(all) = captured - origin + 1 BY <3>2, <3>3
    <3>5. Len(Sound) = captured - origin + 1 BY <2>5 DEF SoundInv, Whole
    <3>6. \A i \in 1..Len(Sound) : Sound[i] = origin + i - 1
      BY <2>5 DEF SoundInv, Whole
    <3>7. \A i \in 1..Len(Sound) : Sound[i] = all[i] BY <3>1, <3>5, <3>6
    <3>8. Sound = all BY <2>2, <3>4, <3>5, <3>7, SeqEqual
    <3> QED BY <3>1, <3>8
  <2>6. failed = 0 /\ ~writing => Len(audio_fifo) < FrameSize BY DEF SoundInv
  <2> QED BY <2>3, <2>4, <2>5, <2>6 DEF SoundInOrder, Sound
<1>2. RecorderSpec => []SoundInOrder BY <1>1, SoundInit, SoundStep, PTL DEF RecorderSpec
<1> QED BY <1>2, Composed, PTL

-----------------------------------------------------------------------------
(* The sound's time stamps.  By itself SoundInStep is not inductive: how far a *)
(* stamp is past its picture's must be the number of frames stamped for that  *)
(* picture before it, and the recorder's counters those of the last frame.    *)

FrameStamp == [pts : Nat, picture : Nat]

\* No frame has the time stamp 0 of the first picture.
Base(picture) == IF picture = 0 THEN 1 ELSE 0

\* Frames stamped for the same picture before s.
Before(s) == s.pts - Stamp(s.picture) - Base(s.picture)

InPicture ==
  \A i \in 1..Len(stamps) :
    /\ 0 <= Before(stamps[i])
    /\ \A j \in (i - Before(stamps[i]))..i :
         1 <= j /\ stamps[j].picture = stamps[i].picture

FrameToFrame ==
  \A i \in 2..Len(stamps) :
    \/ /\ stamps[i].picture = stamps[i - 1].picture
       /\ stamps[i].pts = stamps[i - 1].pts + 1
    \/ /\ stamps[i - 1].picture < stamps[i].picture
       /\ stamps[i].pts = Stamp(stamps[i].picture)

LastStamp ==
  IF Len(stamps) = 0
  THEN audio_pts = 0 /\ audio_pts_offset = 0
  ELSE LET s == stamps[Len(stamps)]
       IN /\ s.picture <= video_pts /\ audio_pts = Stamp(s.picture)
          /\ s.pts = audio_pts + audio_pts_offset

BySamples ==
  /\ audio_pts = Len(stamps) * FrameSize
  /\ \A i \in 1..Len(stamps) : stamps[i].pts = (i - 1) * FrameSize

StampsType ==
  /\ video_pts \in Nat /\ audio_pts \in Nat /\ audio_pts_offset \in Nat
  /\ stamps \in Seq(FrameStamp)

StampInv ==
  /\ record_type \in {"video_audio", "audio_only"} /\ StampsType
  /\ record_type = "video_audio" => InPicture /\ FrameToFrame /\ LastStamp
  /\ record_type = "audio_only" => BySamples

\* A quotient times the divisor is the dividend but for less than the divisor.
LEMMA Quotient ==
  ASSUME NEW a \in Nat, NEW f \in Nat, 1 <= f
  PROVE  LET q == a \div f IN q \in Nat /\ q * f <= a /\ a < q * f + f
OBVIOUS

LEMMA Product ==
  ASSUME NEW p \in Int, NEW q \in Int, NEW f \in Nat, p <= q
  PROVE  p * f <= q * f /\ p * f \in Int
OBVIOUS

\* A later picture has a later time, for no more pictures come than samples.
LEMMA StampRises ==
  ASSUME NEW p \in Nat
  PROVE  /\ Stamp(p) \in Nat /\ Stamp(0) = 0
         /\ \A q \in Nat : p < q => Stamp(p) < Stamp(q)
<1>1. Rate \in Nat /\ Frames \in Nat /\ 1 <= Frames /\ Frames <= Rate
  BY RecorderAssumption
<1>2. \A x \in Nat : x * Rate \in Nat BY <1>1
<1>3. Stamp(p) \in Nat BY <1>1, <1>2, Quotient DEF Stamp
<1>4. Stamp(0) = 0
  <2>1. 0 * Rate = 0 BY <1>1
  <2>2. PICK z : z = 0 \div Frames OBVIOUS
  <2>3. z \in Nat /\ z * Frames <= 0 BY <1>1, <2>2, Quotient
  <2>4. z = 0
    <3>1. CASE 1 <= z
      <4>1. 1 * Frames <= z * Frames BY <1>1, <2>3, <3>1, Product
      <4> QED BY <1>1, <2>3, <4>1
    <3> QED BY <2>3, <3>1
  <2> QED BY <2>1, <2>2, <2>4 DEF Stamp
<1>5. ASSUME NEW q \in Nat, p < q PROVE Stamp(p) < Stamp(q)
  <2>1. PICK a \in Nat : a = p * Rate BY <1>2
  <2>2. PICK b \in Nat : b = q * Rate BY <1>2
  <2>3. a + Rate <= b
    <3>1. (p + 1) * Rate <= q * Rate BY <1>1, <1>5, Product
    <3>2. (p + 1) * Rate = p * Rate + Rate BY <1>1
    <3> QED BY <2>1, <2>2, <3>1, <3>2
  <2>4. PICK x : x = a \div Frames OBVIOUS
  <2>5. PICK y : y = b \div Frames OBVIOUS
  <2>6. x \in Nat /\ x * Frames <= a BY <1>1, <2>4, Quotient
  <2>7. y \in Nat /\ b < y * Frames + Frames BY <1>1, <2>5, Quotient
  <2>8. x < y
    <3>1. CASE y <= x
      <4>1. y * Frames <= x * Frames /\ y * Frames \in Int /\ x * Frames \in Int
        BY <1>1, <2>6, <2>7, <3>1, Product
      <4> QED BY <1>1, <2>3, <2>6, <2>7, <4>1
    <3> QED BY <2>6, <2>7, <3>1
  <2> QED BY <2>1, <2>2, <2>4, <2>5, <2>8 DEF Stamp
<1> QED BY <1>3, <1>4, <1>5

\* The frame stamped is the last, and the others are as they were.
LEMMA StampedType ==
  ASSUME stamps \in Seq(FrameStamp), video_pts \in Nat, NEW pts \in Nat, Stamped(pts)
  PROVE  /\ stamps' \in Seq(FrameStamp) /\ Len(stamps') = Len(stamps) + 1
         /\ \A i \in 1..Len(stamps) : stamps'[i] = stamps[i]
         /\ stamps'[Len(stamps) + 1] = [pts |-> pts, picture |-> video_pts]
         /\ Len(stamps) \in Nat
<1>1. PICK s : s = [pts |-> pts, picture |-> video_pts] OBVIOUS
<1>2. s \in FrameStamp BY <1>1 DEF FrameStamp
<1>3. stamps' = Append(stamps, s) BY <1>1 DEF Stamped
<1>4. /\ Append(stamps, s) \in Seq(FrameStamp)
      /\ Len(Append(stamps, s)) = Len(stamps) + 1
      /\ \A i \in 1..Len(stamps) : Append(stamps, s)[i] = stamps[i]
      /\ Append(stamps, s)[Len(stamps) + 1] = s
  BY <1>2, AppendProperties
<1> QED BY <1>1, <1>3, <1>4, LenProperties

\* With the next picture a frame gets its time; until then one more than the last.
LEMMA StampFrameStep ==
  ASSUME StampInv, StampFrame, UNCHANGED <<record_type, video_pts>>
  PROVE  StampInv'
<1> USE DEF StampsType
<1>0. /\ StampsType /\ record_type \in {"video_audio", "audio_only"}
      /\ record_type' = record_type /\ video_pts' = video_pts
  BY DEF StampInv
<1>f. FrameSize \in Nat BY RecorderAssumption
<1> DEFINE n == Len(stamps)
<1>n. n \in Nat BY <1>0, LenProperties
<1>1. CASE record_type = "audio_only"
  <2>1. /\ Stamped(audio_pts) /\ audio_pts' = audio_pts + FrameSize
        /\ audio_pts_offset' = audio_pts_offset
    BY <1>1 DEF StampFrame
  <2>2. /\ stamps' \in Seq(FrameStamp) /\ Len(stamps') = n + 1
        /\ \A i \in 1..n : stamps'[i] = stamps[i]
        /\ stamps'[n + 1] = [pts |-> audio_pts, picture |-> video_pts]
    BY <1>0, <2>1, StampedType
  <2>3. audio_pts = n * FrameSize /\ \A i \in 1..n : stamps[i].pts = (i - 1) * FrameSize
    BY <1>1 DEF StampInv, BySamples
  <2>4. audio_pts' = (n + 1) * FrameSize /\ audio_pts' \in Nat
    BY <1>0, <1>f, <1>n, <2>1, <2>3
  <2>5. ASSUME NEW i \in 1..(n + 1) PROVE stamps'[i].pts = (i - 1) * FrameSize
    <3>1. CASE i \in 1..n BY <2>2, <2>3, <3>1
    <3>2. CASE i = n + 1
      <4>1. stamps'[i].pts = audio_pts BY <2>2, <3>2
      <4>2. i - 1 = n BY <1>n, <3>2
      <4> QED BY <2>3, <4>1, <4>2
    <3> QED BY <1>n, <3>1, <3>2
  <2>6. BySamples' BY <2>2, <2>4, <2>5 DEF BySamples
  <2>7. StampsType' BY <1>0, <2>1, <2>2, <2>4
  <2> HIDE DEF StampsType
  <2> QED BY <1>0, <1>1, <2>6, <2>7 DEF StampInv
<1>2. CASE record_type = "video_audio"
  <2>0. /\ InPicture /\ FrameToFrame /\ LastStamp BY <1>2 DEF StampInv
  <2>s. /\ Stamp(video_pts) \in Nat /\ Stamp(0) = 0
        /\ \A p \in Nat : Stamp(p) \in Nat
        /\ \A p, q \in Nat : p < q => Stamp(p) < Stamp(q)
    BY <1>0, StampRises
  <2>1. PICK pts \in Nat :
          /\ Stamped(pts) /\ audio_pts' = Stamp(video_pts) /\ audio_pts_offset' \in Nat
          /\ pts = audio_pts' + audio_pts_offset'
          /\ IF Stamp(video_pts) = audio_pts
             THEN audio_pts_offset' = audio_pts_offset + 1
             ELSE audio_pts_offset' = 0
    <3>1. CASE Stamp(video_pts) = audio_pts
      <4>1. /\ audio_pts_offset' = audio_pts_offset + 1
            /\ Stamped(audio_pts + audio_pts_offset') /\ audio_pts' = audio_pts
        BY <1>2, <3>1 DEF StampFrame
      <4>2. audio_pts + audio_pts_offset' \in Nat /\ audio_pts_offset' \in Nat
        BY <1>0, <4>1
      <4> QED BY <3>1, <4>1, <4>2
    <3>2. CASE Stamp(video_pts) # audio_pts
      <4>1. /\ audio_pts_offset' = 0 /\ Stamped(Stamp(video_pts))
            /\ audio_pts' = Stamp(video_pts)
        BY <1>2, <3>2 DEF StampFrame
      <4>2. Stamp(video_pts) = audio_pts' + audio_pts_offset' BY <2>s, <4>1
      <4> QED BY <2>s, <3>2, <4>1, <4>2
    <3> QED BY <3>1, <3>2
  <2>2. /\ stamps' \in Seq(FrameStamp) /\ Len(stamps') = n + 1
        /\ \A i \in 1..n : stamps'[i] = stamps[i]
        /\ stamps'[n + 1] = [pts |-> pts, picture |-> video_pts]
    BY <1>0, <2>1, StampedType
  <2>t. StampsType' BY <1>0, <2>s, <2>1, <2>2
  <2>3. LastStamp'
    <3>1. n + 1 # 0 BY <1>n
    <3>2. stamps'[n + 1].pts = pts /\ stamps'[n + 1].picture = video_pts BY <2>2
    <3> QED BY <1>0, <2>1, <2>2, <3>1, <3>2 DEF LastStamp, Stamp
  <2>old. \A i \in 1..n : stamps[i] \in FrameStamp BY <1>0, ElementOfSeq
  <2>4. CASE n = 0
    <3>1. audio_pts = 0 /\ audio_pts_offset = 0 BY <2>0, <2>2, <2>4 DEF LastStamp
    <3>2. pts = Stamp(video_pts) + Base(video_pts)
      <4>1. CASE video_pts = 0 BY <2>s, <2>1, <3>1, <4>1 DEF Base
      <4>2. CASE video_pts # 0
        <5>1. Stamp(0) < Stamp(video_pts) BY <1>0, <2>s, <4>2
        <5> QED BY <2>s, <2>1, <3>1, <4>2, <5>1 DEF Base
      <4> QED BY <4>1, <4>2
    <3>3. stamps'[1].pts = pts /\ stamps'[1].picture = video_pts BY <2>2, <2>4
    <3>4. Base(video_pts) \in Nat BY DEF Base
    <3>5. pts - Stamp(video_pts) - Base(video_pts) = 0 BY <2>s, <3>2, <3>4
    <3>6. InPicture'
      <4> SUFFICES ASSUME NEW i \in 1..Len(stamps')
                   PROVE  /\ 0 <= Before(stamps'[i])
                          /\ \A j \in (i - Before(stamps'[i]))..i :
                               1 <= j /\ stamps'[j].picture = stamps'[i].picture
        BY DEF InPicture, Before, Stamp, Base
      <4>1. i = 1 BY <2>2, <2>4
      <4>2. Before(stamps'[i]) = 0 BY <3>3, <3>5, <4>1 DEF Before
      <4> QED BY <4>1, <4>2
    <3>7. FrameToFrame' BY <2>2, <2>4 DEF FrameToFrame
    <3> HIDE DEF StampsType
    <3> QED BY <1>0, <1>2, <2>t, <2>3, <3>6, <3>7 DEF StampInv
  <2>5. CASE n # 0
    <3>1. PICK last : last = stamps[n] OBVIOUS
    <3>2. /\ n \in 1..n /\ last \in FrameStamp /\ last.pts \in Nat /\ last.picture \in Nat
      BY <1>n, <2>5, <2>old, <3>1 DEF FrameStamp
    <3>3. /\ last.picture <= video_pts /\ audio_pts = Stamp(last.picture)
          /\ last.pts = audio_pts + audio_pts_offset
      BY <2>0, <2>5, <3>1 DEF LastStamp
    <3>4. \/ last.picture = video_pts /\ pts = last.pts + 1
          \/ last.picture < video_pts /\ pts = Stamp(video_pts)
      <4>1. CASE last.picture = video_pts
        <5>1. Stamp(video_pts) = audio_pts BY <3>3, <4>1
        <5> QED BY <1>0, <2>1, <3>2, <3>3, <4>1, <5>1
      <4>2. CASE last.picture < video_pts
        <5>1. audio_pts < Stamp(video_pts) BY <1>0, <2>s, <3>2, <3>3, <4>2
        <5>2. Stamp(video_pts) # audio_pts BY <1>0, <2>s, <5>1
        <5>3. audio_pts_offset' = 0 /\ pts = Stamp(video_pts) + audio_pts_offset' BY <2>1, <5>2
        <5>4. pts = Stamp(video_pts) BY <2>s, <5>3
        <5> QED BY <4>2, <5>4
      <4> QED BY <1>0, <3>2, <3>3, <4>1, <4>2
    <3>5. stamps'[n + 1].pts = pts /\ stamps'[n + 1].picture = video_pts BY <2>2
    <3>6. FrameToFrame'
      <4> SUFFICES ASSUME NEW i \in 2..(n + 1)
                   PROVE  \/ /\ stamps'[i].picture = stamps'[i - 1].picture
                             /\ stamps'[i].pts = stamps'[i - 1].pts + 1
                          \/ /\ stamps'[i - 1].picture < stamps'[i].picture
                             /\ stamps'[i].pts = Stamp(stamps'[i].picture)
        BY <2>2 DEF FrameToFrame, Stamp
      <4>1. CASE i \in 2..n
        <5>1. i \in 1..n /\ i - 1 \in 1..n BY <1>n, <4>1
        <5>2. stamps'[i] = stamps[i] /\ stamps'[i - 1] = stamps[i - 1] BY <2>2, <5>1
        <5> QED BY <2>0, <4>1, <5>2 DEF FrameToFrame
      <4>2. CASE i = n + 1
        <5>1. i - 1 = n BY <1>n, <4>2
        <5>2. stamps'[i - 1] = last BY <2>2, <3>1, <3>2, <5>1
        <5> QED BY <3>4, <3>5, <4>2, <5>2
      <4> QED BY <1>n, <4>1, <4>2
    <3>7. InPicture'
      <4> SUFFICES ASSUME NEW i \in 1..(n + 1)
                   PROVE  /\ 0 <= Before(stamps'[i])
                          /\ \A j \in (i - Before(stamps'[i]))..i :
                               1 <= j /\ stamps'[j].picture = stamps'[i].picture
        BY <2>2 DEF InPicture, Before, Stamp, Base
      <4>1. CASE i \in 1..n
        <5>1. stamps'[i] = stamps[i] BY <2>2, <4>1
        <5>2. PICK b : b = Before(stamps[i]) OBVIOUS
        <5>3. 0 <= b /\ \A j \in (i - b)..i : 1 <= j /\ stamps[j].picture = stamps[i].picture
          BY <2>0, <4>1, <5>2 DEF InPicture
        <5>4. b \in Int
          <6>1. stamps[i].pts \in Nat /\ stamps[i].picture \in Nat
            BY <2>old, <4>1 DEF FrameStamp
          <6> QED BY <2>s, <5>2, <6>1 DEF Before, Base
        <5>5. ASSUME NEW j \in (i - b)..i
              PROVE  1 <= j /\ stamps'[j].picture = stamps[i].picture
          <6>1. 1 <= j /\ stamps[j].picture = stamps[i].picture BY <5>3
          <6>2. j \in 1..n BY <1>n, <4>1, <5>4, <6>1
          <6> QED BY <2>2, <6>1, <6>2
        <5> QED BY <5>1, <5>2, <5>3, <5>5
      <4>2. CASE i = n + 1 /\ last.picture < video_pts
        <5>1. Before(stamps'[i]) = 0
          <6>1. Base(video_pts) = 0 BY <1>0, <3>2, <4>2 DEF Base
          <6>2. pts = Stamp(video_pts) BY <1>0, <3>2, <3>4, <4>2
          <6> QED BY <2>s, <3>5, <4>2, <6>1, <6>2 DEF Before
        <5> QED BY <1>n, <4>2, <5>1
      <4>3. CASE i = n + 1 /\ last.picture = video_pts
        <5>1. PICK b : b = Before(last) OBVIOUS
        <5>2. 0 <= b /\ \A j \in (n - b)..n : 1 <= j /\ stamps[j].picture = last.picture
          BY <2>0, <3>1, <3>2, <5>1 DEF InPicture
        <5>3. b \in Int BY <2>s, <3>2, <5>1 DEF Before, Base
        <5>4. pts = last.pts + 1 BY <1>0, <3>2, <3>4, <4>3
        <5>5. Before(stamps'[i]) = b + 1
          <6>1. Base(video_pts) \in Int BY DEF Base
          <6>2. stamps'[i].pts = pts /\ stamps'[i].picture = video_pts BY <3>5, <4>3
          <6>3. Before(stamps'[i]) = pts - Stamp(video_pts) - Base(video_pts) BY <6>2 DEF Before
          <6>4. b = last.pts - Stamp(video_pts) - Base(video_pts) BY <4>3, <5>1 DEF Before
          <6>5. PICK st \in Nat : st = Stamp(video_pts) BY <2>s
          <6>6. PICK bs \in Int : bs = Base(video_pts) BY <6>1
          <6>7. PICK lp \in Nat : lp = last.pts BY <3>2
          <6>8. Before(stamps'[i]) = pts - st - bs BY <6>3, <6>5, <6>6
          <6>9. b = lp - st - bs BY <6>4, <6>5, <6>6, <6>7
          <6>10. pts = lp + 1 BY <5>4, <6>7
          <6>11. pts - st - bs = b + 1 BY <6>9, <6>10
          <6> QED BY <6>8, <6>11
        <5>6. ASSUME NEW j \in (i - (b + 1))..i
              PROVE  1 <= j /\ stamps'[j].picture = video_pts
          <6>1. CASE j = n + 1 BY <1>n, <3>5, <6>1
          <6>2. CASE j # n + 1
            <7>1. j \in (n - b)..n BY <1>n, <4>3, <5>3, <6>2
            <7>2. 1 <= j /\ stamps[j].picture = last.picture BY <5>2, <7>1
            <7>3. j \in 1..n BY <1>n, <5>3, <7>1, <7>2
            <7> QED BY <2>2, <4>3, <7>2, <7>3
          <6> QED BY <6>1, <6>2
        <5> QED BY <3>5, <4>3, <5>2, <5>3, <5>5, <5>6
      <4> QED BY <1>n, <3>4, <4>1, <4>2, <4>3
    <3> HIDE DEF StampsType
    <3> QED BY <1>0, <1>2, <2>t, <2>3, <3>6, <3>7 DEF StampInv
  <2> QED BY <2>4, <2>5
<1> QED BY <1>0, <1>1, <1>2

\* Only stamping a frame, a picture and a new recording concern the time stamps.
LEMMA StampStep == StampInv /\ [RecorderStep]_recorderVars => StampInv'
<1> SUFFICES ASSUME StampInv, [RecorderStep]_recorderVars PROVE StampInv'
  OBVIOUS
<1>1. CASE AudioRestart
  <2>1. <<>> \in Seq(FrameStamp) /\ Len(<<>>) = 0 BY EmptySeq
  <2>2. /\ record_type = "audio_only" /\ record_type' = record_type
        /\ video_pts' = 0 /\ audio_pts' = 0 /\ audio_pts_offset' = 0 /\ stamps' = <<>>
    BY <1>1 DEF AudioRestart
  <2>3. StampsType' BY <2>1, <2>2 DEF StampsType
  <2>4. 0 * FrameSize = 0 BY RecorderAssumption
  <2>5. BySamples' BY <2>1, <2>2, <2>4 DEF BySamples
  <2>6. record_type' = "audio_only" BY <2>2
  <2> QED BY <2>3, <2>5, <2>6 DEF StampInv
<1>2. CASE WritePicture
  <2>1. /\ video_pts' = video_pts + 1 /\ record_type = "video_audio"
        /\ UNCHANGED <<record_type, audio_pts, audio_pts_offset, stamps>>
    BY <1>2 DEF WritePicture
  <2>2. StampsType /\ StampsType' BY <2>1 DEF StampInv, StampsType
  <2>3. InPicture' /\ FrameToFrame'
    BY <2>1 DEF StampInv, InPicture, FrameToFrame, Before, Base, Stamp
  <2>4. LastStamp'
    <3>1. LastStamp BY <2>1 DEF StampInv
    <3>2. CASE Len(stamps) = 0 BY <2>1, <3>1, <3>2 DEF LastStamp
    <3>3. CASE Len(stamps) # 0
      <4>1. PICK s : s = stamps[Len(stamps)] OBVIOUS
      <4>2. /\ s.picture <= video_pts /\ audio_pts = Stamp(s.picture)
            /\ s.pts = audio_pts + audio_pts_offset
        BY <3>1, <3>3, <4>1 DEF LastStamp
      <4>3. s.picture \in Nat
        <5>1. Len(stamps) \in Nat BY <2>2, LenProperties DEF StampsType
        <5>2. Len(stamps) \in 1..Len(stamps) BY <3>3, <5>1
        <5>3. s \in FrameStamp BY <2>2, <4>1, <5>2, ElementOfSeq DEF StampsType
        <5> QED BY <5>3 DEF FrameStamp
      <4>4. s.picture <= video_pts' BY <2>1, <2>2, <4>2, <4>3 DEF StampsType
      <4> QED BY <2>1, <3>3, <4>1, <4>2, <4>4 DEF LastStamp, Stamp
    <3> QED BY <3>2, <3>3
  <2>5. record_type' = "video_audio" BY <2>1
  <2> QED BY <2>2, <2>3, <2>4, <2>5 DEF StampInv
<1>3. CASE \/ \E n \in 1..CaptureMax : WriteSamples(n)
           \/ WritingEnds \/ UNCHANGED recorderVars
           \/ EncodeFails /\ UNCHANGED <<stamps, audio_pts, audio_pts_offset>>
  <2>1. UNCHANGED <<record_type, video_pts, audio_pts, audio_pts_offset, stamps>>
    BY <1>3 DEF WriteSamples, WritingEnds, EncodeFails, recorderVars
  <2> QED BY <2>1 DEF StampInv, StampsType, InPicture, FrameToFrame, LastStamp, BySamples,
                      Before, Base, Stamp
<1>4. CASE (EncodeFrame \/ EncodeFails) /\ StampFrame
  <2>1. UNCHANGED <<record_type, video_pts>> BY <1>4 DEF EncodeFrame, EncodeFails
  <2> QED BY <1>4, <2>1, StampFrameStep
<1>5. EncodeFrame => StampFrame BY DEF EncodeFrame
<1>6. EncodeFails => StampFrame \/ UNCHANGED <<stamps, audio_pts, audio_pts_offset>>
  BY DEF EncodeFails
<1> QED BY <1>1, <1>2, <1>3, <1>4, <1>5, <1>6 DEF RecorderStep

\* A picture that is not crowded has room for the stamps given for it.
LEMMA InItsTime ==
  ASSUME StampInv, record_type = "video_audio",
         NEW i \in DOMAIN stamps, ~Crowded(stamps[i].picture)
  PROVE  /\ Stamp(stamps[i].picture) <= stamps[i].pts
         /\ stamps[i].pts < Stamp(stamps[i].picture + 1)
<1>1. /\ stamps \in Seq(FrameStamp) /\ Len(stamps) \in Nat /\ DOMAIN stamps = 1..Len(stamps)
      /\ i \in 1..Len(stamps)
  BY LenProperties DEF StampInv, StampsType
<1>2. PICK p : p = stamps[i].picture OBVIOUS
<1>3. p \in Nat /\ stamps[i].pts \in Nat
  <2>1. stamps[i] \in FrameStamp BY <1>1, ElementOfSeq
  <2> QED BY <1>2, <2>1 DEF FrameStamp
<1>4. Stamp(p) \in Nat /\ Stamp(p + 1) \in Nat BY <1>3, StampRises
<1>5. PICK b : b = Before(stamps[i]) OBVIOUS
<1>6. Base(p) \in {0, 1} BY DEF Base
<1>7. b = stamps[i].pts - Stamp(p) - Base(p) BY <1>2, <1>5 DEF Before
<1>8. b \in Int /\ 0 <= b /\ \A j \in (i - b)..i : 1 <= j /\ stamps[j].picture = p
  <2>1. b \in Int BY <1>3, <1>4, <1>6, <1>7
  <2>2. /\ 0 <= Before(stamps[i])
        /\ \A j \in (i - Before(stamps[i]))..i :
             1 <= j /\ stamps[j].picture = stamps[i].picture
    BY <1>1 DEF StampInv, InPicture
  <2> QED BY <1>2, <1>5, <2>1, <2>2
<1>9. PICK S : S = {j \in DOMAIN stamps : stamps[j].picture = p} OBVIOUS
<1>10. (i - b)..i \in SUBSET S
  <2>1. ASSUME NEW j \in (i - b)..i PROVE j \in S
    <3>1. 1 <= j /\ stamps[j].picture = p BY <1>8
    <3>2. j \in 1..Len(stamps) BY <1>1, <1>8, <3>1
    <3> QED BY <1>1, <1>9, <3>1, <3>2
  <2> QED BY <2>1
<1>11. IsFiniteSet(S)
  <2>1. IsFiniteSet(1..Len(stamps)) BY <1>1, FS_Interval
  <2>2. S \in SUBSET (1..Len(stamps)) BY <1>1, <1>9
  <2> QED BY <2>1, <2>2, FS_Subset
<1>12. Cardinality((i - b)..i) = b + 1
  <2>1. i - b \in Int /\ i \in Int /\ ~(i - b > i) /\ i - (i - b) + 1 = b + 1 BY <1>1, <1>8
  <2>2. Cardinality((i - b)..i) = IF i - b > i THEN 0 ELSE i - (i - b) + 1
    BY <2>1, FS_Interval
  <2> QED BY <2>1, <2>2
<1>13. b + 1 <= Cardinality(S) BY <1>10, <1>11, <1>12, FS_Subset
<1>14. Cardinality(S) \in Nat BY <1>11, FS_CardinalityType
<1>15. Cardinality(S) <= Stamp(p + 1) - Stamp(p) - Base(p)
  <2>1. ~(Cardinality(S) > Stamp(p + 1) - Stamp(p) - Base(p))
    BY <1>2, <1>9 DEF Crowded, Base
  <2> QED BY <1>4, <1>6, <1>14, <2>1
<1>16. Stamp(p) <= stamps[i].pts /\ stamps[i].pts < Stamp(p + 1)
  BY <1>3, <1>4, <1>6, <1>7, <1>8, <1>13, <1>14, <1>15
<1> QED BY <1>2, <1>16

\* For every frame size, sample rate and rate of pictures, the sound is stamped
\* by its samples alone or, with pictures, in step with them, and rises.
THEOREM InStepAlways == BroadcastSpec => []SoundInStep
<1>1. RecorderInit => StampInv
  <2> SUFFICES ASSUME RecorderInit PROVE StampInv
    OBVIOUS
  <2>1. <<>> \in Seq(FrameStamp) /\ Len(<<>>) = 0 BY EmptySeq
  <2>2. /\ record_type \in {"video_audio", "audio_only"}
        /\ video_pts = 0 /\ audio_pts = 0 /\ audio_pts_offset = 0 /\ stamps = <<>>
    BY DEF RecorderInit, Begin
  <2>3. StampsType BY <2>1, <2>2 DEF StampsType
  <2>4. 0 * FrameSize = 0 BY RecorderAssumption
  <2>5. BySamples BY <2>1, <2>2, <2>4 DEF BySamples
  <2>6. InPicture /\ FrameToFrame /\ LastStamp
    BY <2>1, <2>2 DEF InPicture, FrameToFrame, LastStamp
  <2> QED BY <2>2, <2>3, <2>5, <2>6 DEF StampInv
<1>2. StampInv => SoundInStep
  <2> SUFFICES ASSUME StampInv PROVE SoundInStep
    OBVIOUS
  <2>1. /\ stamps \in Seq(FrameStamp) /\ Len(stamps) \in Nat
        /\ DOMAIN stamps = 1..Len(stamps)
    BY LenProperties DEF StampInv, StampsType
  <2>2. CASE record_type = "audio_only"
    <3>1. \A i \in DOMAIN stamps : stamps[i].pts = (i - 1) * FrameSize
      BY <2>1, <2>2 DEF StampInv, BySamples
    <3> QED BY <2>2, <3>1 DEF SoundInStep
  <2>3. CASE record_type = "video_audio"
    <3>1. ASSUME NEW i \in DOMAIN stamps, ~Crowded(stamps[i].picture)
          PROVE  /\ Stamp(stamps[i].picture) <= stamps[i].pts
                 /\ stamps[i].pts < Stamp(stamps[i].picture + 1)
      BY <2>3, <3>1, InItsTime
    <3>2. ASSUME NEW i \in DOMAIN stamps, i > 1, ~Crowded(stamps[i - 1].picture)
          PROVE  stamps[i - 1].pts < stamps[i].pts
      <4>1. i \in 2..Len(stamps) /\ i - 1 \in DOMAIN stamps BY <2>1, <3>2
      <4>2. PICK s : s = stamps[i - 1] OBVIOUS
      <4>3. PICK t : t = stamps[i] OBVIOUS
      <4>4. s \in FrameStamp /\ t \in FrameStamp BY <2>1, <4>1, <4>2, <4>3, ElementOfSeq
      <4>5. s.pts \in Nat /\ s.picture \in Nat /\ t.pts \in Nat /\ t.picture \in Nat
        BY <4>4 DEF FrameStamp
      <4>6. CASE t.picture = s.picture /\ t.pts = s.pts + 1 BY <4>2, <4>3, <4>5, <4>6
      <4>7. CASE s.picture < t.picture /\ t.pts = Stamp(t.picture)
        <5>1. s.pts < Stamp(s.picture + 1) BY <2>3, <3>2, <4>1, <4>2, InItsTime
        <5>2. Stamp(s.picture + 1) \in Nat /\ Stamp(t.picture) \in Nat BY <4>5, StampRises
        <5>3. Stamp(s.picture + 1) <= Stamp(t.picture)
          <6>1. CASE s.picture + 1 = t.picture BY <5>2, <6>1
          <6>2. CASE s.picture + 1 < t.picture
            <7>1. s.picture + 1 \in Nat BY <4>5
            <7>2. Stamp(s.picture + 1) < Stamp(t.picture)
              BY <4>5, <6>2, <7>1, StampRises
            <7> QED BY <5>2, <7>2
          <6> QED BY <4>5, <4>7, <6>1, <6>2
        <5> QED BY <4>2, <4>3, <4>5, <4>7, <5>1, <5>2, <5>3
      <4>8. \/ t.picture = s.picture /\ t.pts = s.pts + 1
            \/ s.picture < t.picture /\ t.pts = Stamp(t.picture)
        BY <2>3, <4>1, <4>2, <4>3 DEF StampInv, FrameToFrame
      <4> QED BY <4>6, <4>7, <4>8
    <3>3. record_type # "audio_only" BY <2>3
    <3> QED BY <2>3, <3>1, <3>2, <3>3 DEF SoundInStep
  <2> QED BY <2>2, <2>3 DEF StampInv
<1>3. RecorderSpec => []SoundInStep BY <1>1, <1>2, StampStep, PTL DEF RecorderSpec
<1> QED BY <1>3, Composed, PTL
=============================================================================
