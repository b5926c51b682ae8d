--------------------------- MODULE RequestsProofs ---------------------------
(* Theorems about Requests: the box shows the channel asked for, and user     *)
(* loudness is saved whole and listed complete.                               *)
EXTENDS Requests, FiniteSetTheorems, SequenceTheorems, WellFoundedInduction, TLAPS

-----------------------------------------------------------------------------
(* The keys of a channel                                                      *)

\* Two sequences of keys are the same when they agree in every place.
LEMMA SameKeys ==
  ASSUME NEW s \in Seq(Int), NEW t \in Seq(Int), Len(s) = Len(t),
         \A i \in 1..Len(s) : s[i] = t[i]
  PROVE  s = t
BY SeqEqual

\* Exit and OK around the digits, place by place.
LEMMA Wrapped ==
  ASSUME NEW d \in Seq(Int)
  PROVE  LET k == <<Exit>> \o d \o <<Ok>>
         IN /\ k \in Seq(Int) /\ Len(k) = Len(d) + 2
            /\ k[1] = Exit /\ k[Len(d) + 2] = Ok
            /\ \A i \in 1..Len(d) : k[i + 1] = d[i]
BY DEF Exit, Ok

LEMMA Wrapped1 ==
  ASSUME NEW a \in Int
  PROVE  <<Exit>> \o <<a>> \o <<Ok>> = <<Exit, a, Ok>>
<1> DEFINE d == <<a>>
           k == <<Exit>> \o d \o <<Ok>>
           e == <<Exit, a, Ok>>
<1>1. d \in Seq(Int) /\ Len(d) = 1 /\ d[1] = a
  OBVIOUS
<1>2. e \in Seq(Int) /\ Len(e) = 3 /\ e[1] = Exit /\ e[2] = a /\ e[3] = Ok
  BY DEF Exit, Ok
<1> HIDE DEF d
<1>3. /\ k \in Seq(Int) /\ Len(k) = Len(d) + 2
      /\ k[1] = Exit /\ k[Len(d) + 2] = Ok
      /\ \A i \in 1..Len(d) : k[i + 1] = d[i]
  BY Wrapped, <1>1
<1> HIDE DEF k, e
<1>4. Len(k) = 3 /\ \A i \in 1..3 : k[i] = e[i]
  BY <1>1, <1>2, <1>3
<1>5. Len(k) = Len(e) /\ \A i \in 1..Len(k) : k[i] = e[i]
  BY <1>2, <1>4
<1>6. k = e
  BY <1>2, <1>3, <1>5, SameKeys
<1> QED BY <1>6 DEF k, e, d

LEMMA Wrapped2 ==
  ASSUME NEW a \in Int, NEW b \in Int
  PROVE  <<Exit>> \o <<a, b>> \o <<Ok>> = <<Exit, a, b, Ok>>
<1> DEFINE d == <<a, b>>
           k == <<Exit>> \o d \o <<Ok>>
           e == <<Exit, a, b, Ok>>
<1>1. d \in Seq(Int) /\ Len(d) = 2 /\ d[1] = a /\ d[2] = b
  OBVIOUS
<1>2. e \in Seq(Int) /\ Len(e) = 4 /\ e[1] = Exit /\ e[2] = a /\ e[3] = b /\ e[4] = Ok
  BY DEF Exit, Ok
<1> HIDE DEF d
<1>3. /\ k \in Seq(Int) /\ Len(k) = Len(d) + 2
      /\ k[1] = Exit /\ k[Len(d) + 2] = Ok
      /\ \A i \in 1..Len(d) : k[i + 1] = d[i]
  BY Wrapped, <1>1
<1> HIDE DEF k, e
<1>4. Len(k) = 4 /\ \A i \in 1..4 : k[i] = e[i]
  BY <1>1, <1>2, <1>3
<1>5. Len(k) = Len(e) /\ \A i \in 1..Len(k) : k[i] = e[i]
  BY <1>2, <1>4
<1>6. k = e
  BY <1>2, <1>3, <1>5, SameKeys
<1> QED BY <1>6 DEF k, e, d

LEMMA Wrapped3 ==
  ASSUME NEW a \in Int, NEW b \in Int, NEW c \in Int
  PROVE  <<Exit>> \o <<a, b, c>> \o <<Ok>> = <<Exit, a, b, c, Ok>>
<1> DEFINE d == <<a, b, c>>
           k == <<Exit>> \o d \o <<Ok>>
           e == <<Exit, a, b, c, Ok>>
<1>1. d \in Seq(Int) /\ Len(d) = 3 /\ d[1] = a /\ d[2] = b /\ d[3] = c
  OBVIOUS
<1>2. /\ e \in Seq(Int) /\ Len(e) = 5
      /\ e[1] = Exit /\ e[2] = a /\ e[3] = b /\ e[4] = c /\ e[5] = Ok
  BY DEF Exit, Ok
<1> HIDE DEF d
<1>3. /\ k \in Seq(Int) /\ Len(k) = Len(d) + 2
      /\ k[1] = Exit /\ k[Len(d) + 2] = Ok
      /\ \A i \in 1..Len(d) : k[i + 1] = d[i]
  BY Wrapped, <1>1
<1> HIDE DEF k, e
<1>4. Len(k) = 5 /\ \A i \in 1..5 : k[i] = e[i]
  BY <1>1, <1>2, <1>3
<1>5. Len(k) = Len(e) /\ \A i \in 1..Len(k) : k[i] = e[i]
  BY <1>2, <1>4
<1>6. k = e
  BY <1>2, <1>3, <1>5, SameKeys
<1> QED BY <1>6 DEF k, e, d

\* The digits of a channel, by their number.
LEMMA DigitsOf ==
  ASSUME NEW c \in Nat
  PROVE  /\ c < 10 => Digits(c) = <<c>>
         /\ c \in 10..99 => Digits(c) = <<c \div 10, c % 10>>
         /\ c \in 100..999 => Digits(c) = <<c \div 100, (c \div 10) % 10, c % 10>>
<1> DEFINE One == c < 10
           Two == c \in 10..99
           Three == c \in 100..999
           More == c > 999
           d1 == <<c>>
           d2 == <<c \div 10, c % 10>>
           d3 == <<c \div 100, (c \div 10) % 10, c % 10>>
           d4 == LET d == Leading(c) IN <<d \div 100, (d \div 10) % 10, d % 10>>
<1>1. Digits(c) = CASE One -> d1 [] Two -> d2 [] Three -> d3 [] More -> d4
  BY DEF Digits
<1>2. /\ One => ~Two /\ ~Three /\ ~More
      /\ Two => ~One /\ ~Three /\ ~More
      /\ Three => ~One /\ ~Two /\ ~More
  OBVIOUS
<1> HIDE DEF One, Two, Three, More, d1, d2, d3, d4
<1>3. (One => Digits(c) = d1) /\ (Two => Digits(c) = d2) /\ (Three => Digits(c) = d3)
  BY <1>1, <1>2
<1> QED BY <1>3 DEF One, Two, Three, d1, d2, d3

\* The keys of a channel, by the number of its digits.
LEMMA KeysOf ==
  ASSUME NEW c \in Nat
  PROVE  /\ c < 10 => KeysFor(c) = <<Exit, c, Ok>>
         /\ c \in 10..99 => KeysFor(c) = <<Exit, c \div 10, c % 10, Ok>>
         /\ c \in 100..999 =>
              KeysFor(c) = <<Exit, c \div 100, (c \div 10) % 10, c % 10, Ok>>
<1>1. CASE c < 10
  <2>1. Digits(c) = <<c>>
    BY <1>1, DigitsOf
  <2>2. <<Exit>> \o <<c>> \o <<Ok>> = <<Exit, c, Ok>>
    <3>1. c \in Int
      OBVIOUS
    <3> QED BY <3>1, Wrapped1, Zenon
  <2>3. KeysFor(c) = <<Exit, c, Ok>>
    BY <2>1, <2>2 DEF KeysFor
  <2> QED BY <1>1, <2>3 DEF Exit, Ok
<1>2. CASE c \in 10..99
  <2>1. Digits(c) = <<c \div 10, c % 10>>
    BY <1>2, DigitsOf
  <2>2. KeysFor(c) = <<Exit, c \div 10, c % 10, Ok>>
    <3>1. c \div 10 \in Int /\ c % 10 \in Int
      OBVIOUS
    <3> QED BY <2>1, <3>1, Wrapped2, Zenon DEF KeysFor
  <2> QED BY <1>2, <2>2 DEF Exit, Ok
<1>3. CASE c \in 100..999
  <2>1. Digits(c) = <<c \div 100, (c \div 10) % 10, c % 10>>
    BY <1>3, DigitsOf
  <2>2. KeysFor(c) = <<Exit, c \div 100, (c \div 10) % 10, c % 10, Ok>>
    <3>1. c \div 100 \in Int /\ (c \div 10) % 10 \in Int /\ c % 10 \in Int
      OBVIOUS
    <3> QED BY <2>1, <3>1, Wrapped3, ZenonT(30) DEF KeysFor
  <2> QED BY <1>3, <2>2 DEF Exit, Ok
<1> QED BY <1>1, <1>2, <1>3

-----------------------------------------------------------------------------
(* The box shows the channel asked for                                        *)

\* What main's thread has left to send when a number of up to three digits is
\* sent to a box it has to itself, and what the box has been given by then.
Sending(left, given) ==
  \/ left = KeysFor(channel)
  \/ left = <<Ok>> /\ given = channel
  \/ /\ left = <<channel % 10, Ok>>
     /\ given = IF channel < 10 THEN Nothing ELSE channel \div 10
  \/ /\ channel \in 10..999
     /\ left = <<(channel \div 10) % 10, channel % 10, Ok>>
     /\ given = IF channel < 100 THEN Nothing ELSE channel \div 100
  \/ /\ channel \in 100..999
     /\ left = <<channel \div 100, (channel \div 10) % 10, channel % 10, Ok>>
     /\ given = Nothing

KeysType ==
  /\ channel \in Nat /\ saved \in Nat
  /\ DOMAIN keys = Threads
  /\ cards \in Seq([W!ChannelChangeCard -> Nat])

\* While nothing has disturbed the last change its number is short enough, at
\* most one thread is at work, and that has sent the box what it should have.
Undisturbed ==
  undisturbed =>
    /\ channel < 1000
    /\ \A t \in Threads : keys[t] # Idle =>
         /\ Sending(keys[t], entered)
         /\ \A u \in Threads \ {t} : keys[u] = Idle

\* What main has read is a document of a client's, or nothing.
FromClient ==
  received = W!Refused \/ \E d \in Documents \cup Proper : received = W!Parse(d)

KeysInv == KeysType /\ Undisturbed /\ TunedAsAsked /\ FromClient

\* A key on its way to the box leaves the rest of the keys to be sent.
LEMMA KeySent ==
  ASSUME channel \in Nat, channel < 1000, NEW k, Sending(k, entered), Press(Head(k))
  PROVE  /\ Tail(k) # Idle => (Sending(Tail(k), entered'))
         /\ Tail(k) = Idle => tuned' = channel
<1> DEFINE Sent == /\ Tail(k) # Idle => Sending(Tail(k), entered')
                   /\ Tail(k) = Idle => tuned' = channel
<1> SUFFICES Sent
  OBVIOUS
<1>1. CASE k = <<Ok>> /\ entered = channel
  BY <1>1 DEF Press, Ok, Exit, Nothing, Idle
<1>2. CASE /\ k = <<channel % 10, Ok>>
           /\ entered = IF channel < 10 THEN Nothing ELSE channel \div 10
  <2>1. entered' = channel
    BY <1>2 DEF Press, Ok, Exit, Nothing, Idle
  <2>2. Tail(k) = <<Ok>> /\ Tail(k) # Idle
    BY <1>2 DEF Ok, Idle
  <2> QED BY <2>1, <2>2 DEF Sending
<1>3. CASE /\ channel \in 10..999
           /\ k = <<(channel \div 10) % 10, channel % 10, Ok>>
           /\ entered = IF channel < 100 THEN Nothing ELSE channel \div 100
  <2>1. entered' = channel \div 10
    BY <1>3 DEF Press, Ok, Exit, Nothing, Idle
  <2>2. Tail(k) = <<channel % 10, Ok>> /\ Tail(k) # Idle
    BY <1>3 DEF Ok, Idle
  <2> QED BY <1>3, <2>1, <2>2 DEF Sending
<1>4. CASE /\ channel \in 100..999
           /\ k = <<channel \div 100, (channel \div 10) % 10, channel % 10, Ok>>
           /\ entered = Nothing
  <2>1. entered' = channel \div 100
    BY <1>4 DEF Press, Ok, Exit, Nothing, Idle
  <2>2. Tail(k) = <<(channel \div 10) % 10, channel % 10, Ok>> /\ Tail(k) # Idle
    BY <1>4 DEF Ok, Idle
  <2> QED BY <1>4, <2>1, <2>2 DEF Sending
<1>5. CASE k = KeysFor(channel)
  <2>1. CASE channel < 10
    <3>1. k = <<Exit, channel, Ok>>
      BY <1>5, <2>1, KeysOf
    <3>2. entered' = Nothing
      BY <3>1 DEF Press, Exit, Ok
    <3>3. Tail(k) = <<channel, Ok>> /\ channel = channel % 10 /\ Tail(k) # Idle
      BY <2>1, <3>1 DEF Ok, Exit, Idle
    <3> QED BY <2>1, <3>2, <3>3 DEF Sending
  <2>2. CASE channel \in 10..99
    <3>1. k = <<Exit, channel \div 10, channel % 10, Ok>>
      BY <1>5, <2>2, KeysOf
    <3>2. entered' = Nothing
      BY <3>1 DEF Press, Exit, Ok
    <3>3. /\ Tail(k) = <<channel \div 10, channel % 10, Ok>> /\ Tail(k) # Idle
          /\ channel \div 10 = (channel \div 10) % 10
      BY <2>2, <3>1 DEF Ok, Exit, Idle
    <3>4. Tail(k) = <<(channel \div 10) % 10, channel % 10, Ok>>
      BY <3>3
    <3> QED BY <2>2, <3>2, <3>3, <3>4 DEF Sending
  <2>3. CASE channel \in 100..999
    <3>1. k = <<Exit, channel \div 100, (channel \div 10) % 10, channel % 10, Ok>>
      BY <1>5, <2>3, KeysOf
    <3>2. entered' = Nothing
      BY <3>1 DEF Press, Exit, Ok
    <3>3. /\ Tail(k) = <<channel \div 100, (channel \div 10) % 10, channel % 10, Ok>>
          /\ Tail(k) # Idle
      BY <2>3, <3>1 DEF Ok, Exit, Idle
    <3>4. Sending(Tail(k), entered')
      BY <2>3, <3>2, <3>3, SMTT(30) DEF Sending
    <3> QED BY <3>3, <3>4
  <2> QED BY <2>1, <2>2, <2>3
<1> HIDE DEF Sent
<1> QED BY <1>1, <1>2, <1>3, <1>4, <1>5, SMTT(30) DEF Sending

-----------------------------------------------------------------------------
(* Each step                                                                  *)

LEMMA KeysInit == Init => KeysInv
<1> SUFFICES ASSUME Init PROVE KeysInv
  OBVIOUS
<1>1. channel = 0 /\ saved = 0 /\ cards = <<>> /\ keys = Begins(TRUE) /\ received = W!Refused
  BY DEF Init, KeyInit
<1>2. KeysType
  BY <1>1 DEF KeysType, Begins
<1>3. ASSUME NEW t \in Threads
      PROVE  keys[t] = IF t = (CHOOSE first \in Threads : TRUE) THEN KeysFor(0) ELSE Idle
  BY <1>1 DEF Begins
<1>4. Undisturbed
  <2>1. ASSUME NEW t \in Threads, keys[t] # Idle
        PROVE  Sending(keys[t], entered)
    BY <1>1, <1>3, <2>1 DEF Sending
  <2>2. ASSUME NEW t \in Threads, keys[t] # Idle, NEW u \in Threads \ {t}
        PROVE  keys[u] = Idle
    BY <1>3, <2>2
  <2>3. channel < 1000
    BY <1>1
  <2> QED BY <2>1, <2>2, <2>3 DEF Undisturbed
<1>5. TunedAsAsked
  <2>1. PICK t \in Threads : t = CHOOSE first \in Threads : TRUE
    BY KeyBounds
  <2>2. KeysFor(0) # Idle
    BY KeysOf DEF Idle
  <2>3. keys[t] # Idle
    BY <1>3, <2>1, <2>2
  <2> QED BY <2>3 DEF TunedAsAsked, Alone
<1>6. FromClient
  BY <1>1 DEF FromClient
<1> QED BY <1>2, <1>4, <1>5, <1>6 DEF KeysInv

\* Steps that leave the keys alone.
LEMMA KeysUnchanged ==
  ASSUME KeysInv, UNCHANGED keyVars, cards' \in Seq([W!ChannelChangeCard -> Nat])
  PROVE  (KeysType /\ Undisturbed /\ TunedAsAsked)'
<1>1. UNCHANGED <<channel, saved, keys, entered, tuned, undisturbed>>
  BY DEF keyVars
<1>2. KeysType'
  BY <1>1 DEF KeysInv, KeysType
<1>3. Undisturbed'
  <2>1. \A k : Sending(k, entered) <=> (Sending(k, entered))'
    BY <1>1 DEF Sending
  <2> QED BY <1>1, <2>1 DEF KeysInv, Undisturbed
<1>4. TunedAsAsked'
  BY <1>1 DEF KeysInv, TunedAsAsked, Alone
<1> QED BY <1>2, <1>3, <1>4

LEMMA KeyStepKeeps ==
  ASSUME KeysInv, KeyStep, UNCHANGED cards
  PROVE  (KeysType /\ Undisturbed /\ TunedAsAsked)'
<1> USE DEF KeysInv
<1>1. ASSUME NEW t \in Threads, SendKey(t)
      PROVE  (KeysType /\ Undisturbed /\ TunedAsAsked)'
  <2>1. /\ UNCHANGED <<channel, saved, undisturbed>> /\ keys[t] # Idle
        /\ keys' = [keys EXCEPT ![t] = Tail(@)]
    BY <1>1 DEF SendKey
  <2>2. KeysType'
    BY <2>1 DEF KeysType
  <2>3. CASE ~undisturbed
    BY <2>1, <2>2, <2>3 DEF Undisturbed, TunedAsAsked
  <2>4. CASE undisturbed
    <3>1. /\ channel \in Nat /\ channel < 1000 /\ Sending(keys[t], entered)
          /\ \A u \in Threads \ {t} : keys[u] = Idle
      BY <2>1, <2>4 DEF Undisturbed, KeysType
    <3>2. Press(Head(keys[t]))
      BY <1>1 DEF SendKey
    <3>3. /\ Tail(keys[t]) # Idle => (Sending(Tail(keys[t]), entered'))
          /\ Tail(keys[t]) = Idle => tuned' = channel
      BY <3>1, <3>2, KeySent
    <3>4. /\ keys'[t] = Tail(keys[t])
          /\ \A u \in Threads \ {t} : keys'[u] = Idle
      BY <2>1, <3>1 DEF KeysType
    <3>5. \A k : Sending(k, entered') <=> Sending(k, entered)'
      BY <2>1 DEF Sending
    <3>6. Undisturbed'
      BY <2>1, <3>1, <3>3, <3>4, <3>5 DEF Undisturbed
    <3>7. TunedAsAsked'
      BY <2>1, <3>3, <3>4 DEF TunedAsAsked, Alone
    <3> QED BY <2>2, <3>6, <3>7
  <2> QED BY <2>3, <2>4
<1>2. ASSUME NEW t \in Threads, SendKeyFails(t)
      PROVE  (KeysType /\ Undisturbed /\ TunedAsAsked)'
  BY <1>2 DEF SendKeyFails, KeysType, Undisturbed, TunedAsAsked
<1> QED BY <1>1, <1>2 DEF KeyStep

LEMMA ChangeKeeps ==
  ASSUME KeysInv, cards # <<>>, NEW c \in Nat, Change(c) \/ NoChange(c), cards' = Tail(cards)
  PROVE  (KeysType /\ Undisturbed /\ TunedAsAsked)'
<1> USE DEF KeysInv
<1>1. cards' \in Seq([W!ChannelChangeCard -> Nat])
  BY DEF KeysType
<1>2. CASE NoChange(c)
  BY <1>1, <1>2 DEF NoChange, KeysType, Undisturbed, TunedAsAsked, Alone, Sending
<1>3. CASE Change(c)
  <2>1. channel' = c /\ saved' = saved /\ UNCHANGED <<entered, tuned>>
    BY <1>3 DEF Change
  <2>2. CASE undisturbed' = FALSE /\ UNCHANGED keys
    BY <1>1, <2>1, <2>2 DEF KeysType, Undisturbed, TunedAsAsked
  <2>3. CASE /\ \E t \in Threads : keys[t] = Idle /\ keys' = [keys EXCEPT ![t] = KeysFor(c)]
             /\ undisturbed' = (Alone /\ c < 1000)
    <3>1. PICK t \in Threads : keys[t] = Idle /\ keys' = [keys EXCEPT ![t] = KeysFor(c)]
      BY <2>3
    <3>2. keys'[t] = KeysFor(c) /\ \A u \in Threads \ {t} : keys'[u] = keys[u]
      BY <3>1 DEF KeysType
    <3>3. KeysType'
      BY <1>1, <2>1, <3>1 DEF KeysType
    <3>4. Undisturbed'
      <4>1. SUFFICES ASSUME undisturbed' PROVE Undisturbed'
        BY DEF Undisturbed
      <4>2. c < 1000 /\ \A u \in Threads \ {t} : keys'[u] = Idle
        BY <2>3, <3>2, <4>1 DEF Alone
      <4>3. Sending(keys[t], entered)'
        BY <2>1, <3>2 DEF Sending
      <4> QED BY <2>1, <3>2, <4>2, <4>3 DEF Undisturbed
    <3>5. TunedAsAsked'
      <4>1. c < 1000 => KeysFor(c) # Idle
        BY KeysOf DEF Idle
      <4> QED BY <2>3, <3>2, <4>1 DEF TunedAsAsked, Alone
    <3> QED BY <3>3, <3>4, <3>5
  <2> QED BY <1>3, <2>2, <2>3 DEF Change
<1> QED BY <1>2, <1>3

LEMMA RestartKeeps ==
  ASSUME KeysInv, KeysRestart, cards' = <<>>
  PROVE  (KeysType /\ Undisturbed /\ TunedAsAsked)'
<1> USE DEF KeysInv
<1>1. channel' = saved /\ saved' = saved /\ saved \in Nat
  BY DEF KeysRestart, KeysType
<1>2. CASE keys' = Begins(FALSE) /\ undisturbed' = FALSE
  BY <1>1, <1>2 DEF Begins, KeysType, Undisturbed, TunedAsAsked
<1>3. CASE keys' = Begins(TRUE) /\ undisturbed' = (saved < 1000)
  <2>1. KeysType'
    BY <1>1, <1>3 DEF Begins, KeysType
  <2>2. Undisturbed'
    <3> SUFFICES ASSUME undisturbed'
                 PROVE  /\ channel' < 1000
                        /\ \A t \in Threads : keys'[t] # Idle =>
                             /\ Sending(keys[t], entered)'
                             /\ \A u \in Threads \ {t} : keys'[u] = Idle
      BY Zenon DEF Undisturbed
    <3>1. ASSUME NEW t \in Threads
          PROVE  keys'[t] = IF t = (CHOOSE first \in Threads : TRUE) THEN KeysFor(channel') ELSE Idle
      BY <1>1, <1>3 DEF Begins
    <3>2. ASSUME NEW t \in Threads, keys'[t] # Idle
          PROVE  /\ Sending(keys[t], entered)'
                 /\ \A u \in Threads \ {t} : keys'[u] = Idle
      <4>1. t = (CHOOSE first \in Threads : TRUE) /\ keys'[t] = KeysFor(channel')
        BY <3>1, <3>2
      <4>2. \A u \in Threads \ {t} : keys'[u] = Idle
        BY <3>1, <4>1
      <4>3. Sending(keys[t], entered)'
        BY <4>1 DEF Sending
      <4> QED BY <4>2, <4>3
    <3>3. channel' < 1000
      BY <1>1, <1>3
    <3> QED BY <3>2, <3>3
  <2>3. TunedAsAsked'
    <3>1. PICK t \in Threads : t = CHOOSE first \in Threads : TRUE
      BY KeyBounds
    <3>2. keys'[t] = KeysFor(saved) /\ saved < 1000 => KeysFor(saved) # <<>>
      BY <1>1, <1>3, <3>1, KeysOf DEF Begins
    <3>3. keys'[t] = KeysFor(saved)
      BY <1>3, <3>1 DEF Begins
    <3> QED BY <1>3, <3>2, <3>3 DEF TunedAsAsked, Alone, Idle
  <2> QED BY <2>1, <2>2, <2>3
<1> QED BY <1>2, <1>3 DEF KeysRestart

-----------------------------------------------------------------------------
(* The specification                                                          *)

\* What main reads is of a client's document, also when it is none any more.
LEMMA ReadKeeps ==
  ASSUME FromClient, Next
  PROVE  FromClient'
<1>1. CASE ClientSends
  BY <1>1 DEF ClientSends, FromClient
<1>2. CASE Carries
  BY <1>2 DEF Carries, Drop, AcknowledgeOnly, Ignore, StreamCommand, ResetCommand,
              TakeSchedule, TakeNoSchedule, ChangeChannel, ChangeNext, Changed, TakeUserLoudness,
              Taken, FromClient
<1>3. CASE Tells
  BY <1>3 DEF Tells, TellSchedule, TellChannels, TellPlaybackList, TellLogList,
              TellUserLoudness, CannotTell, CannotList, Taken, FromClient
<1>4. CASE EntryBegins
  BY <1>4 DEF EntryBegins, FromClient
<1>5. CASE Kill
  BY <1>5 DEF Kill, FromClient
<1>6. CASE Rest
  BY <1>6 DEF Rest, FromClient
<1> QED BY <1>1, <1>2, <1>3, <1>4, <1>5, <1>6 DEF Next

LEMMA KeysKept ==
  ASSUME KeysInv, Next
  PROVE  (KeysType /\ Undisturbed /\ TunedAsAsked)'
<1> DEFINE CardsType == Seq([W!ChannelChangeCard -> Nat])
<1>1. cards \in CardsType
  BY DEF KeysInv, KeysType
<1>2. CASE UNCHANGED <<keyVars, cards>>
  BY <1>1, <1>2, KeysUnchanged
<1>3. CASE ChangeChannel
  <2>1. received.type = "channel_change" /\ UNCHANGED keyVars
    BY <1>3 DEF ChangeChannel, Takes
  <2>2. PICK d \in Documents \cup Proper : received = W!Parse(d)
    BY <2>1 DEF KeysInv, FromClient, W!Refused
  <2>3. received.items \in Cards
    BY <2>1, <2>2, DocumentsHold
  <2>4. cards' = [i \in DOMAIN received.items |-> received.items[i].of]
    BY <1>3 DEF ChangeChannel
  <2>5. Len(received.items) \in Nat /\ DOMAIN received.items = 1..Len(received.items)
    BY <2>3 DEF Cards
  <2>6. ASSUME NEW i \in DOMAIN received.items
        PROVE  received.items[i].of \in [W!ChannelChangeCard -> Nat]
    <3>1. received.items[i] \in [of : [W!ChannelChangeCard -> Nat], sections : {<<>>}]
      BY <2>3, <2>5, ElementOfSeq DEF Cards
    <3> QED BY <3>1
  <2>7. cards' \in CardsType
    BY <2>4, <2>5, <2>6
  <2> QED BY <2>1, <2>7, KeysUnchanged
<1>4. CASE EntryBegins
  <2>1. UNCHANGED keyVars
    BY <1>4 DEF EntryBegins
  <2>2. PICK c \in Nat : cards' = <<[index |-> 0, channel |-> c]>>
    BY <1>4, ChannelsAreNumbers DEF EntryBegins
  <2>3. [index |-> 0, channel |-> c] \in [W!ChannelChangeCard -> Nat]
    BY DEF W!ChannelChangeCard
  <2>4. cards' \in CardsType
    BY <2>2, <2>3
  <2> QED BY <2>1, <2>4, KeysUnchanged
<1>5. CASE ChangeNext
  <2>1. cards # <<>> /\ cards' = Tail(cards)
    BY <1>5 DEF ChangeNext
  <2>2. Head(cards) \in [W!ChannelChangeCard -> Nat] /\ cards' \in CardsType
    BY <1>1, <2>1
  <2>3. Head(cards)["channel"] \in Nat
    BY <2>2 DEF W!ChannelChangeCard
  <2>4. CASE UNCHANGED keyVars
    BY <2>2, <2>4, KeysUnchanged
  <2>5. CASE Change(Head(cards)["channel"]) \/ NoChange(Head(cards)["channel"])
    <3>1. PICK c \in Nat : Change(c) \/ NoChange(c)
      BY <2>3, <2>5
    <3> QED BY <2>1, <3>1, ChangeKeeps
  <2> QED BY <1>5, <2>4, <2>5 DEF ChangeNext
<1>6. CASE Changed
  <2>1. UNCHANGED <<channel, keys, entered, tuned, undisturbed, cards>>
    BY <1>6 DEF Changed, SaveChannel
  <2>2. saved' \in Nat
    BY <1>6 DEF Changed, SaveChannel, KeysInv, KeysType
  <2>3. KeysType'
    BY <2>1, <2>2 DEF KeysInv, KeysType
  <2>4. Undisturbed'
    BY <2>1 DEF KeysInv, Undisturbed, Sending
  <2>5. TunedAsAsked'
    BY <2>1 DEF KeysInv, TunedAsAsked, Alone
  <2> QED BY <2>3, <2>4, <2>5
<1>7. CASE Kill
  <2>1. KeysRestart /\ cards' = <<>>
    BY <1>7 DEF Kill
  <2> QED BY <2>1, RestartKeeps
<1>8. CASE KeyStep /\ Rest
  <2>1. UNCHANGED cards
    BY <1>8 DEF Rest
  <2> QED BY <1>8, <2>1, KeyStepKeeps
<1>9. CASE Carries
  BY <1>2, <1>3, <1>5, <1>6, <1>9
     DEF Carries, Drop, AcknowledgeOnly, Ignore, StreamCommand, ResetCommand, TakeSchedule,
         TakeNoSchedule, TakeUserLoudness
<1>10. CASE Tells
  BY <1>2, <1>10
     DEF Tells, TellSchedule, TellChannels, TellPlaybackList, TellLogList,
         TellUserLoudness, CannotTell, CannotList
<1>11. CASE ClientSends
  BY <1>2, <1>11 DEF ClientSends
<1>12. CASE UNCHANGED keyVars /\ Rest
  BY <1>2, <1>12 DEF Rest
<1> QED BY <1>4, <1>7, <1>8, <1>9, <1>10, <1>11, <1>12 DEF Next

LEMMA KeysNext ==
  ASSUME KeysInv, [Next]_vars
  PROVE  KeysInv'
<1>1. CASE UNCHANGED vars
  <2>1. UNCHANGED keyVars /\ UNCHANGED cards /\ UNCHANGED received
    BY <1>1 DEF vars
  <2>2. FromClient'
    BY <2>1 DEF KeysInv, FromClient
  <2>3. cards' \in Seq([W!ChannelChangeCard -> Nat])
    BY <2>1 DEF KeysInv, KeysType
  <2> QED BY <2>1, <2>2, <2>3, KeysUnchanged DEF KeysInv
<1>2. CASE Next
  BY <1>2, ReadKeeps, KeysKept DEF KeysInv
<1> QED BY <1>1, <1>2

\* The channel main believes in is the one the box shows, once the keys are sent
\* (irremote_send_keys), whatever documents clients send and whatever threads
\* there are: for the changes that had the box to themselves.
THEOREM Tuned == Spec => []TunedAsAsked
<1>1. KeysInv => TunedAsAsked
  BY DEF KeysInv
<1> QED BY <1>1, KeysInit, KeysNext, PTL DEF Spec

-----------------------------------------------------------------------------
(* User loudness is saved whole                                               *)

\* The files of the message being saved that are of a name; of these, those
\* with sections, those whose recording is in the playback list, and those with
\* a copy of its entry at hand.
Mine(n) == {i \in DOMAIN files : Name(i) = n}
Measured(n) == {i \in Mine(n) : files[i].sections # <<>>}
Found(n) == {i \in Mine(n) : playback_list[RecordName(i)] # None}
Copied(n) == {i \in Mine(n) : list_data[i] # None}

Final(i, S) == i \in S /\ \A j \in S : j <= i
Left(S) == \E i \in S : i >= file

\* Where main is in the saving, and with which file of the message.
Cursor ==
  /\ pc \in {"loop", "change", "sections", "insert", "rows", "copies", "list"}
  /\ files \in Files
  /\ file \in Nat \ {0}
  /\ pc \in {"loop", "change"} <=> files = <<>>
  /\ pc \in {"sections", "insert", "rows", "copies"} => file <= Len(files)
  /\ pc = "list" => file <= Len(files) + 1 /\ list_data \in [DOMAIN files -> Entries \cup {None}]
  /\ pc = "insert" =>
       /\ section \in 1..Len(files[file].sections)
       /\ user_loudness_section[Name(file)] = SubSeq(files[file].sections, 1, section - 1)

Tables ==
  /\ user_loudness \in [Names -> Recordings \cup {None}]
  /\ user_loudness_section \in [Names -> Seq(Sections)]
  /\ playback_list \in [Names \cup Recordings -> Entries \cup {None}]
  /\ faults \in [Fault -> Nat]
  /\ expected \in [Names -> Expectations \cup {None}]
  /\ \A n \in Names : Mine(n) # {} => expected[n] # None

\* What is expected of a name is there but for what is left to do.
RowKept(n) ==
  /\ \A i \in Mine(n) : Final(i, Mine(n)) => expected[n].record_name = RecordName(i)
  /\ \/ pc \in {"sections", "insert"} /\ Mine(n) # {}
     \/ pc = "rows" /\ Left(Mine(n))
     \/ user_loudness[n] = expected[n].record_name

SectionsKept(n) ==
  /\ \A i \in Mine(n) : Final(i, Measured(n)) => expected[n].sections = files[i].sections
  /\ \/ pc \in {"sections", "insert"} /\ Left(Measured(n))
     \/ user_loudness_section[n] = expected[n].sections

CopyKept(n) ==
  IF pc = "list"
  THEN /\ \A i \in Mine(n) : Final(i, Copied(n)) => expected[n].copy = list_data[i]
       /\ Left(Copied(n)) \/ playback_list[n] = expected[n].copy
  ELSE /\ \A i \in Mine(n) : Final(i, Found(n)) => expected[n].copy = Copy(RecordName(i))
       /\ Found(n) # {} \/ playback_list[n] = expected[n].copy

WholeKept(n) ==
  expected[n] # None /\ expected[n].whole => RowKept(n) /\ SectionsKept(n) /\ CopyKept(n)

\* A name that is listed has its row, and one with a row has its sections.
ListedKept(n) ==
  /\ playback_list[n] # None => user_loudness[n] # None
  /\ user_loudness[n] # None => expected[n] # None
  /\ pc = "rows" /\ (\E i \in Mine(n) : i < file) => user_loudness[n] # None
  /\ pc \in {"copies", "list"} /\ Mine(n) # {} => user_loudness[n] # None
  /\ faults["call"] = 0 /\ Mine(n) # {} => expected[n].whole
  /\ pc \in {"sections", "insert"} /\ Mine(n) # {} /\ expected[n].first => user_loudness[n] = None
  /\ user_loudness[n] # None /\ faults["call"] = 0 /\ expected[n].first =>
       user_loudness_section[n] = expected[n].sections

UserInv ==
  /\ FromClient /\ Cursor /\ Tables
  /\ \A n \in Names : WholeKept(n) /\ ListedKept(n)

-----------------------------------------------------------------------------
(* The last of some places                                                    *)

\* A set of numbers that is not empty has a least one.
LEMMA Least ==
  ASSUME NEW S, S \subseteq Nat, S # {}
  PROVE  \E n \in S : \A m \in S : n <= m
<1>1. PICK x \in S : \A y \in S : ~(<<y, x>> \in OpToRel(<, Nat))
  BY NatLessThanWellFounded, WFMin
<1>2. \A y \in S : ~(y < x)
  BY <1>1 DEF OpToRel
<1> QED BY <1>2

\* Max is the final one of some places of a sequence, and nothing else is.
LEMMA MaxIsFinal ==
  ASSUME NEW l \in Nat, NEW S, S \subseteq 1..l, S # {}
  PROVE  Final(Max(S), S) /\ \A i : Final(i, S) => i = Max(S)
<1> DEFINE Bounded(b) == \A x \in S : x <= b
           B == {b \in Nat : Bounded(b)}
<1>1. PICK b \in B : \A c \in B : b <= c
  <2>1. l \in B
    OBVIOUS
  <2> QED BY <2>1, Least
<1>2. b \in S
  <2> SUFFICES ASSUME b \notin S PROVE FALSE
    OBVIOUS
  <2>1. \A x \in S : x <= b /\ x # b /\ x \in Nat /\ x >= 1
    BY <1>1
  <2>2. b \in Nat /\ b >= 1
    <3>1. PICK x \in S : x \in Nat
      BY <2>1
    <3>2. x <= b /\ x >= 1
      BY <2>1
    <3>3. b \in Nat
      OBVIOUS
    <3> QED BY <3>1, <3>2, <3>3
  <2>3. \A x \in S : x <= b - 1
    BY <2>1, <2>2
  <2>4. b - 1 \in B
    BY <2>2, <2>3
  <2> QED BY <1>1, <2>2, <2>4
<1>3. \A y \in S : b >= y
  BY <1>1
<1>4. Max(S) \in S /\ \A y \in S : Max(S) >= y
  BY <1>2, <1>3 DEF Max
<1>5. Final(Max(S), S)
  BY <1>4 DEF Final
<1>6. ASSUME NEW i, Final(i, S)
      PROVE  i = Max(S)
  <2>1. i \in S /\ Max(S) <= i /\ i <= Max(S)
    BY <1>4, <1>6 DEF Final
  <2>2. \A x \in S : x \in Nat
    OBVIOUS
  <2>3. i \in Nat /\ Max(S) \in Nat
    BY <1>4, <2>1, <2>2
  <2> QED BY <2>1, <2>3
<1> QED BY <1>5, <1>6

-----------------------------------------------------------------------------
(* The files of the message                                                   *)

\* Each file of the message names a name and a recording.
LEMMA FileOf ==
  ASSUME Cursor, NEW i \in DOMAIN files
  PROVE  /\ i \in 1..Len(files) /\ Name(i) \in Names /\ RecordName(i) \in Recordings
         /\ files[i].sections \in Seq(Sections)
<1>1. files \in Files /\ Len(files) \in Nat /\ DOMAIN files = 1..Len(files)
  BY DEF Cursor, Files
<1>2. files[i] \in [of : [name : Names, record_name : Recordings], sections : Seq(Sections)]
  BY <1>1, ElementOfSeq DEF Files
<1> QED BY <1>1, <1>2 DEF Name, RecordName

\* A name that no file of the message has is kept when the tables say what is
\* expected of it.
LEMMA NotMine ==
  ASSUME NEW n, Mine(n) = {}
  PROVE  /\ RowKept(n) <=> user_loudness[n] = expected[n].record_name
         /\ SectionsKept(n) <=> user_loudness_section[n] = expected[n].sections
         /\ CopyKept(n) <=> playback_list[n] = expected[n].copy
BY DEF RowKept, SectionsKept, CopyKept, Measured, Found, Copied, Left

\* There is no user loudness at first.
LEMMA UserInitial == Init => UserInv
<1> SUFFICES ASSUME Init PROVE UserInv
  OBVIOUS
<1>1. /\ pc = "loop" /\ files = <<>> /\ file = 1
      /\ user_loudness = [n \in Names |-> None]
      /\ user_loudness_section = [n \in Names |-> <<>>]
      /\ playback_list = [n \in Names \cup Recordings |->
                            IF n \in Recorded THEN Entry(n, FALSE, 0) ELSE None]
      /\ faults = [f \in Fault |-> 0]
      /\ expected = [n \in Names |-> None] /\ received = W!Refused
  BY DEF Init, UserInit
<1>2. FromClient
  BY <1>1 DEF FromClient
<1>3. Cursor
  <2>1. files \in Files
    BY <1>1 DEF Files
  <2> QED BY <1>1, <2>1 DEF Cursor
<1>4. \A n : Mine(n) = {}
  BY <1>1 DEF Mine
<1>5. Tables
  <2>1. \A r \in Recorded : Entry(r, FALSE, 0) \in Entries
    BY RecordedAreRecordings DEF Entry, Entries
  <2>2. playback_list \in [Names \cup Recordings -> Entries \cup {None}]
    BY <1>1, <2>1
  <2>3. \A n \in Names : <<>> \in Seq(Sections)
    OBVIOUS
  <2>4. user_loudness_section \in [Names -> Seq(Sections)]
    BY <1>1, <2>3
  <2> QED BY <1>1, <1>4, <2>2, <2>4 DEF Tables
<1>6. ASSUME NEW n \in Names
      PROVE  WholeKept(n) /\ ListedKept(n)
  <2>1. expected[n] = None /\ user_loudness[n] = None
    BY <1>1
  <2>2. playback_list[n] = None
    BY <1>1, Distinct, RecordedAreRecordings
  <2> QED BY <1>1, <1>4, <2>1, <2>2 DEF WholeKept, ListedKept
<1> QED BY <1>2, <1>3, <1>5, <1>6 DEF UserInv

-----------------------------------------------------------------------------
(* A statement that fails                                                     *)

\* What fails is not whole: what is left is as it was for the other names.
LEMMA FailsKeeps ==
  ASSUME UserInv, NEW f \in Fault, Fails(f), UNCHANGED tables,
         \/ files' = <<>> /\ pc' = "loop"
         \/ /\ f = "call" /\ files' = files
            /\ pc \in {"sections", "insert"} /\ pc' \in {"sections", "rows"}
            /\ pc' = "rows" => file' = 1
         \/ f = "call" /\ files' = files /\ pc = "copies" /\ pc' = "list"
  PROVE  Tables' /\ \A n \in Names : WholeKept(n)' /\ ListedKept(n)'
<1> USE DEF UserInv
<1>1. /\ user_loudness' = user_loudness /\ user_loudness_section' = user_loudness_section
      /\ playback_list' = playback_list
  BY DEF tables
<1>2. ASSUME NEW n \in Names
      PROVE  expected'[n] = IF Mine(n) # {} THEN [expected[n] EXCEPT !.whole = FALSE]
                            ELSE expected[n]
  BY DEF Fails, Mine, Name
<1>3. /\ faults' \in [Fault -> Nat] /\ faults'["call"] >= faults["call"]
      /\ f = "call" => faults'["call"] > 0
  BY DEF Fails, Tables, Fault
<1>4. ASSUME NEW n
      PROVE  Mine(n)' = Mine(n) \/ (Mine(n)' = {} /\ files' = <<>> /\ pc' = "loop")
  BY DEF Mine, Name
<1>5. ASSUME NEW n \in Names
      PROVE  /\ expected[n] = None => Mine(n) = {}
             /\ expected[n] # None => expected[n] \in Expectations
             /\ expected'[n] \in Expectations \cup {None}
             /\ expected'[n] = None <=> expected[n] = None
             /\ expected[n] # None =>
                  /\ expected'[n].sections = expected[n].sections
                  /\ expected'[n].first = expected[n].first
                  /\ Mine(n) # {} => expected'[n].whole = FALSE
  <2>1. expected[n] \in Expectations \cup {None} /\ (Mine(n) # {} => expected[n] # None)
    BY DEF Tables
  <2>2. CASE Mine(n) = {}
    BY <1>2, <2>1, <2>2
  <2>3. CASE Mine(n) # {}
    <3>1. expected[n] \in Expectations /\ expected[n] # None
      BY <2>1, <2>3
    <3>2. expected'[n] = [expected[n] EXCEPT !.whole = FALSE]
      BY <1>2, <2>3
    <3>3. /\ expected'[n] \in Expectations
          /\ expected'[n].sections = expected[n].sections
          /\ expected'[n].first = expected[n].first
          /\ expected'[n].whole = FALSE
      BY <3>1, <3>2 DEF Expectations
    <3> QED BY <2>3, <3>1, <3>3, NoneIsNoRecord
  <2> QED BY <2>2, <2>3
<1>6. Tables'
  <2>1. expected' = [n \in Names |-> expected'[n]]
    BY DEF Fails
  <2>2. expected' \in [Names -> Expectations \cup {None}]
    BY <1>5, <2>1
  <2>3. ASSUME NEW n \in Names, Mine(n)' # {} PROVE expected'[n] # None
    BY <1>4, <1>5, <2>3
  <2> QED BY <1>1, <1>3, <2>2, <2>3 DEF Tables
<1>7. ASSUME NEW n \in Names
      PROVE  WholeKept(n)'
  <2>1. SUFFICES ASSUME expected'[n] # None, expected'[n].whole
                 PROVE  (RowKept(n) /\ SectionsKept(n) /\ CopyKept(n))'
    BY DEF WholeKept
  <2>2. Mine(n) = {} /\ Mine(n)' = {} /\ expected'[n] = expected[n]
    BY <1>2, <1>4, <1>5, <2>1
  <2>3. RowKept(n) /\ SectionsKept(n) /\ CopyKept(n)
    BY <2>1, <2>2 DEF WholeKept
  <2>4. /\ user_loudness[n] = expected[n].record_name
        /\ user_loudness_section[n] = expected[n].sections
        /\ playback_list[n] = expected[n].copy
    BY <2>2, <2>3, NotMine
  <2> QED BY <1>1, <2>2, <2>4 DEF RowKept, SectionsKept, CopyKept, Measured, Found, Copied, Left
<1>8. ASSUME NEW n \in Names
      PROVE  ListedKept(n)'
  <2>1. ListedKept(n)
    OBVIOUS
  <2>2. /\ playback_list'[n] # None => user_loudness'[n] # None
        /\ user_loudness'[n] # None => expected'[n] # None
    BY <1>1, <1>5, <2>1 DEF ListedKept
  <2>3. pc' = "rows" => ~\E i \in Mine(n)' : i < file'
    <3>1. SUFFICES ASSUME pc' = "rows" PROVE \A i \in Mine(n)' : ~(i < 1) /\ file' = 1
      OBVIOUS
    <3>2. DOMAIN files' = 1..Len(files) /\ Len(files) \in Nat
      BY <3>1 DEF Cursor, Files
    <3> QED BY <3>1, <3>2 DEF Mine
  <2>4. pc' \in {"copies", "list"} /\ Mine(n)' # {} => user_loudness'[n] # None
    BY <1>1, <1>4, <2>1 DEF ListedKept
  <2>5. faults'["call"] = 0 /\ Mine(n)' # {} => expected'[n].whole
    <3>1. Mine(n)' # {} => f = "call"
      BY <1>4 DEF Mine
    <3> QED BY <1>3, <3>1
  <2>6. pc' \in {"sections", "insert"} /\ Mine(n)' # {} /\ expected'[n].first => user_loudness'[n] = None
    BY <1>1, <1>4, <1>5, <2>1 DEF ListedKept
  <2>7. user_loudness'[n] # None /\ faults'["call"] = 0 /\ expected'[n].first =>
          user_loudness_section'[n] = expected'[n].sections
    <3>1. faults'["call"] = 0 => faults["call"] = 0
      BY <1>3 DEF Tables, Fault
    <3> QED BY <1>1, <1>5, <2>1, <2>2, <3>1 DEF ListedKept
  <2> QED BY <2>2, <2>3, <2>4, <2>5, <2>6, <2>7 DEF ListedKept
<1> QED BY <1>6, <1>7, <1>8

-----------------------------------------------------------------------------
(* The sections                                                               *)

\* While sections are saved the rows and the copies stay.
LEMMA SectionsOn ==
  ASSUME UserInv, pc \in {"sections", "insert"}, pc' \in {"sections", "insert", "rows"},
         pc' = "rows" => file' = 1,
         UNCHANGED <<files, user_loudness, playback_list, faults, expected>>,
         user_loudness_section' \in [Names -> Seq(Sections)],
         \A n \in Names : Mine(n) = {} => user_loudness_section'[n] = user_loudness_section[n],
         NEW n \in Names,
         expected[n] # None /\ expected[n].whole => SectionsKept(n)'
  PROVE  WholeKept(n)' /\ ListedKept(n)'
<1> USE DEF UserInv
<1>1. Mine(n)' = Mine(n) /\ Found(n)' = Found(n)
  BY DEF Mine, Name, Found, RecordName
<1>2. DOMAIN files = 1..Len(files) /\ Len(files) \in Nat
  BY DEF Cursor, Files
<1>3. \A i \in Mine(n) : i \in Nat /\ i >= 1
  BY <1>2 DEF Mine
<1>4. WholeKept(n)'
  <2>1. SUFFICES ASSUME expected[n] # None, expected[n].whole
                 PROVE  (RowKept(n) /\ CopyKept(n))'
    BY DEF WholeKept
  <2>2. RowKept(n) /\ CopyKept(n)
    BY <2>1 DEF WholeKept
  <2>3. RowKept(n)'
    <3>1. CASE Mine(n) = {}
      BY <1>1, <2>2, <3>1 DEF RowKept, Left
    <3>2. CASE Mine(n) # {}
      <4>1. pc' = "rows" => Left(Mine(n))'
        BY <1>1, <1>3, <3>2 DEF Left
      <4>2. \A i \in Mine(n) : Final(i, Mine(n)) => expected[n].record_name = RecordName(i)
        BY <2>2 DEF RowKept
      <4> QED BY <1>1, <3>2, <4>1, <4>2 DEF RowKept, RecordName
    <3> QED BY <3>1, <3>2
  <2>4. CopyKept(n)'
    BY <1>1, <2>2 DEF CopyKept, Copy, RecordName
  <2> QED BY <2>3, <2>4
<1>5. ListedKept(n)'
  <2>1. ListedKept(n)
    OBVIOUS
  <2>2. pc' = "rows" => ~\E i \in Mine(n)' : i < file'
    BY <1>1, <1>3
  <2>3. /\ pc' \notin {"copies", "list"}
        /\ pc \in {"sections", "insert"}
    OBVIOUS
  <2>4. user_loudness'[n] # None /\ faults'["call"] = 0 /\ expected'[n].first =>
          user_loudness_section'[n] = expected'[n].sections
    BY <2>1 DEF ListedKept
  <2> QED BY <1>1, <2>1, <2>2, <2>3, <2>4 DEF ListedKept
<1> QED BY <1>4, <1>5

\* The first k elements of a sequence and the next.
LEMMA OneMore ==
  ASSUME NEW T, NEW s \in Seq(T), NEW k \in 1..Len(s)
  PROVE  Append(SubSeq(s, 1, k - 1), s[k]) = SubSeq(s, 1, k)
<1> DEFINE a == Append(SubSeq(s, 1, k - 1), s[k])
           b == SubSeq(s, 1, k)
<1>1. /\ SubSeq(s, 1, k - 1) \in Seq(T) /\ Len(SubSeq(s, 1, k - 1)) = k - 1
      /\ \A i \in 1..(k - 1) : SubSeq(s, 1, k - 1)[i] = s[i]
  OBVIOUS
<1>2. s[k] \in T
  BY ElementOfSeq
<1>3. /\ a \in Seq(T) /\ Len(a) = k
      /\ \A i \in 1..k : a[i] = s[i]
  BY <1>1, <1>2
<1>4. /\ b \in Seq(T) /\ Len(b) = k
      /\ \A i \in 1..k : b[i] = s[i]
  OBVIOUS
<1> HIDE DEF a, b
<1>5. \A i \in 1..Len(a) : a[i] = b[i]
  BY <1>3, <1>4
<1>6. a = b
  BY <1>3, <1>4, <1>5, SeqEqual
<1> QED BY <1>6 DEF a, b

\* All the elements of a sequence are the sequence.
LEMMA WholeSeq ==
  ASSUME NEW T, NEW s \in Seq(T)
  PROVE  SubSeq(s, 1, Len(s)) = s
BY SeqEqual

\* Nothing is left to do for the sections of a name where main is.
LEMMA SectionsNext ==
  ASSUME UserInv, ToNextFile, files' = files, expected' = expected,
         pc \in {"sections", "insert"}, NEW n \in Names, SectionsKept(n),
         user_loudness_section'[n] = user_loudness_section[n], file \notin Measured(n)
  PROVE  SectionsKept(n)'
<1> USE DEF UserInv
<1>1. Measured(n)' = Measured(n) /\ Mine(n)' = Mine(n) /\ Measured(n) \subseteq DOMAIN files
  BY DEF Measured, Mine, Name
<1>2. IF file < Len(files) THEN file' = file + 1 ELSE pc' = "rows" /\ file' = 1
  BY DEF ToNextFile
<1>3. DOMAIN files = 1..Len(files) /\ Len(files) \in Nat /\ file \in 1..Len(files)
  BY DEF Cursor, Files
<1>4. \A i \in Measured(n) : i \in 1..Len(files)
  BY <1>1, <1>3
<1>5. \/ pc' = "sections" /\ Left(Measured(n))'
      \/ \A i \in Measured(n) : i <= file
  BY <1>1, <1>2, <1>3, <1>4 DEF ToNextFile, Left
<1>6. (\A i \in Measured(n) : i <= file) => ~Left(Measured(n))
  BY <1>3, <1>4 DEF Left
<1>7. (\A i \in Measured(n) : i <= file) => user_loudness_section[n] = expected[n].sections
  BY <1>6 DEF SectionsKept
<1>8. \A i \in Mine(n) : Final(i, Measured(n)) => expected[n].sections = files[i].sections
  BY DEF SectionsKept
<1>9. user_loudness_section[n] = expected[n].sections \/ (pc' = "sections" /\ Left(Measured(n))')
  BY <1>5, <1>7
<1> QED BY <1>1, <1>8, <1>9 DEF SectionsKept

\* A file without sections leaves the ones there are.
LEMMA NoSectionsKeeps ==
  ASSUME UserInv, NoSections
  PROVE  (Cursor /\ Tables)' /\ \A n \in Names : WholeKept(n)' /\ ListedKept(n)'
<1> USE DEF UserInv
<1>1. /\ pc = "sections" /\ files[file].sections = <<>> /\ ToNextFile
      /\ files' = files /\ section' = section /\ list_data' = list_data
      /\ user_loudness' = user_loudness /\ user_loudness_section' = user_loudness_section
      /\ playback_list' = playback_list /\ faults' = faults /\ expected' = expected
  BY DEF NoSections, tables
<1>2. Len(files) \in Nat /\ file \in 1..Len(files)
  BY <1>1 DEF Cursor, Files
<1>3. Cursor'
  BY <1>1, <1>2 DEF Cursor, ToNextFile
<1>4. Tables'
  BY <1>1 DEF Tables, Mine, Name
<1>5. ASSUME NEW n \in Names
      PROVE  WholeKept(n)' /\ ListedKept(n)'
  <2>1. file \notin Measured(n)
    BY <1>1 DEF Measured
  <2>2. expected[n] # None /\ expected[n].whole => SectionsKept(n)'
    BY <1>1, <2>1, SectionsNext DEF WholeKept
  <2>3. user_loudness_section' \in [Names -> Seq(Sections)]
    BY <1>1 DEF Tables
  <2>4. pc' \in {"sections", "rows"} /\ (pc' = "rows" => file' = 1)
    BY <1>1 DEF ToNextFile
  <2> QED BY <1>1, <2>2, <2>3, <2>4, SectionsOn
<1> QED BY <1>3, <1>4, <1>5

\* The sections of a file's name are deleted before the new ones come.
LEMMA DeleteSectionsKeeps ==
  ASSUME UserInv, DeleteSections
  PROVE  (Cursor /\ Tables)' /\ \A n \in Names : WholeKept(n)' /\ ListedKept(n)'
<1> USE DEF UserInv
<1>1. /\ pc = "sections" /\ pc' = "insert" /\ files[file].sections # <<>>
      /\ files' = files /\ file' = file /\ section' = 1 /\ list_data' = list_data
      /\ user_loudness_section' = [user_loudness_section EXCEPT ![Name(file)] = <<>>]
      /\ user_loudness' = user_loudness
      /\ playback_list' = playback_list /\ faults' = faults /\ expected' = expected
  BY DEF DeleteSections
<1>2. Len(files) \in Nat /\ file \in DOMAIN files
  BY <1>1 DEF Cursor, Files
<1>3. /\ Name(file) \in Names /\ Name(file)' = Name(file) /\ files[file].sections \in Seq(Sections)
      /\ file \in Mine(Name(file)) /\ file \in Measured(Name(file))
  BY <1>1, <1>2, FileOf DEF Name, Mine, Measured
<1>4. user_loudness_section' \in [Names -> Seq(Sections)] /\ user_loudness_section'[Name(file)] = <<>>
  <2>1. <<>> \in Seq(Sections)
    OBVIOUS
  <2> QED BY <1>1, <1>3, <2>1 DEF Tables
<1>5. Cursor'
  <2>1. 1 \in 1..Len(files[file].sections)
    BY <1>1, <1>3
  <2>2. SubSeq(files[file].sections, 1, 0) = <<>>
    BY <1>3
  <2>3. pc' = "insert" => /\ section' \in 1..Len(files'[file'].sections)
                          /\ user_loudness_section'[Name(file)'] = SubSeq(files'[file'].sections, 1, section' - 1)
    BY <1>1, <1>3, <1>4, <2>1, <2>2
  <2> QED BY <1>1, <2>3 DEF Cursor
<1>6. Tables'
  BY <1>1, <1>4 DEF Tables, Mine, Name
<1>7. ASSUME NEW n \in Names
      PROVE  WholeKept(n)' /\ ListedKept(n)'
  <2>1. Mine(n)' = Mine(n) /\ Measured(n)' = Measured(n)
    BY <1>1 DEF Mine, Measured, Name
  <2>2. expected[n] # None /\ expected[n].whole => SectionsKept(n)'
    <3>1. SUFFICES ASSUME SectionsKept(n) PROVE SectionsKept(n)'
      BY DEF WholeKept
    <3>2. CASE n = Name(file)
      <4>1. Left(Measured(n))'
        <5>1. file >= file
          BY <1>2 DEF Cursor
        <5> QED BY <1>1, <1>3, <2>1, <3>2, <5>1 DEF Left
      <4> QED BY <1>1, <2>1, <3>1, <4>1 DEF SectionsKept
    <3>3. CASE n # Name(file)
      <4>1. user_loudness_section'[n] = user_loudness_section[n]
        BY <1>1, <3>3 DEF Tables
      <4>2. Left(Measured(n))' <=> Left(Measured(n))
        BY <1>1, <2>1 DEF Left
      <4> QED BY <1>1, <2>1, <3>1, <4>1, <4>2 DEF SectionsKept
    <3> QED BY <3>2, <3>3
  <2>3. \A m \in Names : Mine(m) = {} => user_loudness_section'[m] = user_loudness_section[m]
    BY <1>1, <1>3 DEF Tables
  <2> QED BY <1>1, <1>4, <2>2, <2>3, SectionsOn
<1> QED BY <1>5, <1>6, <1>7

\* Sections come in their order, and with the last the name's are all there.
LEMMA InsertSectionKeeps ==
  ASSUME UserInv, InsertSection
  PROVE  (Cursor /\ Tables)' /\ \A n \in Names : WholeKept(n)' /\ ListedKept(n)'
<1> USE DEF UserInv
<1> DEFINE sections == files[file].sections
           done == SubSeq(sections, 1, section)
<1>1. /\ pc = "insert" /\ files' = files /\ list_data' = list_data
      /\ user_loudness_section' =
           [user_loudness_section EXCEPT ![Name(file)] = Append(@, sections[section])]
      /\ user_loudness' = user_loudness
      /\ playback_list' = playback_list /\ faults' = faults /\ expected' = expected
      /\ IF section < Len(sections) THEN section' = section + 1 /\ pc' = pc /\ file' = file
         ELSE section' = 1 /\ ToNextFile
  BY DEF InsertSection
<1>2. Len(files) \in Nat /\ file \in DOMAIN files /\ file \in 1..Len(files)
  BY <1>1 DEF Cursor, Files
<1>3. /\ Name(file) \in Names /\ Name(file)' = files[file'].of["name"] /\ sections \in Seq(Sections)
      /\ file \in Mine(Name(file)) /\ \A n \in Names : file \in Mine(n) => n = Name(file)
  BY <1>1, <1>2, FileOf DEF Name, Mine
<1>4. /\ section \in 1..Len(sections)
      /\ user_loudness_section[Name(file)] = SubSeq(sections, 1, section - 1)
  BY <1>1 DEF Cursor
<1>5. /\ user_loudness_section'[Name(file)] = done
      /\ done \in Seq(Sections) /\ (section = Len(sections) => done = sections)
      /\ \A n \in Names \ {Name(file)} : user_loudness_section'[n] = user_loudness_section[n]
      /\ DOMAIN user_loudness_section' = Names
  <2>1. Append(SubSeq(sections, 1, section - 1), sections[section]) = done
    BY <1>3, <1>4, OneMore
  <2>2. section = Len(sections) => done = sections
    BY <1>3, WholeSeq
  <2>3. done \in Seq(Sections)
    BY <1>3, <1>4
  <2>4. user_loudness_section'[Name(file)] = done
    BY <1>1, <1>3, <1>4, <2>1 DEF Tables
  <2> QED BY <1>1, <1>3, <2>2, <2>3, <2>4 DEF Tables
<1>6. user_loudness_section' \in [Names -> Seq(Sections)]
  <2>1. user_loudness_section' = [n \in Names |-> user_loudness_section'[n]]
    BY <1>1 DEF Tables
  <2>2. \A n \in Names : user_loudness_section'[n] \in Seq(Sections)
    BY <1>3, <1>5 DEF Tables
  <2> QED BY <2>1, <2>2
<1>7. sections # <<>> /\ Len(sections) \in Nat /\ section \in Nat
  BY <1>3, <1>4
<1> HIDE DEF sections, done
<1>8. Tables'
  BY <1>1, <1>6 DEF Tables, Mine, Name
<1>9. CASE section < Len(sections)
  <2>1. section' = section + 1 /\ pc' = "insert" /\ file' = file
    BY <1>1, <1>9
  <2>2. Cursor'
    <3>1. section + 1 \in 1..Len(sections) /\ (section + 1) - 1 = section
      BY <1>4, <1>7, <1>9
    <3>2. pc' = "insert" =>
            /\ section' \in 1..Len(files'[file'].sections)
            /\ user_loudness_section'[Name(file)'] = SubSeq(files'[file'].sections, 1, section' - 1)
      BY <1>1, <1>3, <1>5, <2>1, <3>1 DEF sections, done, Name
    <3> QED BY <1>1, <2>1, <3>2 DEF Cursor
  <2>3. ASSUME NEW n \in Names
        PROVE  WholeKept(n)' /\ ListedKept(n)'
    <3>1. Mine(n)' = Mine(n) /\ Measured(n)' = Measured(n)
      BY <1>1 DEF Mine, Measured, Name
    <3>2. expected[n] # None /\ expected[n].whole => SectionsKept(n)'
      <4>1. SUFFICES ASSUME SectionsKept(n) PROVE SectionsKept(n)'
        BY DEF WholeKept
      <4>2. CASE n = Name(file)
        <5>1. file \in Measured(n) /\ file >= file
          BY <1>2, <1>3, <1>7, <4>2 DEF Measured, sections
        <5>2. Left(Measured(n))'
          BY <2>1, <3>1, <5>1 DEF Left
        <5> QED BY <1>1, <2>1, <3>1, <4>1, <5>2 DEF SectionsKept
      <4>3. CASE n # Name(file)
        <5>1. Left(Measured(n))' <=> Left(Measured(n))
          BY <2>1, <3>1 DEF Left
        <5> QED BY <1>1, <1>5, <2>1, <3>1, <4>1, <4>3, <5>1 DEF SectionsKept
      <4> QED BY <4>2, <4>3
    <3>3. \A m \in Names : Mine(m) = {} => user_loudness_section'[m] = user_loudness_section[m]
      BY <1>3, <1>5
    <3> QED BY <1>1, <1>6, <2>1, <3>2, <3>3, SectionsOn
  <2> QED BY <1>8, <2>2, <2>3
<1>10. CASE ~(section < Len(sections))
  <2>1. section' = 1 /\ ToNextFile /\ section = Len(sections)
    BY <1>1, <1>4, <1>7, <1>10 DEF sections
  <2>2. pc' \in {"sections", "rows"} /\ (pc' = "rows" => file' = 1)
    BY <2>1 DEF ToNextFile
  <2>3. Cursor'
    BY <1>1, <1>2, <2>1 DEF Cursor, ToNextFile
  <2>4. ASSUME NEW n \in Names
        PROVE  WholeKept(n)' /\ ListedKept(n)'
    <3>1. Mine(n)' = Mine(n) /\ Measured(n)' = Measured(n)
      BY <1>1 DEF Mine, Measured, Name
    <3>2. expected[n] # None /\ expected[n].whole => SectionsKept(n)'
      <4>1. SUFFICES ASSUME SectionsKept(n) PROVE SectionsKept(n)'
        BY DEF WholeKept
      <4>2. CASE n = Name(file)
        <5>1. file \in Measured(n) /\ user_loudness_section'[n] = sections
          BY <1>3, <1>5, <1>7, <2>1, <4>2 DEF Measured, sections
        <5>2. Final(file, Measured(n)) \/ (pc' = "sections" /\ Left(Measured(n))')
          <6>1. \A i \in Measured(n) : i \in 1..Len(files)
            BY <1>2 DEF Measured, Mine, Cursor, Files
          <6>2. SUFFICES ASSUME NEW j \in Measured(n), j > file
                         PROVE  pc' = "sections" /\ Left(Measured(n))'
            BY <1>2, <5>1, <6>1 DEF Final
          <6>3. file < Len(files) /\ j \in Nat /\ j >= file + 1
            BY <1>2, <6>1, <6>2
          <6> QED BY <2>1, <3>1, <6>3 DEF ToNextFile, Left
        <5>3. \A i \in Mine(n) : Final(i, Measured(n)) => expected[n].sections = files[i].sections
          BY <4>1 DEF SectionsKept
        <5>4. Final(file, Measured(n)) => user_loudness_section'[n] = expected'[n].sections
          BY <1>1, <1>3, <4>2, <5>1, <5>3 DEF sections
        <5> QED BY <1>1, <2>2, <3>1, <5>2, <5>3, <5>4 DEF SectionsKept
      <4>3. CASE n # Name(file)
        <5>1. file \notin Measured(n)
          BY <1>3, <4>3 DEF Measured
        <5> QED BY <1>1, <1>5, <2>1, <4>1, <4>3, <5>1, SectionsNext
      <4> QED BY <4>2, <4>3
    <3>3. \A m \in Names : Mine(m) = {} => user_loudness_section'[m] = user_loudness_section[m]
      BY <1>3, <1>5
    <3> QED BY <1>1, <1>6, <2>2, <3>2, <3>3, SectionsOn
  <2> QED BY <1>8, <2>3, <2>4
<1> QED BY <1>9, <1>10

-----------------------------------------------------------------------------
(* The rows and the copies                                                    *)

\* A row, of the last file of a name the one that stays.
LEMMA SaveRowKeeps ==
  ASSUME UserInv, SaveRow
  PROVE  (Cursor /\ Tables)' /\ \A n \in Names : WholeKept(n)' /\ ListedKept(n)'
<1> USE DEF UserInv
<1>1. /\ pc = "rows" /\ files' = files /\ section' = section /\ list_data' = list_data
      /\ user_loudness' = [user_loudness EXCEPT ![Name(file)] = RecordName(file)]
      /\ user_loudness_section' = user_loudness_section
      /\ playback_list' = playback_list /\ faults' = faults /\ expected' = expected
      /\ IF file < Len(files) THEN file' = file + 1 /\ pc' = "rows" ELSE file' = 1 /\ pc' = "copies"
  BY DEF SaveRow, NextFile
<1>2. Len(files) \in Nat /\ file \in DOMAIN files /\ file \in 1..Len(files)
      /\ DOMAIN files = 1..Len(files)
  BY <1>1 DEF Cursor, Files
<1>3. /\ Name(file) \in Names /\ RecordName(file) \in Recordings /\ RecordName(file) # None
      /\ file \in Mine(Name(file)) /\ \A n \in Names : file \in Mine(n) => n = Name(file)
  BY <1>2, FileOf, Distinct DEF Mine
<1>4. Cursor'
  BY <1>1, <1>2 DEF Cursor
<1>5. /\ user_loudness' \in [Names -> Recordings \cup {None}]
      /\ user_loudness'[Name(file)] = RecordName(file)
      /\ \A n \in Names \ {Name(file)} : user_loudness'[n] = user_loudness[n]
  BY <1>1, <1>3 DEF Tables
<1>6. Tables'
  BY <1>1, <1>5 DEF Tables, Mine, Name
<1>7. ASSUME NEW n \in Names
      PROVE  WholeKept(n)' /\ ListedKept(n)'
  <2>1. Mine(n)' = Mine(n) /\ Measured(n)' = Measured(n) /\ Found(n)' = Found(n)
    BY <1>1 DEF Mine, Measured, Found, Name, RecordName
  <2>2. \A i \in Mine(n) : i \in 1..Len(files)
    BY <1>2 DEF Mine
  <2>3. \/ pc' = "rows" /\ Left(Mine(n))'
        \/ \A i \in Mine(n) : i <= file
    BY <1>1, <1>2, <2>1, <2>2 DEF Left
  <2>4. WholeKept(n)'
    <3>1. SUFFICES ASSUME expected[n] # None, expected[n].whole
                   PROVE  (RowKept(n) /\ SectionsKept(n) /\ CopyKept(n))'
      BY <1>1 DEF WholeKept
    <3>2. RowKept(n) /\ SectionsKept(n) /\ CopyKept(n)
      BY <3>1 DEF WholeKept
    <3>3. RowKept(n)'
      <4>1. \A i \in Mine(n) : Final(i, Mine(n)) => expected[n].record_name = RecordName(i)
        BY <3>2 DEF RowKept
      <4>2. SUFFICES ASSUME \A i \in Mine(n) : i <= file
                     PROVE  user_loudness'[n] = expected[n].record_name
        BY <1>1, <2>1, <2>3, <4>1 DEF RowKept, RecordName
      <4>3. CASE file \in Mine(n)
        BY <1>3, <1>5, <4>1, <4>2, <4>3 DEF Final
      <4>4. CASE file \notin Mine(n)
        <5>1. ~Left(Mine(n))
          BY <1>2, <2>2, <4>2, <4>4 DEF Left
        <5>2. user_loudness[n] = expected[n].record_name
          BY <1>1, <3>2, <5>1 DEF RowKept
        <5> QED BY <1>3, <1>5, <4>4, <5>2
      <4> QED BY <4>3, <4>4
    <3>4. SectionsKept(n)'
      BY <1>1, <2>1, <3>2 DEF SectionsKept
    <3>5. CopyKept(n)'
      BY <1>1, <2>1, <3>2 DEF CopyKept, Copy, RecordName
    <3> QED BY <3>3, <3>4, <3>5
  <2>5. ListedKept(n)'
    <3>1. ListedKept(n)
      OBVIOUS
    <3>2. file \in Mine(n) => expected[n] # None /\ user_loudness'[n] # None
      BY <1>3, <1>5 DEF Tables
    <3>3. file \notin Mine(n) => user_loudness'[n] = user_loudness[n]
      BY <1>3, <1>5
    <3>4. pc' \in {"rows", "copies"}
      BY <1>1
    <3>5. /\ playback_list'[n] # None => user_loudness'[n] # None
          /\ user_loudness'[n] # None => expected'[n] # None
      BY <1>1, <3>1, <3>2, <3>3 DEF ListedKept
    <3>6. ASSUME NEW i \in Mine(n), i <= file
          PROVE  user_loudness'[n] # None
      BY <1>1, <1>2, <2>2, <3>1, <3>2, <3>3, <3>6 DEF ListedKept
    <3>7. pc' = "rows" /\ (\E i \in Mine(n)' : i < file') => user_loudness'[n] # None
      BY <1>1, <1>2, <2>1, <2>2, <3>6
    <3>8. pc' \in {"copies", "list"} /\ Mine(n)' # {} => user_loudness'[n] # None
      BY <1>1, <2>1, <2>3, <3>6
    <3>9. faults'["call"] = 0 /\ Mine(n)' # {} => expected'[n].whole
      BY <1>1, <2>1, <3>1 DEF ListedKept
    <3>10. ASSUME user_loudness'[n] # None, faults'["call"] = 0, expected'[n].first
           PROVE  user_loudness_section'[n] = expected'[n].sections
      <4>1. CASE file \in Mine(n)
        <5>1. expected[n] # None /\ expected[n].whole
          BY <1>1, <3>1, <3>2, <3>10, <4>1 DEF ListedKept
        <5>2. SectionsKept(n)
          BY <5>1 DEF WholeKept
        <5> QED BY <1>1, <5>2 DEF SectionsKept
      <4>2. CASE file \notin Mine(n)
        BY <1>1, <3>1, <3>3, <3>10, <4>2 DEF ListedKept
      <4> QED BY <4>1, <4>2
    <3> QED BY <3>4, <3>5, <3>7, <3>8, <3>9, <3>10 DEF ListedKept
  <2> QED BY <2>4, <2>5
<1> QED BY <1>4, <1>6, <1>7

\* The copies looked up are entries.
LEMMA CopiesAreEntries ==
  ASSUME UserInv, NEW unread
  PROVE  Copies(unread) \in [DOMAIN files -> Entries \cup {None}]
<1> USE DEF UserInv
<1>1. ASSUME NEW i \in DOMAIN files, playback_list[RecordName(i)] # None
      PROVE  Copy(RecordName(i)) \in Entries
  <2>1. playback_list[RecordName(i)] \in Entries
    BY <1>1, FileOf DEF Tables
  <2> QED BY <2>1 DEF Copy, Entries
<1> QED BY <1>1 DEF Copies

\* The copies at hand are those of the recordings there are.
LEMMA FindCopiesKeeps ==
  ASSUME UserInv, FindCopies
  PROVE  (Cursor /\ Tables)' /\ \A n \in Names : WholeKept(n)' /\ ListedKept(n)'
<1> USE DEF UserInv
<1>1. /\ pc = "copies" /\ pc' = "list" /\ file' = 1 /\ files' = files /\ list_data' = Copies({})
      /\ user_loudness' = user_loudness /\ user_loudness_section' = user_loudness_section
      /\ playback_list' = playback_list /\ faults' = faults /\ expected' = expected
  BY DEF FindCopies, tables
<1>2. Len(files) \in Nat /\ DOMAIN files = 1..Len(files)
  BY DEF Cursor, Files
<1>3. ASSUME NEW i \in DOMAIN files
      PROVE  /\ list_data'[i] # None <=> playback_list[RecordName(i)] # None
             /\ list_data'[i] # None => list_data'[i] = Copy(RecordName(i))
  <2>1. list_data'[i] = IF playback_list[RecordName(i)] = None THEN None ELSE Copy(RecordName(i))
    BY <1>1 DEF Copies
  <2>2. playback_list[RecordName(i)] # None => Copy(RecordName(i)) # None
    <3>1. ASSUME playback_list[RecordName(i)] # None
          PROVE  playback_list[RecordName(i)] \in Entries
      BY <3>1, FileOf DEF Tables
    <3> QED BY <3>1, NoneIsNoRecord DEF Copy, Entries
  <2> QED BY <2>1, <2>2
<1>4. Cursor'
  <2>1. list_data' \in [DOMAIN files -> Entries \cup {None}]
    BY <1>1, CopiesAreEntries
  <2> QED BY <1>1, <1>2, <2>1 DEF Cursor
<1>5. Tables'
  BY <1>1 DEF Tables, Mine, Name
<1>6. ASSUME NEW n \in Names
      PROVE  WholeKept(n)' /\ ListedKept(n)'
  <2>1. Mine(n)' = Mine(n) /\ Measured(n)' = Measured(n) /\ Copied(n)' = Found(n)
        /\ Mine(n) \subseteq DOMAIN files /\ Found(n) \subseteq Mine(n)
    BY <1>1, <1>3 DEF Mine, Measured, Found, Copied, Name
  <2>2. WholeKept(n)'
    <3>1. SUFFICES ASSUME RowKept(n), SectionsKept(n), CopyKept(n)
                   PROVE  (RowKept(n) /\ SectionsKept(n) /\ CopyKept(n))'
      BY <1>1 DEF WholeKept
    <3>2. RowKept(n)'
      BY <1>1, <2>1, <3>1 DEF RowKept, RecordName
    <3>3. SectionsKept(n)'
      BY <1>1, <2>1, <3>1 DEF SectionsKept
    <3>4. CopyKept(n)'
      <4>1. /\ \A i \in Mine(n) : Final(i, Found(n)) => expected[n].copy = Copy(RecordName(i))
            /\ Found(n) # {} \/ playback_list[n] = expected[n].copy
        BY <1>1, <3>1 DEF CopyKept
      <4>2. \A i \in Mine(n) : Final(i, Found(n)) => expected[n].copy = list_data'[i]
        BY <1>3, <2>1, <4>1 DEF Final, Found
      <4>3. Found(n) # {} => Left(Copied(n))'
        BY <1>1, <1>2, <2>1 DEF Left
      <4> QED BY <1>1, <2>1, <4>1, <4>2, <4>3 DEF CopyKept
    <3> QED BY <3>2, <3>3, <3>4
  <2>3. ListedKept(n)'
    <3>1. ListedKept(n)
      OBVIOUS
    <3> QED BY <1>1, <2>1, <3>1 DEF ListedKept
  <2> QED BY <2>2, <2>3
<1> QED BY <1>4, <1>5, <1>6

\* A copy, of the last file of a name that has one the one that stays.
LEMMA SaveCopyKeeps ==
  ASSUME UserInv, SaveCopy
  PROVE  (Cursor /\ Tables)' /\ \A n \in Names : WholeKept(n)' /\ ListedKept(n)'
<1> USE DEF UserInv
<1>1. /\ pc = "list" /\ pc' = "list" /\ file <= Len(files) /\ file' = file + 1
      /\ files' = files /\ list_data' = list_data
      /\ user_loudness' = user_loudness /\ user_loudness_section' = user_loudness_section
      /\ playback_list' = IF list_data[file] = None THEN playback_list
                          ELSE [playback_list EXCEPT ![Name(file)] = list_data[file]]
      /\ faults' = faults /\ expected' = expected
  BY DEF SaveCopy
<1>2. Len(files) \in Nat /\ DOMAIN files = 1..Len(files) /\ file \in DOMAIN files /\ file \in Nat
  BY <1>1 DEF Cursor, Files
<1>3. /\ Name(file) \in Names /\ file \in Mine(Name(file))
      /\ \A n \in Names : file \in Mine(n) => n = Name(file)
  BY <1>2, FileOf DEF Mine
<1>4. Cursor'
  BY <1>1, <1>2 DEF Cursor
<1>5. list_data[file] \in Entries \cup {None}
  BY <1>1, <1>2 DEF Cursor
<1>6. /\ playback_list' \in [Names \cup Recordings -> Entries \cup {None}]
      /\ list_data[file] # None => playback_list'[Name(file)] = list_data[file]
      /\ \A n \in Names : n # Name(file) \/ list_data[file] = None => playback_list'[n] = playback_list[n]
  BY <1>1, <1>3, <1>5 DEF Tables
<1>7. Tables'
  BY <1>1, <1>6 DEF Tables, Mine, Name
<1>8. ASSUME NEW n \in Names
      PROVE  WholeKept(n)' /\ ListedKept(n)'
  <2>1. /\ Mine(n)' = Mine(n) /\ Measured(n)' = Measured(n) /\ Copied(n)' = Copied(n)
        /\ Mine(n) \subseteq DOMAIN files /\ Copied(n) \subseteq Mine(n)
    BY <1>1 DEF Mine, Measured, Copied, Name
  <2>2. WholeKept(n)'
    <3>1. SUFFICES ASSUME RowKept(n), SectionsKept(n), CopyKept(n)
                   PROVE  (RowKept(n) /\ SectionsKept(n) /\ CopyKept(n))'
      BY <1>1 DEF WholeKept
    <3>2. RowKept(n)'
      BY <1>1, <2>1, <3>1 DEF RowKept, RecordName
    <3>3. SectionsKept(n)'
      BY <1>1, <2>1, <3>1 DEF SectionsKept
    <3>4. CopyKept(n)'
      <4>1. /\ \A i \in Mine(n) : Final(i, Copied(n)) => expected[n].copy = list_data[i]
            /\ Left(Copied(n)) \/ playback_list[n] = expected[n].copy
        BY <1>1, <3>1 DEF CopyKept
      <4>2. SUFFICES ASSUME ~Left(Copied(n))' PROVE playback_list'[n] = expected[n].copy
        BY <1>1, <2>1, <4>1 DEF CopyKept
      <4>3. \A i \in Copied(n) : i \in Nat /\ i <= file
        BY <1>1, <1>2, <2>1, <4>2 DEF Left
      <4>4. CASE file \in Copied(n)
        <5>1. list_data[file] # None /\ n = Name(file)
          BY <1>3, <2>1, <4>4 DEF Copied
        <5>2. Final(file, Copied(n))
          BY <4>3, <4>4 DEF Final
        <5> QED BY <1>6, <2>1, <4>1, <4>4, <5>1, <5>2
      <4>5. CASE file \notin Copied(n)
        <5>1. n # Name(file) \/ list_data[file] = None
          BY <1>3, <4>5 DEF Copied
        <5>2. ~Left(Copied(n))
          BY <1>2, <4>3, <4>5 DEF Left
        <5> QED BY <1>6, <4>1, <5>1, <5>2
      <4> QED BY <4>4, <4>5
    <3> QED BY <3>2, <3>3, <3>4
  <2>3. ListedKept(n)'
    <3>1. ListedKept(n)
      OBVIOUS
    <3>2. playback_list'[n] # None => user_loudness'[n] # None
      BY <1>1, <1>3, <1>6, <3>1 DEF ListedKept
    <3> QED BY <1>1, <2>1, <3>1, <3>2 DEF ListedKept
  <2> QED BY <2>2, <2>3
<1> QED BY <1>4, <1>7, <1>8

\* When the last copy is there nothing is left to do.
LEMMA SavedKeeps ==
  ASSUME UserInv, Saved
  PROVE  Tables' /\ \A n \in Names : WholeKept(n)' /\ ListedKept(n)'
<1> USE DEF UserInv
<1>1. /\ pc = "list" /\ file > Len(files) /\ pc' = "loop" /\ files' = <<>>
      /\ user_loudness' = user_loudness /\ user_loudness_section' = user_loudness_section
      /\ playback_list' = playback_list /\ faults' = faults /\ expected' = expected
  BY DEF Saved, Leave, tables
<1>2. Len(files) \in Nat /\ DOMAIN files = 1..Len(files) /\ file \in Nat
  BY <1>1 DEF Cursor, Files
<1>3. \A n : Mine(n)' = {}
  BY <1>1 DEF Mine
<1>4. Tables'
  BY <1>1, <1>3 DEF Tables
<1>5. ASSUME NEW n \in Names
      PROVE  WholeKept(n)' /\ ListedKept(n)'
  <2>1. ~Left(Copied(n))
    BY <1>1, <1>2 DEF Left, Copied, Mine
  <2>2. WholeKept(n)'
    <3>1. SUFFICES ASSUME RowKept(n), SectionsKept(n), CopyKept(n)
                   PROVE  (RowKept(n) /\ SectionsKept(n) /\ CopyKept(n))'
      BY <1>1 DEF WholeKept
    <3>2. /\ user_loudness[n] = expected[n].record_name
          /\ user_loudness_section[n] = expected[n].sections
          /\ playback_list[n] = expected[n].copy
      BY <1>1, <2>1, <3>1 DEF RowKept, SectionsKept, CopyKept
    <3> QED BY <1>1, <1>3, <3>2 DEF RowKept, SectionsKept, CopyKept, Measured, Found
  <2>3. ListedKept(n)'
    <3>1. ListedKept(n)
      OBVIOUS
    <3> QED BY <1>1, <1>3, <3>1 DEF ListedKept
  <2> QED BY <2>2, <2>3
<1> QED BY <1>4, <1>5

-----------------------------------------------------------------------------
(* Main at its loop                                                           *)

\* A recording's own entry is none of a user's names.
LEMMA RecordingEndsKeeps ==
  ASSUME UserInv, NEW r \in Recordings, RecordingEnds(r)
  PROVE  (Cursor /\ Tables)' /\ \A n \in Names : WholeKept(n)' /\ ListedKept(n)'
<1> USE DEF UserInv
<1>1. /\ pc = "loop" /\ pc' = "loop" /\ files' = files /\ file' = file
      /\ user_loudness' = user_loudness /\ user_loudness_section' = user_loudness_section
      /\ playback_list[r] # None
      /\ playback_list' = [playback_list EXCEPT ![r].over = TRUE]
      /\ faults' = faults /\ expected' = expected
  BY DEF RecordingEnds, cursor
<1>2. files = <<>> /\ \A n : Mine(n) = {} /\ Mine(n)' = {}
  BY <1>1 DEF Cursor, Mine
<1>3. /\ playback_list' \in [Names \cup Recordings -> Entries \cup {None}]
      /\ \A n \in Names : playback_list'[n] = playback_list[n]
  <2>1. playback_list[r] \in Entries
    BY <1>1 DEF Tables
  <2>2. [playback_list[r] EXCEPT !.over = TRUE] \in Entries
    BY <2>1 DEF Entries
  <2> QED BY <1>1, <2>2, Distinct DEF Tables
<1>4. Cursor'
  BY <1>1 DEF Cursor
<1>5. Tables'
  BY <1>1, <1>2, <1>3 DEF Tables
<1>6. ASSUME NEW n \in Names
      PROVE  WholeKept(n)' /\ ListedKept(n)'
  <2>1. WholeKept(n) /\ ListedKept(n) /\ playback_list'[n] = playback_list[n]
    BY <1>3
  <2>2. WholeKept(n)'
    <3>1. SUFFICES ASSUME RowKept(n), SectionsKept(n), CopyKept(n)
                   PROVE  (RowKept(n) /\ SectionsKept(n) /\ CopyKept(n))'
      BY <1>1 DEF WholeKept
    <3>2. /\ user_loudness[n] = expected[n].record_name
          /\ user_loudness_section[n] = expected[n].sections
          /\ playback_list[n] = expected[n].copy
      BY <1>2, <3>1, NotMine
    <3> QED BY <1>1, <1>2, <2>1, <3>2 DEF RowKept, SectionsKept, CopyKept, Measured, Found
  <2>3. ListedKept(n)'
    BY <1>1, <1>2, <2>1 DEF ListedKept
  <2> QED BY <2>2, <2>3
<1> QED BY <1>4, <1>5, <1>6

\* What is expected of a name that a message has.
LEMMA ExpectedIsOne ==
  ASSUME UserInv, NEW message \in Files, NEW n \in Names,
         \E i \in DOMAIN message : message[i].of["name"] = n
  PROVE  LET e == ExpectedOf(n, message)
             mine == {i \in DOMAIN message : message[i].of["name"] = n}
             measured == {i \in mine : message[i].sections # <<>>}
             listed == {i \in mine : playback_list[message[i].of["record_name"]] # None}
         IN /\ e \in Expectations /\ e.whole /\ (e.first <=> expected[n] = None)
            /\ \A i : Final(i, mine) => e.record_name = message[i].of["record_name"]
            /\ \A i : Final(i, measured) => e.sections = message[i].sections
            /\ measured = {} => e.sections = user_loudness_section[n]
            /\ \A i : Final(i, listed) => e.copy = Copy(message[i].of["record_name"])
            /\ listed = {} => e.copy = playback_list[n]
<1> USE DEF UserInv
<1> DEFINE e == ExpectedOf(n, message)
           mine == {i \in DOMAIN message : message[i].of["name"] = n}
           measured == {i \in mine : message[i].sections # <<>>}
           listed == {i \in mine : playback_list[message[i].of["record_name"]] # None}
           record_name == message[Max(mine)].of["record_name"]
           sections == IF measured = {} THEN user_loudness_section[n]
                       ELSE message[Max(measured)].sections
           copy == IF listed = {} THEN playback_list[n]
                   ELSE Copy(message[Max(listed)].of["record_name"])
<1>1. e = [record_name |-> record_name, sections |-> sections, copy |-> copy,
           first |-> expected[n] = None, whole |-> TRUE]
  BY DEF ExpectedOf
<1>2. /\ Len(message) \in Nat /\ DOMAIN message = 1..Len(message)
      /\ \A i \in DOMAIN message : /\ message[i].of["record_name"] \in Recordings
                                   /\ message[i].sections \in Seq(Sections)
  <2>1. \A i \in 1..Len(message) :
          message[i] \in [of : [name : Names, record_name : Recordings], sections : Seq(Sections)]
    BY ElementOfSeq DEF Files
  <2>2. /\ Len(message) \in Nat /\ DOMAIN message = 1..Len(message)
    BY DEF Files
  <2> QED BY <2>1, <2>2
<1>3. mine # {} /\ mine \subseteq DOMAIN message /\ measured \subseteq mine /\ listed \subseteq mine
  OBVIOUS
<1> HIDE DEF e, mine
<1>4. Final(Max(mine), mine) /\ \A i : Final(i, mine) => i = Max(mine)
  BY <1>2, <1>3, MaxIsFinal
<1>5. measured # {} => Final(Max(measured), measured) /\ \A i : Final(i, measured) => i = Max(measured)
  <2>1. measured \subseteq 1..Len(message)
    BY <1>2, <1>3
  <2> HIDE DEF measured
  <2> QED BY <1>2, <2>1, MaxIsFinal
<1>6. listed # {} => Final(Max(listed), listed) /\ \A i : Final(i, listed) => i = Max(listed)
  <2>1. listed \subseteq 1..Len(message)
    BY <1>2, <1>3
  <2> HIDE DEF listed
  <2> QED BY <1>2, <2>1, MaxIsFinal
<1>7. record_name \in Recordings
  BY <1>2, <1>3, <1>4 DEF Final
<1>8. sections \in Seq(Sections)
  <2>1. user_loudness_section[n] \in Seq(Sections)
    BY DEF Tables
  <2>2. measured # {} => Max(measured) \in DOMAIN message
    BY <1>3, <1>5 DEF Final
  <2> QED BY <1>2, <2>1, <2>2
<1>9. copy \in Entries \cup {None}
  <2>1. playback_list[n] \in Entries \cup {None}
    BY DEF Tables
  <2>2. ASSUME listed # {} PROVE Copy(message[Max(listed)].of["record_name"]) \in Entries
    <3>1. Max(listed) \in listed
      BY <1>6, <2>2 DEF Final
    <3>2. /\ Max(listed) \in DOMAIN message
          /\ playback_list[message[Max(listed)].of["record_name"]] # None
      BY <1>3, <3>1
    <3>3. playback_list[message[Max(listed)].of["record_name"]] \in Entries
      BY <1>2, <3>2 DEF Tables
    <3> QED BY <3>3 DEF Copy, Entries
  <2> QED BY <2>1, <2>2
<1>10. e \in Expectations /\ e.whole /\ (e.first <=> expected[n] = None)
  BY <1>1, <1>7, <1>8, <1>9 DEF Expectations
<1>11. e.record_name = record_name /\ e.sections = sections /\ e.copy = copy
  BY <1>1
<1>12. \A i : Final(i, mine) => e.record_name = message[i].of["record_name"]
  BY <1>4, <1>11
<1>13. /\ \A i : Final(i, measured) => e.sections = message[i].sections
       /\ measured = {} => e.sections = user_loudness_section[n]
  <2>1. \A i : Final(i, measured) => measured # {}
    BY DEF Final
  <2> QED BY <1>5, <1>11, <2>1
<1>14. /\ \A i : Final(i, listed) => e.copy = Copy(message[i].of["record_name"])
       /\ listed = {} => e.copy = playback_list[n]
  <2>1. \A i : Final(i, listed) => listed # {}
    BY DEF Final
  <2> QED BY <1>6, <1>11, <2>1
<1> QED BY <1>10, <1>12, <1>13, <1>14 DEF e, mine

\* A message is taken: what is expected of its names is all left to do.
LEMMA SaveKeeps ==
  ASSUME UserInv, NEW message \in Files, message # <<>>, Save(message)
  PROVE  (Cursor /\ Tables)' /\ \A n \in Names : WholeKept(n)' /\ ListedKept(n)'
<1> USE DEF UserInv
<1> DEFINE Has(n) == \E i \in DOMAIN message : message[i].of["name"] = n
<1>1. /\ pc = "loop" /\ pc' = "sections" /\ files' = message /\ file' = 1
      /\ user_loudness' = user_loudness /\ user_loudness_section' = user_loudness_section
      /\ playback_list' = playback_list /\ faults' = faults
      /\ expected' = [n \in Names |-> IF Has(n) THEN ExpectedOf(n, message) ELSE expected[n]]
  BY DEF Save, tables
<1>2. Len(message) \in Nat \ {0} /\ DOMAIN message = 1..Len(message)
  BY DEF Files
<1>3. files = <<>> /\ \A n : Mine(n) = {}
  BY <1>1 DEF Cursor, Mine
<1>4. \A n : /\ Mine(n)' = {i \in DOMAIN message : message[i].of["name"] = n}
             /\ Has(n) <=> Mine(n)' # {}
  BY <1>1 DEF Mine, Name
<1>5. Cursor'
  BY <1>1, <1>2 DEF Cursor
<1>6. ASSUME NEW n \in Names, Has(n)
      PROVE  /\ expected'[n] \in Expectations /\ expected'[n].whole
             /\ expected'[n].first <=> expected[n] = None
             /\ \A i : Final(i, Mine(n)') => expected'[n].record_name = message[i].of["record_name"]
             /\ \A i : Final(i, Measured(n)') => expected'[n].sections = message[i].sections
             /\ Measured(n)' = {} => expected'[n].sections = user_loudness_section[n]
             /\ \A i : Final(i, Found(n)') => expected'[n].copy = Copy(message[i].of["record_name"])
             /\ Found(n)' = {} => expected'[n].copy = playback_list[n]
  <2>1. expected'[n] = ExpectedOf(n, message)
    BY <1>1, <1>6
  <2>2. /\ Measured(n)' = {i \in Mine(n)' : message[i].sections # <<>>}
        /\ Found(n)' = {i \in Mine(n)' : playback_list[message[i].of["record_name"]] # None}
    BY <1>1 DEF Measured, Found, RecordName
  <2> QED BY <1>4, <1>6, <2>1, <2>2, ExpectedIsOne
<1>7. Tables'
  <2>1. \A n \in Names : ~Has(n) => expected'[n] = expected[n]
    BY <1>1
  <2>2. \A n \in Names : expected'[n] \in Expectations \cup {None}
    BY <1>6, <2>1 DEF Tables
  <2>3. expected' \in [Names -> Expectations \cup {None}]
    BY <1>1, <2>2
  <2>4. \A n \in Names : Mine(n)' # {} => expected'[n] # None
    BY <1>4, <1>6, NoneIsNoRecord
  <2> QED BY <1>1, <2>3, <2>4 DEF Tables
<1>8. ASSUME NEW n \in Names
      PROVE  WholeKept(n)' /\ ListedKept(n)'
  <2>1. ListedKept(n) /\ WholeKept(n)
    OBVIOUS
  <2>2. CASE Has(n)
    <3>1. Mine(n)' # {} /\ \A i \in Mine(n)' : i \in Nat /\ i >= 1
      BY <1>2, <1>4, <2>2
    <3>2. RowKept(n)'
      BY <1>1, <1>6, <2>2, <3>1 DEF RowKept, RecordName
    <3>3. SectionsKept(n)'
      <4>1. Measured(n)' # {} => Left(Measured(n))'
        BY <1>1, <3>1 DEF Left, Measured
      <4> QED BY <1>1, <1>6, <2>2, <4>1 DEF SectionsKept
    <3>4. CopyKept(n)'
      <4>1. \A r : Copy(r)' = Copy(r)
        BY <1>1 DEF Copy
      <4> QED BY <1>1, <1>6, <2>2, <4>1 DEF CopyKept, RecordName
    <3>5. WholeKept(n)'
      BY <3>2, <3>3, <3>4 DEF WholeKept
    <3>6. expected'[n] # None /\ expected'[n].whole
      BY <1>6, <2>2, NoneIsNoRecord
    <3>7. expected'[n].first => user_loudness'[n] = None
      BY <1>1, <1>6, <2>1, <2>2 DEF ListedKept
    <3>8. ListedKept(n)'
      BY <1>1, <2>1, <3>6, <3>7 DEF ListedKept
    <3> QED BY <3>5, <3>8
  <2>3. CASE ~Has(n)
    <3>1. Mine(n) = {} /\ Mine(n)' = {} /\ expected'[n] = expected[n]
      BY <1>1, <1>3, <1>4, <2>3
    <3>2. WholeKept(n)'
      <4>1. SUFFICES ASSUME RowKept(n), SectionsKept(n), CopyKept(n)
                     PROVE  (RowKept(n) /\ SectionsKept(n) /\ CopyKept(n))'
        BY <2>1, <3>1 DEF WholeKept
      <4>2. /\ user_loudness[n] = expected[n].record_name
            /\ user_loudness_section[n] = expected[n].sections
            /\ playback_list[n] = expected[n].copy
        BY <3>1, <4>1, NotMine
      <4> QED BY <1>1, <3>1, <4>2 DEF RowKept, SectionsKept, CopyKept, Measured, Found
    <3>3. ListedKept(n)'
      BY <1>1, <2>1, <3>1 DEF ListedKept
    <3> QED BY <3>2, <3>3
  <2> QED BY <2>2, <2>3
<1> QED BY <1>5, <1>7, <1>8

\* Main takes up something that is no user loudness, is done with it, or does
\* nothing about it at all.
LEMMA UserUnchanged ==
  ASSUME UserInv, UNCHANGED <<cursor, tables, faults, expected>>,
         pc' = pc \/ (pc \in {"loop", "change"} /\ pc' \in {"loop", "change"})
  PROVE  (Cursor /\ Tables)' /\ \A n \in Names : WholeKept(n)' /\ ListedKept(n)'
<1> USE DEF UserInv
<1>1. /\ files' = files /\ file' = file /\ section' = section /\ list_data' = list_data
      /\ user_loudness' = user_loudness /\ user_loudness_section' = user_loudness_section
      /\ playback_list' = playback_list /\ faults' = faults /\ expected' = expected
  BY DEF cursor, tables
<1>2. /\ pc' \in {"sections", "insert"} <=> pc \in {"sections", "insert"}
      /\ pc' = "rows" <=> pc = "rows"
      /\ pc' = "list" <=> pc = "list"
      /\ pc' \in {"copies", "list"} <=> pc \in {"copies", "list"}
      /\ pc' \in {"loop", "change"} <=> pc \in {"loop", "change"}
      /\ pc' = "insert" <=> pc = "insert"
      /\ pc' = "copies" <=> pc = "copies"
      /\ pc' = "sections" <=> pc = "sections"
  OBVIOUS
<1>3. \A n : /\ Mine(n)' = Mine(n) /\ Measured(n)' = Measured(n)
             /\ Found(n)' = Found(n) /\ Copied(n)' = Copied(n)
  BY <1>1 DEF Mine, Measured, Found, Copied, Name, RecordName
<1>4. \A S : Left(S)' <=> Left(S)
  BY <1>1 DEF Left
<1>5. Cursor'
  BY <1>1, <1>2 DEF Cursor, Name
<1>6. Tables'
  BY <1>1, <1>3 DEF Tables
<1>7. ASSUME NEW n \in Names
      PROVE  WholeKept(n)' /\ ListedKept(n)'
  <2>1. WholeKept(n) /\ ListedKept(n)
    OBVIOUS
  <2>2. RowKept(n) => RowKept(n)'
    BY <1>1, <1>2, <1>3, <1>4 DEF RowKept, RecordName
  <2>3. SectionsKept(n) => SectionsKept(n)'
    BY <1>1, <1>2, <1>3, <1>4 DEF SectionsKept
  <2>4. CopyKept(n) => CopyKept(n)'
    BY <1>1, <1>2, <1>3, <1>4 DEF CopyKept, Copy, RecordName
  <2>5. WholeKept(n)'
    BY <1>1, <2>1, <2>2, <2>3, <2>4 DEF WholeKept
  <2>6. ListedKept(n)'
    BY <1>1, <1>2, <1>3, <2>1 DEF ListedKept
  <2> QED BY <2>5, <2>6
<1> QED BY <1>5, <1>6, <1>7

-----------------------------------------------------------------------------
(* Each step                                                                  *)

\* Main leaves the message it was saving.
LEMMA LeftCursor ==
  ASSUME Leave
  PROVE  Cursor'
BY DEF Leave, Cursor, Files

\* Each statement of the saving keeps the invariant ...
LEMMA SaveStepKeeps ==
  ASSUME UserInv, SaveStep
  PROVE  (Cursor /\ Tables)' /\ \A n \in Names : WholeKept(n)' /\ ListedKept(n)'
<1>1. CASE NoSections
  BY <1>1, NoSectionsKeeps
<1>2. CASE DeleteSections
  BY <1>2, DeleteSectionsKeeps
<1>3. CASE InsertSection
  BY <1>3, InsertSectionKeeps
<1>4. CASE SectionsFail
  <2>1. /\ pc \in {"sections", "insert"} /\ Fails("call") /\ ToNextFile /\ section' = 1
        /\ files' = files /\ UNCHANGED tables
    BY <1>4 DEF SectionsFail
  <2>2. "call" \in Fault /\ pc' \in {"sections", "rows"} /\ (pc' = "rows" => file' = 1)
    BY <2>1 DEF ToNextFile, Fault
  <2>3. Cursor'
    <3>1. Len(files) \in Nat /\ file \in 1..Len(files)
      BY <2>1 DEF UserInv, Cursor, Files
    <3> QED BY <2>1, <3>1 DEF UserInv, Cursor, ToNextFile
  <2> QED BY <2>1, <2>2, <2>3, FailsKeeps
<1>5. CASE NoMemory \/ SaveFails
  <2>1. Fails("call") /\ Leave /\ UNCHANGED tables
    BY <1>5 DEF NoMemory, SaveFails
  <2>2. "call" \in Fault /\ files' = <<>> /\ pc' = "loop"
    BY <2>1 DEF Leave, Fault
  <2> QED BY <2>1, <2>2, FailsKeeps, LeftCursor
<1>6. CASE SaveRow
  BY <1>6, SaveRowKeeps
<1>7. CASE FindCopies
  BY <1>7, FindCopiesKeeps
<1>8. CASE FindCopiesFails
  <2>1. /\ pc = "copies" /\ Fails("call") /\ pc' = "list" /\ file' = 1 /\ files' = files
        /\ UNCHANGED tables
    BY <1>8 DEF FindCopiesFails
  <2>2. "call" \in Fault
    BY DEF Fault
  <2>3. list_data' \in [DOMAIN files -> Entries \cup {None}]
    <3>1. PICK i \in DOMAIN files : list_data' = Copies({i})
      BY <1>8 DEF FindCopiesFails
    <3> QED BY <3>1, CopiesAreEntries
  <2>4. Cursor'
    <3>1. Len(files) \in Nat
      BY DEF UserInv, Cursor, Files
    <3> QED BY <2>1, <2>3, <3>1 DEF UserInv, Cursor
  <2> QED BY <2>1, <2>2, <2>4, FailsKeeps
<1>9. CASE SaveCopy
  BY <1>9, SaveCopyKeeps
<1>10. CASE Saved
  <2>1. Leave
    BY <1>10 DEF Saved
  <2> QED BY <1>10, <2>1, SavedKeeps, LeftCursor
<1> QED BY <1>1, <1>2, <1>3, <1>4, <1>5, <1>6, <1>7, <1>8, <1>9, <1>10 DEF SaveStep

\* ... and so does each step of the controller.
LEMMA UserKept ==
  ASSUME UserInv, Next
  PROVE  (Cursor /\ Tables)' /\ \A n \in Names : WholeKept(n)' /\ ListedKept(n)'
<1> DEFINE Goal == (Cursor /\ Tables)' /\ \A n \in Names : WholeKept(n)' /\ ListedKept(n)'
<1> SUFFICES Goal
  OBVIOUS
<1> HIDE DEF Goal
<1>1. CASE UNCHANGED userVars
  <2>1. UNCHANGED <<cursor, tables, faults, expected>> /\ pc' = pc
    BY <1>1 DEF userVars
  <2> QED BY <2>1, UserUnchanged DEF Goal
<1>2. CASE ChangeChannel \/ EntryBegins \/ Changed
  <2>1. /\ UNCHANGED <<cursor, tables, faults, expected>>
        /\ pc \in {"loop", "change"} /\ pc' \in {"loop", "change"}
    BY <1>2 DEF ChangeChannel, EntryBegins, Changed, Takes
  <2> QED BY <2>1, UserUnchanged DEF Goal
<1>3. CASE TakeUserLoudness
  <2>1. Save(received.items) /\ received.type = "user_loudness"
    BY <1>3 DEF TakeUserLoudness, Takes
  <2>2. CASE received.items = <<>>
    <3>1. UNCHANGED <<cursor, tables, faults, expected>> /\ pc' = pc
      BY <2>1, <2>2 DEF Save
    <3> QED BY <3>1, UserUnchanged DEF Goal
  <2>3. CASE received.items # <<>>
    <3>1. PICK d \in Documents \cup Proper : received = W!Parse(d)
      BY <2>1 DEF UserInv, FromClient, W!Refused
    <3>2. received.items \in Files
      BY <2>1, <3>1, DocumentsHold
    <3> QED BY <2>1, <2>3, <3>2, SaveKeeps DEF Goal
  <2> QED BY <2>2, <2>3
<1>4. CASE CannotTell \/ CannotList \/ TakeNoSchedule
  <2>1. CASE UNCHANGED <<faults, expected>>
    <3>1. UNCHANGED <<cursor, tables, faults, expected>> /\ pc' = pc
      BY <1>4, <2>1 DEF CannotTell, CannotList, TakeNoSchedule
    <3> QED BY <3>1, UserUnchanged DEF Goal
  <2>2. CASE Fails("call")
    <3>1. UNCHANGED <<pc, cursor, tables>> /\ pc = "loop"
      BY <1>4 DEF CannotTell, CannotList, TakeNoSchedule, Takes
    <3>2. files = <<>> /\ files' = <<>> /\ pc' = "loop" /\ "call" \in Fault
      BY <3>1 DEF cursor, UserInv, Cursor, Fault
    <3>3. Cursor'
      BY <3>1, <3>2 DEF cursor, UserInv, Cursor
    <3> QED BY <2>2, <3>1, <3>2, <3>3, FailsKeeps DEF Goal
  <2> QED BY <1>4, <2>1, <2>2 DEF CannotTell, CannotList, TakeNoSchedule
<1>5. CASE Kill
  <2>1. Fails("crash") /\ Leave /\ UNCHANGED tables
    BY <1>5 DEF Kill, Crash
  <2>2. "crash" \in Fault /\ files' = <<>> /\ pc' = "loop"
    BY <2>1 DEF Leave, Fault
  <2> QED BY <2>1, <2>2, FailsKeeps, LeftCursor DEF Goal
<1>6. CASE SaveStep
  BY <1>6, SaveStepKeeps DEF Goal
<1>7. CASE \E r \in Recordings : RecordingEnds(r)
  BY <1>7, RecordingEndsKeeps DEF Goal
<1>8. CASE Carries
  BY <1>1, <1>2, <1>3, <1>4, <1>8
     DEF Carries, Drop, AcknowledgeOnly, Ignore, StreamCommand, ResetCommand, TakeSchedule, ChangeNext
<1>9. CASE Tells
  BY <1>1, <1>4, <1>9
     DEF Tells, TellSchedule, TellChannels, TellPlaybackList, TellLogList, TellUserLoudness
<1>10. CASE ClientSends
  BY <1>1, <1>10 DEF ClientSends
<1>11. CASE EntryBegins
  BY <1>2, <1>11
<1>12. CASE (SaveStep \/ \E r \in Recordings : RecordingEnds(r)) /\ UNCHANGED keyVars /\ Rest
  BY <1>6, <1>7, <1>12
<1>13. CASE KeyStep /\ UNCHANGED userVars /\ Rest
  BY <1>1, <1>13
<1> QED BY <1>5, <1>8, <1>9, <1>10, <1>11, <1>12, <1>13 DEF Next

\* The invariant is inductive.
LEMMA UserNext ==
  ASSUME UserInv, [Next]_vars
  PROVE  UserInv'
<1>1. CASE UNCHANGED vars
  <2>1. UNCHANGED <<cursor, tables, faults, expected>> /\ pc' = pc /\ received' = received
    BY <1>1 DEF vars, userVars
  <2>2. FromClient'
    BY <2>1 DEF UserInv, FromClient
  <2> QED BY <2>1, <2>2, UserUnchanged DEF UserInv
<1>2. CASE Next
  BY <1>2, UserKept, ReadKeeps DEF UserInv
<1> QED BY <1>1, <1>2

\* What is listed is there: a name in the playback list has its row, and a name
\* with a row that was sent once has all its sections, wherever the controller
\* is killed (the USER_LOUDNESS handler, main.c), for messages with any files.
THEOREM Listing == Spec => []ListedComplete
<1>1. UserInv => ListedComplete
  BY DEF UserInv, ListedKept, ListedComplete
<1> QED BY <1>1, UserInitial, UserNext, PTL DEF Spec

\* A message saved without a fault is in the tables exactly as it was sent,
\* whatever was there before it (database_save_user_loudness, the handler).
THEOREM Saving == Spec => []SavedWhole
<1>1. ASSUME UserInv
      PROVE  SavedWhole
  <2>1. SUFFICES ASSUME pc = "loop", NEW n \in Names, expected[n] # None, expected[n].whole
                 PROVE  /\ user_loudness[n] = expected[n].record_name
                        /\ user_loudness_section[n] = expected[n].sections
                        /\ playback_list[n] = expected[n].copy
    BY DEF SavedWhole
  <2>2. Mine(n) = {}
    BY <1>1, <2>1 DEF UserInv, Cursor, Mine
  <2>3. RowKept(n) /\ SectionsKept(n) /\ CopyKept(n)
    BY <1>1, <2>1 DEF UserInv, WholeKept
  <2> QED BY <2>2, <2>3, NotMine
<1> QED BY <1>1, UserInitial, UserNext, PTL DEF Spec

-----------------------------------------------------------------------------
(* Places in a document                                                       *)

\* A document is a sequence, of whatever nodes.
IsDocument(d) == Len(d) \in Nat /\ DOMAIN d = 1..Len(d)

\* The cardinality the reading of messages speaks of is the one there is.
LEMMA Counted == \A S : W!Cardinality(S) = Cardinality(S)
BY DEF Cardinality, W!Cardinality

\* Of some places in a document the first is the first, and the others come one
\* later than without it.
PutFirst(n, q, P, R) ==
  n \in Nat /\ P \subseteq 1..n /\ q \in 1..n /\ R = {q} \cup P /\ \A c \in P : q < c

LEMMA OnePlaceMore ==
  ASSUME NEW n, NEW q, NEW P, NEW R, PutFirst(n, q, P, R)
  PROVE  /\ Cardinality(P) \in Nat /\ Cardinality(R) = Cardinality(P) + 1
         /\ W!Place(R, q) = 1
         /\ \A c \in P : W!Place(R, c) = W!Place(P, c) + 1 /\ W!Place(P, c) \in 1..Cardinality(P)
<1> USE DEF PutFirst
<1>1. IsFiniteSet(1..n)
  BY FS_Interval
<1>2. \A S \in SUBSET (1..n) : IsFiniteSet(S) /\ Cardinality(S) \in Nat
  BY <1>1, FS_Subset, FS_CardinalityType
<1>3. ASSUME NEW S, S \subseteq P
      PROVE  Cardinality(S) \in Nat /\ Cardinality(S \cup {q}) = Cardinality(S) + 1
  <2>1. S \in SUBSET (1..n) /\ q \notin S
    BY <1>3
  <2>2. IsFiniteSet(S) /\ Cardinality(S) \in Nat
    BY <1>2, <2>1
  <2>3. Cardinality(S \cup {q}) = IF q \in S THEN Cardinality(S) ELSE Cardinality(S) + 1
    BY <2>2, FS_AddElement
  <2> QED BY <2>1, <2>2, <2>3
<1>4. {c \in R : c <= q} = {q}
  <2>1. q <= q /\ \A c \in P : ~(c <= q)
    OBVIOUS
  <2> QED BY <2>1
<1>5. Cardinality({q}) = 1
  BY FS_Singleton
<1>6. ASSUME NEW c \in P
      PROVE  W!Place(R, c) = W!Place(P, c) + 1 /\ W!Place(P, c) \in 1..Cardinality(P)
  <2> DEFINE S == {b \in P : b <= c}
  <2>1. {b \in R : b <= c} = S \cup {q}
    BY <1>6
  <2>2. S \in SUBSET P /\ c \in S /\ S \subseteq P
    BY <1>6
  <2>3. IsFiniteSet(S) /\ IsFiniteSet(P) /\ Cardinality(P) \in Nat
    BY <1>2, <2>2
  <2> HIDE DEF S
  <2>4. Cardinality(S) <= Cardinality(P)
    BY <2>2, <2>3, FS_Subset
  <2>5. Cardinality(S) # 0
    BY <2>2, <2>3, FS_EmptySet
  <2>6. Cardinality(S) \in Nat /\ Cardinality(S \cup {q}) = Cardinality(S) + 1
    BY <1>3, <2>2
  <2>7. W!Place(P, c) = Cardinality(S) /\ W!Place(R, c) = Cardinality(S \cup {q})
    BY <2>1, Counted DEF W!Place, S
  <2> QED BY <2>3, <2>4, <2>5, <2>6, <2>7
<1>7. R = P \cup {q}
  OBVIOUS
<1>8. Cardinality(P) \in Nat /\ Cardinality(P \cup {q}) = Cardinality(P) + 1
  BY <1>3
<1> QED BY <1>4, <1>5, <1>6, <1>7, <1>8, Counted DEF W!Place

\* Where the reader is after blanks.
LEMMA Skipped ==
  ASSUME NEW d, IsDocument(d), NEW p \in 1..Len(d) + 1
  PROVE  /\ W!SkipBlanks(d, p) \in p..Len(d) + 1
         /\ \A q \in p..W!SkipBlanks(d, p) - 1 : W!Is(d, q, "blank")
         /\ W!SkipBlanks(d, p) <= Len(d) => ~W!Is(d, W!SkipBlanks(d, p), "blank")
<1> DEFINE rest == {q \in p..Len(d) : d[q].node # "blank"}
<1>1. CASE rest = {}
  <2>1. W!SkipBlanks(d, p) = Len(d) + 1
    BY <1>1 DEF W!SkipBlanks
  <2>2. \A q \in p..Len(d) : d[q].node = "blank"
    BY <1>1
  <2> QED BY <2>1, <2>2 DEF IsDocument, W!Is
<1>2. CASE rest # {}
  <2>1. PICK m \in rest : \A q \in rest : m <= q
    <3>1. rest \subseteq Nat
      BY DEF IsDocument
    <3> QED BY <1>2, <3>1, Least
  <2>2. W!Min(rest) \in rest /\ \A q \in rest : W!Min(rest) <= q
    BY <2>1 DEF W!Min
  <2>3. W!SkipBlanks(d, p) = W!Min(rest)
    BY <1>2 DEF W!SkipBlanks
  <2> HIDE DEF rest
  <2> DEFINE m0 == W!Min(rest)
  <2> HIDE DEF m0
  <2>4. m0 \in rest /\ \A q \in rest : m0 <= q
    BY <2>2 DEF m0
  <2>5. m0 \in p..Len(d) /\ d[m0].node # "blank"
    BY <2>4 DEF rest
  <2>6. \A q \in p..m0 - 1 : d[q].node = "blank" /\ q <= Len(d)
    BY <2>4, <2>5 DEF rest, IsDocument
  <2> QED BY <2>3, <2>5, <2>6 DEF IsDocument, W!Is, m0
<1> QED BY <1>1, <1>2

-----------------------------------------------------------------------------
(* A loop over children                                                       *)

\* What is read of a child is read from there on, up to behind it, and there is
\* no other child inside.
Readable(d, child, item) ==
  \A q \in W!Elements(d, child) :
    /\ item[q].at \in q..Len(d) + 1
    /\ item[q].ok => /\ item[q].at > q
                     /\ \A r \in q + 1..item[q].at - 1 : r \notin W!Elements(d, child)

\* What is left to read decides what the loop reads: the function is there.
LEMMA LoopStep ==
  ASSUME NEW d, IsDocument(d), NEW child, NEW item, Readable(d, child, item)
  PROVE  \A p \in 1..Len(d) + 1 :
           W!Children(d, child, item)[p] = W!Taken(d, child, item, W!Children(d, child, item), p)
<1> DEFINE n == Len(d)
           Loops(k, g) == g = [p \in n + 2 - k..n + 1 |-> W!Taken(d, child, item, g, p)]
           T == {k \in 0..n + 1 : ~\E g : Loops(k, g)}
<1>0. n \in Nat
  BY DEF IsDocument
<1>1. ASSUME NEW p \in 1..n + 1, NEW g, NEW h, \A r \in p + 1..n + 1 : g[r] = h[r]
      PROVE  W!Taken(d, child, item, g, p) = W!Taken(d, child, item, h, p)
  <2> DEFINE q == W!SkipBlanks(d, p)
  <2>1. q \in p..n + 1
    BY Skipped
  <2>2. q \in W!Elements(d, child) /\ item[q].ok => g[item[q].at] = h[item[q].at]
    <3> SUFFICES ASSUME q \in W!Elements(d, child), item[q].ok
                 PROVE  item[q].at \in p + 1..n + 1
      BY <1>1
    <3>1. item[q].at \in q..n + 1 /\ item[q].at > q
      BY DEF Readable
    <3> QED BY <1>0, <2>1, <3>1
  <2> HIDE DEF q
  <2> QED BY <2>2 DEF W!Taken, q
<1>2. T = {}
  <2> SUFFICES ASSUME T # {} PROVE FALSE
    OBVIOUS
  <2>1. PICK k \in T : \A l \in T : k <= l
    <3>1. T \subseteq Nat
      BY <1>0
    <3> HIDE DEF T
    <3> QED BY <3>1, Least
  <2>0. k \in 0..n + 1
    OBVIOUS
  <2>2. k # 0
    <3>1. n + 2 - 0..n + 1 = {}
      BY <1>0
    <3>2. Loops(0, [p \in {} |-> 0])
      BY <3>1
    <3> QED BY <1>0, <3>2
  <2>3. PICK g : Loops(k - 1, g)
    <3>1. k - 1 \in 0..n + 1 /\ ~(k <= k - 1)
      BY <1>0, <2>0, <2>2
    <3>2. k - 1 \notin T
      <4> HIDE DEF T
      <4> QED BY <2>1, <3>1
    <3> QED BY <3>1, <3>2
  <2> DEFINE first == n + 2 - k
             h == [p \in first..n + 1 |-> IF p = first THEN W!Taken(d, child, item, g, p) ELSE g[p]]
  <2>4. k \in 1..n + 1 /\ first \in 1..n + 1 /\ n + 2 - (k - 1) = first + 1
    BY <1>0, <2>0, <2>2
  <2>5. ASSUME NEW r \in first + 1..n + 1
        PROVE  h[r] = g[r] /\ g[r] = W!Taken(d, child, item, g, r)
    <3>1. r \in n + 2 - (k - 1)..n + 1 /\ r \in first..n + 1 /\ r # first
      BY <1>0, <2>4
    <3> HIDE DEF first
    <3>2. h[r] = g[r]
      BY <3>1
    <3>3. g[r] = W!Taken(d, child, item, g, r)
      BY <2>3, <3>1
    <3> QED BY <3>2, <3>3
  <2>6. ASSUME NEW p \in first..n + 1 PROVE h[p] = W!Taken(d, child, item, h, p)
    <3> HIDE DEF h
    <3>1. \A r \in p + 1..n + 1 : r \in first + 1..n + 1
      BY <1>0, <2>4
    <3>2. \A r \in p + 1..n + 1 : g[r] = h[r]
      BY <2>5, <3>1
    <3>3. p \in 1..n + 1
      BY <1>0, <2>4
    <3>4. W!Taken(d, child, item, g, p) = W!Taken(d, child, item, h, p)
      BY <1>1, <3>2, <3>3
    <3>5. h[p] = W!Taken(d, child, item, g, p)
      <4>1. CASE p = first
        BY <4>1 DEF h
      <4>2. CASE p # first
        <5>1. p \in first + 1..n + 1
          BY <1>0, <2>4, <4>2
        <5> QED BY <2>5, <5>1
      <4> QED BY <4>1, <4>2
    <3> QED BY <3>4, <3>5
  <2>7. Loops(k, h)
    BY <2>6
  <2> QED BY <2>7
<1>3. PICK g : g = [p \in 1..n + 1 |-> W!Taken(d, child, item, g, p)]
  <2>1. n + 1 \in 0..n + 1 /\ n + 2 - (n + 1) = 1
    BY <1>0
  <2>2. PICK g : Loops(n + 1, g)
    BY <1>2, <2>1
  <2> QED BY <2>1, <2>2
<1>4. W!Children(d, child, item) =
        [p \in 1..n + 1 |-> W!Taken(d, child, item, W!Children(d, child, item), p)]
  BY <1>3 DEF W!Children
<1> QED BY <1>4

\* The children from a on and before b.
Between(d, child, a, b) == {q \in W!Elements(d, child) : a <= q /\ q < b}

\* What the loop has read when it is content: the children up to where it is, in
\* their order, with nothing but blanks around them.
Reads(d, child, item, p, read) ==
  LET P == Between(d, child, p, read.at)
  IN /\ ~W!Is(d, read.at, "element")
     /\ Len(read.items) = Cardinality(P)
     /\ \A q \in P : item[q].ok /\ read.items[W!Place(P, q)] = item[q].item
     /\ \A r \in p..read.at - 1 :
          W!Is(d, r, "blank") \/ r \in P \/ \E q \in P : q < r /\ r < item[q].at

ReadFrom(d, child, item, S, p) ==
  LET read == W!Children(d, child, item)[p]
  IN /\ read.at \in p..Len(d) + 1
     /\ read.items \in Seq(S)
     /\ read.ok => Reads(d, child, item, p, read)

\* What the loop reads from a place on, when it reads so from those behind.
LEMMA LoopReadsOne ==
  ASSUME NEW d, IsDocument(d), NEW child, NEW item, Readable(d, child, item),
         NEW S, \A q \in W!Elements(d, child) : item[q].ok => item[q].item \in S,
         NEW p \in 1..Len(d) + 1,
         \A r \in p + 1..Len(d) + 1 : ReadFrom(d, child, item, S, r)
  PROVE  ReadFrom(d, child, item, S, p)
<1> DEFINE n == Len(d)
           q == W!SkipBlanks(d, p)
           C == W!Children(d, child, item)
           read == C[p]
<1>0. n \in Nat /\ <<>> \in Seq(S) /\ Len(<<>>) = 0
  BY DEF IsDocument
<1>1. /\ q \in p..n + 1
      /\ \A r \in p..q - 1 : W!Is(d, r, "blank")
  BY Skipped
<1>2. read = W!Taken(d, child, item, C, p)
  BY LoopStep
<1>3. \A r \in p..q - 1 : r \notin W!Elements(d, child)
  BY <1>1 DEF W!Elements, W!Is
<1>4. W!Elements(d, child) \subseteq 1..n
  BY DEF W!Elements, IsDocument
<1> HIDE DEF q, C
<1>5. CASE ~W!Is(d, q, "element")
  <2>1. read = [ok |-> TRUE, at |-> q, items |-> <<>>]
    BY <1>2, <1>5 DEF W!Taken, W!Stopped, q
  <2>2. Between(d, child, p, q) = {}
    BY <1>0, <1>1, <1>3, <1>4 DEF Between
  <2>3. Cardinality({}) = 0
    BY FS_EmptySet
  <2> HIDE DEF read
  <2>4. Reads(d, child, item, p, read)
    BY <1>0, <1>1, <1>5, <2>1, <2>2, <2>3 DEF Reads
  <2> QED BY <1>0, <1>1, <2>1, <2>4 DEF ReadFrom, read, C
<1>6. CASE W!Is(d, q, "element") /\ ~(q \in W!Elements(d, child) /\ item[q].ok)
  <2>1. \/ q \notin W!Elements(d, child) /\ read = [ok |-> FALSE, at |-> q, items |-> <<>>]
        \/ q \in W!Elements(d, child) /\ read = [ok |-> FALSE, at |-> item[q].at, items |-> <<>>]
    BY <1>2, <1>6 DEF W!Taken, W!Stopped, q
  <2>2. q \in W!Elements(d, child) => item[q].at \in q..n + 1
    BY DEF Readable
  <2> HIDE DEF read
  <2>3. read.ok = FALSE /\ read.at \in q..n + 1 /\ read.items = <<>>
    BY <1>0, <1>1, <2>1, <2>2
  <2>4. read.at \in p..n + 1
    BY <1>0, <1>1, <2>3
  <2> QED BY <1>0, <2>3, <2>4 DEF ReadFrom, read, C
<1>7. CASE W!Is(d, q, "element") /\ q \in W!Elements(d, child) /\ item[q].ok
  <2> DEFINE m == item[q].at
             rest == C[m]
  <2>1. /\ m \in q + 1..n + 1
        /\ \A r \in q + 1..m - 1 : r \notin W!Elements(d, child)
    <3>1. /\ m \in q..n + 1 /\ m > q
          /\ \A r \in q + 1..m - 1 : r \notin W!Elements(d, child)
      BY <1>7 DEF Readable
    <3> HIDE DEF m
    <3> QED BY <1>0, <1>1, <3>1
  <2>2. read = [ok |-> rest.ok, at |-> rest.at, items |-> <<item[q].item>> \o rest.items]
    BY <1>2, <1>7 DEF W!Taken, q
  <2>3. ReadFrom(d, child, item, S, m)
    <3>1. m \in p + 1..n + 1
      <4> HIDE DEF m
      <4> QED BY <1>0, <1>1, <2>1
    <3> QED BY <3>1
  <2> DEFINE P == Between(d, child, p, read.at)
             Q == Between(d, child, m, rest.at)
             e == item[q].item
  <2>4. rest.at \in m..n + 1 /\ rest.items \in Seq(S) /\ e \in S
    BY <1>7, <2>3 DEF ReadFrom, C
  <2> HIDE DEF read, rest, m, e
  <2>5. /\ read.ok = rest.ok /\ read.at = rest.at /\ read.items = <<e>> \o rest.items
        /\ read.at \in p..n + 1
    BY <1>0, <1>1, <2>1, <2>2, <2>4 DEF e
  <2>6. /\ read.items \in Seq(S) /\ Len(read.items) = Len(rest.items) + 1 /\ read.items[1] = e
        /\ \A i \in 1..Len(rest.items) : read.items[i + 1] = rest.items[i]
        /\ Len(rest.items) \in Nat
    BY <2>4, <2>5
  <2>7. ASSUME rest.ok PROVE Reads(d, child, item, p, read)
    <3>1. Reads(d, child, item, m, rest)
      BY <2>3, <2>7 DEF ReadFrom, rest, C
    <3>2. P = {q} \cup Q
      <4>1. ASSUME NEW r \in P PROVE r \in {q} \cup Q
        <5>1. r \in 1..n /\ r \in W!Elements(d, child) /\ p <= r /\ r < rest.at
          BY <1>4, <2>5 DEF Between
        <5>2. r \notin p..q - 1 /\ r \notin q + 1..m - 1
          BY <1>3, <2>1, <5>1
        <5>3. r = q \/ m <= r
          BY <1>0, <1>1, <2>1, <5>1, <5>2
        <5> QED BY <5>1, <5>3 DEF Between
      <4>2. ASSUME NEW r \in {q} \cup Q PROVE r \in P
        <5>1. r \in W!Elements(d, child) /\ r \in 1..n
          BY <1>4, <1>7, <4>2 DEF Between
        <5>2. p <= r /\ r < rest.at
          BY <1>0, <1>1, <2>1, <2>4, <4>2, <5>1 DEF Between
        <5> QED BY <2>5, <5>1, <5>2 DEF Between
      <4> QED BY <4>1, <4>2
    <3>3. Q \subseteq 1..n /\ q \in 1..n /\ \A c \in Q : q < c
      BY <1>0, <1>1, <1>4, <1>7, <2>1 DEF Between
    <3> HIDE DEF P, Q
    <3>4. /\ Cardinality(P) = Cardinality(Q) + 1 /\ W!Place(P, q) = 1
          /\ \A c \in Q : /\ W!Place(P, c) = W!Place(Q, c) + 1
                          /\ W!Place(Q, c) \in 1..Cardinality(Q)
      <4>1. PutFirst(n, q, Q, P)
        BY <1>0, <3>2, <3>3 DEF PutFirst
      <4> QED BY <4>1, OnePlaceMore
    <3>5. /\ ~W!Is(d, rest.at, "element")
          /\ Len(rest.items) = Cardinality(Q)
          /\ \A r \in Q : item[r].ok /\ rest.items[W!Place(Q, r)] = item[r].item
          /\ \A r \in m..rest.at - 1 :
               W!Is(d, r, "blank") \/ r \in Q \/ \E b \in Q : b < r /\ r < item[b].at
      BY <3>1 DEF Reads, Q
    <3>6. Len(read.items) = Cardinality(P)
      BY <2>6, <3>4, <3>5
    <3>7. ASSUME NEW r \in P PROVE item[r].ok /\ read.items[W!Place(P, r)] = item[r].item
      <4>1. CASE r = q
        BY <1>7, <2>6, <3>4, <4>1 DEF e
      <4>2. CASE r \in Q
        BY <2>6, <3>4, <3>5, <4>2
      <4> QED BY <3>2, <4>1, <4>2
    <3>8. ASSUME NEW r \in p..read.at - 1
          PROVE  W!Is(d, r, "blank") \/ r \in P \/ \E b \in P : b < r /\ r < item[b].at
      <4>1. CASE r < q
        BY <1>0, <1>1, <4>1
      <4>2. CASE r = q
        BY <3>2, <4>2
      <4>3. CASE q < r /\ r < m
        BY <3>2, <4>3 DEF m
      <4>4. CASE m <= r
        <5>1. r \in m..rest.at - 1
          BY <1>0, <1>1, <2>1, <2>4, <2>5, <4>4
        <5> QED BY <3>2, <3>5, <5>1
      <4> QED BY <1>0, <1>1, <2>1, <2>5, <4>1, <4>2, <4>3, <4>4
    <3> QED BY <2>5, <3>5, <3>6, <3>7, <3>8 DEF Reads, P
  <2> QED BY <2>5, <2>6, <2>7 DEF ReadFrom, read, C
<1> QED BY <1>5, <1>6, <1>7

\* So it is wherever the loop begins.
LEMMA LoopReads ==
  ASSUME NEW d, IsDocument(d), NEW child, NEW item, Readable(d, child, item),
         NEW S, \A q \in W!Elements(d, child) : item[q].ok => item[q].item \in S
  PROVE  \A p \in 1..Len(d) + 1 : ReadFrom(d, child, item, S, p)
<1> DEFINE n == Len(d)
           T == {k \in 0..n : ~ReadFrom(d, child, item, S, n + 1 - k)}
<1>0. n \in Nat
  BY DEF IsDocument
<1>1. T = {}
  <2> SUFFICES ASSUME T # {} PROVE FALSE
    OBVIOUS
  <2>1. PICK k \in T : \A l \in T : k <= l
    <3>1. T \subseteq Nat
      BY <1>0
    <3> HIDE DEF T
    <3> QED BY <3>1, Least
  <2>2. k \in 0..n /\ ~ReadFrom(d, child, item, S, n + 1 - k)
    OBVIOUS
  <2>3. ASSUME NEW r \in n + 1 - k + 1..n + 1 PROVE ReadFrom(d, child, item, S, r)
    <3>1. n + 1 - r \in 0..n /\ ~(k <= n + 1 - r) /\ n + 1 - (n + 1 - r) = r
      BY <1>0, <2>2
    <3>2. n + 1 - r \notin T
      <4> HIDE DEF T
      <4> QED BY <2>1, <3>1
    <3> QED BY <3>1, <3>2
  <2>4. n + 1 - k \in 1..n + 1
    BY <1>0, <2>2
  <2> QED BY <2>2, <2>3, <2>4, LoopReadsOne
<1>2. ASSUME NEW p \in 1..n + 1 PROVE ReadFrom(d, child, item, S, p)
  <2>1. n + 1 - p \in 0..n /\ n + 1 - (n + 1 - p) = p
    BY <1>0
  <2> QED BY <1>1, <2>1
<1> QED BY <1>2

\* A loop whose way from one child to the next leads to E reads all there is.
LEMMA Whole ==
  ASSUME NEW d, IsDocument(d), NEW child, NEW item, Readable(d, child, item),
         NEW G, G \subseteq 1..Len(d) + 1, NEW E,
         \A p \in G :
           LET q == W!SkipBlanks(d, p)
           IN \/ q \in E /\ ~W!Is(d, q, "element")
              \/ /\ W!Is(d, q, "element") /\ q \in W!Elements(d, child)
                 /\ item[q].ok /\ item[q].at \in G
  PROVE  \A p \in G :
           W!Children(d, child, item)[p].ok /\ W!Children(d, child, item)[p].at \in E
<1> DEFINE n == Len(d)
           C == W!Children(d, child, item)
           Goes(p) == C[p].ok /\ C[p].at \in E
           T == {k \in 0..n : n + 1 - k \in G /\ ~Goes(n + 1 - k)}
<1>0. n \in Nat
  BY DEF IsDocument
<1>1. ASSUME NEW p \in G, \A r \in G : p < r => Goes(r)
      PROVE  Goes(p)
  <2> DEFINE q == W!SkipBlanks(d, p)
  <2>1. p \in 1..n + 1 /\ q \in p..n + 1
    BY Skipped
  <2>2. C[p] = W!Taken(d, child, item, C, p)
    BY LoopStep
  <2>3. CASE q \in E /\ ~W!Is(d, q, "element")
    <3>1. C[p] = [ok |-> TRUE, at |-> q, items |-> <<>>]
      <4> HIDE DEF C
      <4> QED BY <2>2, <2>3 DEF W!Taken, W!Stopped
    <3> QED BY <2>3, <3>1
  <2>4. CASE /\ W!Is(d, q, "element") /\ q \in W!Elements(d, child)
             /\ item[q].ok /\ item[q].at \in G
    <3> DEFINE m == item[q].at
    <3>1. m \in G /\ p < m
      <4>1. m > q /\ m \in G /\ G \subseteq 1..n + 1
        BY <2>4 DEF Readable
      <4> HIDE DEF m, q
      <4> QED BY <1>0, <2>1, <4>1
    <3>2. Goes(m)
      BY <1>1, <3>1
    <3>3. C[p].ok = C[m].ok /\ C[p].at = C[m].at
      <4> HIDE DEF C
      <4> QED BY <2>2, <2>4 DEF W!Taken
    <3> QED BY <3>2, <3>3
  <2> QED BY <2>3, <2>4
<1>2. T = {}
  <2> SUFFICES ASSUME T # {} PROVE FALSE
    OBVIOUS
  <2>1. PICK k \in T : \A l \in T : k <= l
    <3>1. T \subseteq Nat
      BY <1>0
    <3> HIDE DEF T
    <3> QED BY <3>1, Least
  <2>2. k \in 0..n /\ n + 1 - k \in G /\ ~Goes(n + 1 - k)
    OBVIOUS
  <2>3. ASSUME NEW r \in G, n + 1 - k < r PROVE Goes(r)
    <3>1. r \in 1..n + 1
      OBVIOUS
    <3>2. n + 1 - r \in 0..n /\ ~(k <= n + 1 - r) /\ n + 1 - (n + 1 - r) = r
      BY <1>0, <2>2, <2>3, <3>1
    <3>3. n + 1 - r \notin T
      <4> HIDE DEF T
      <4> QED BY <2>1, <3>2
    <3> HIDE DEF Goes
    <3> QED BY <3>2, <3>3
  <2> HIDE DEF Goes
  <2> QED BY <1>1, <2>2, <2>3
<1>3. ASSUME NEW p \in G PROVE Goes(p)
  <2>0. p \in 1..n + 1
    OBVIOUS
  <2>1. n + 1 - p \in 0..n /\ n + 1 - (n + 1 - p) = p
    BY <1>0, <2>0
  <2> HIDE DEF Goes
  <2> QED BY <1>2, <2>1
<1> QED BY <1>3

-----------------------------------------------------------------------------
(* The children of a message                                                  *)

\* The sections read from p on are those up to where the loop ends, and there
\* is nothing else but blanks.
LEMMA SectionsAre ==
  ASSUME NEW d, IsDocument(d), NEW f, NEW p \in 1..Len(d) + 1
  PROVE  LET sections == W!Sections(d, f)[p]
             P == Between(d, "section", p, sections.at)
         IN /\ sections.at \in p..Len(d) + 1
            /\ sections.ok =>
                 /\ Len(sections.items) = Cardinality(P)
                 /\ \A q \in P : /\ W!Has(d[q], f.section)
                                 /\ sections.items[W!Place(P, q)] = W!Fields(d[q], f.section)
                 /\ \A r \in p..sections.at - 1 : W!Is(d, r, "blank") \/ r \in P
<1> DEFINE item == [q \in W!Elements(d, "section") |-> W!Leaf(d, f.section, q)]
           S == {item[q].item : q \in W!Elements(d, "section")}
           sections == W!Sections(d, f)[p]
           P == Between(d, "section", p, sections.at)
<1>0. Len(d) \in Nat /\ W!Elements(d, "section") \subseteq 1..Len(d)
  BY DEF IsDocument, W!Elements
<1>1. ASSUME NEW q \in W!Elements(d, "section")
      PROVE  /\ item[q].ok <=> W!Has(d[q], f.section)
             /\ item[q].ok => item[q].at = q + 1 /\ item[q].item = W!Fields(d[q], f.section)
             /\ ~item[q].ok => item[q].at = q
  <2>1. item[q] = W!Leaf(d, f.section, q)
    OBVIOUS
  <2> HIDE DEF item
  <2>2. W!Has(d[q], f.section) \in BOOLEAN
    BY DEF W!Has
  <2>3. CASE W!Has(d[q], f.section)
    BY <2>1, <2>3 DEF W!Leaf
  <2>4. CASE ~W!Has(d[q], f.section)
    BY <2>1, <2>2, <2>4 DEF W!Leaf, W!Stopped
  <2> QED BY <2>3, <2>4
<1>2. Readable(d, "section", item)
  <2>1. ASSUME NEW q \in W!Elements(d, "section")
        PROVE  item[q].at \in q..Len(d) + 1 /\ (item[q].ok => item[q].at = q + 1)
    <3>1. q \in 1..Len(d)
      BY <1>0
    <3> HIDE DEF item
    <3> QED BY <1>0, <1>1, <3>1
  <2> HIDE DEF item
  <2> QED BY <1>0, <2>1 DEF Readable
<1>3. sections = W!Children(d, "section", item)[p]
  BY DEF W!Sections
<1>4. ReadFrom(d, "section", item, S, p)
  <2>1. \A q \in W!Elements(d, "section") : item[q].ok => item[q].item \in S
    OBVIOUS
  <2> HIDE DEF item, S
  <2> QED BY <1>2, <2>1, LoopReads
<1> HIDE DEF item, S, sections
<1>5. sections.at \in p..Len(d) + 1 /\ (sections.ok => Reads(d, "section", item, p, sections))
  BY <1>3, <1>4 DEF ReadFrom
<1>6. ASSUME sections.ok
      PROVE  /\ Len(sections.items) = Cardinality(P)
             /\ \A q \in P : /\ W!Has(d[q], f.section)
                             /\ sections.items[W!Place(P, q)] = W!Fields(d[q], f.section)
             /\ \A r \in p..sections.at - 1 : W!Is(d, r, "blank") \/ r \in P
  <2>1. /\ Len(sections.items) = Cardinality(P)
        /\ \A q \in P : item[q].ok /\ sections.items[W!Place(P, q)] = item[q].item
        /\ \A r \in p..sections.at - 1 :
             W!Is(d, r, "blank") \/ r \in P \/ \E q \in P : q < r /\ r < item[q].at
    BY <1>5, <1>6 DEF Reads
  <2>2. \A q \in P : q \in W!Elements(d, "section") /\ q \in Int
    BY <1>0 DEF Between
  <2>3. \A r \in p..sections.at - 1 : ~\E q \in P : q < r /\ r < item[q].at
    BY <1>1, <2>1, <2>2
  <2> HIDE DEF P
  <2> QED BY <1>1, <2>1, <2>2, <2>3
<1> QED BY <1>5, <1>6 DEF sections

\* A format of which the children's sections are no children themselves.
IsFormat(f) == f.section # {} => f.child # "section"

\* What is read of a child.
ItemOf(d, f) ==
  [q \in W!Elements(d, f.child) |-> IF f.section = {} THEN W!Card(d, f, q) ELSE W!File(d, f, q)]

\* A child is read up to behind its end, and what is read is what it says.
LEMMA ItemSays ==
  ASSUME NEW d, IsDocument(d), NEW f, IsFormat(f), NEW q \in W!Elements(d, f.child)
  PROVE  LET item == ItemOf(d, f)[q]
         IN /\ item.at \in q..Len(d) + 1
            /\ item.ok => /\ item.at > q /\ W!Has(d[q], f.fields)
                          /\ \A r \in q + 1..item.at - 1 : r \notin W!Elements(d, f.child)
                          /\ W!Says(d, f, q, item.item)
<1> DEFINE n == Len(d)
           item == ItemOf(d, f)[q]
<1>0. n \in Nat /\ W!Elements(d, f.child) \subseteq 1..n /\ q \in 1..n /\ DOMAIN d = 1..n
  BY DEF IsDocument, W!Elements
<1>1. W!Has(d[q], f.fields) \in BOOLEAN
  BY DEF W!Has
<1>2. CASE f.section = {}
  <2>1. item = W!Card(d, f, q)
    BY <1>2 DEF ItemOf
  <2> HIDE DEF item, n
  <2>2. CASE ~W!Has(d[q], f.fields)
    <3>1. item.ok = FALSE /\ item.at = q
      BY <2>1, <2>2 DEF W!Card, W!Stopped
    <3> QED BY <1>0, <3>1 DEF item, n
  <2>3. CASE W!Has(d[q], f.fields)
    <3>1. /\ item.at = q + 1
          /\ item.item = [of |-> W!Fields(d[q], f.fields), sections |-> <<>>]
      BY <2>1, <2>3 DEF W!Card
    <3>2. W!SectionsOf(d, f, q) = {} /\ W!Cardinality({}) = 0
      BY <1>2, Counted, FS_EmptySet DEF W!SectionsOf
    <3>3. W!Says(d, f, q, item.item)
      BY <3>1, <3>2 DEF W!Says
    <3>4. item.at \in q..n + 1 /\ item.at > q /\ q + 1..item.at - 1 = {}
      BY <1>0, <3>1
    <3> QED BY <2>3, <3>3, <3>4 DEF item, n
  <2> QED BY <2>2, <2>3
<1>3. CASE f.section # {}
  <2> DEFINE sections == W!Sections(d, f)[q + 1]
             end == sections.at
             P == Between(d, "section", q + 1, end)
  <2>1. item = W!File(d, f, q)
    BY <1>3 DEF ItemOf
  <2>2. /\ end \in q + 1..n + 1
        /\ sections.ok =>
             /\ Len(sections.items) = Cardinality(P)
             /\ \A c \in P : /\ W!Has(d[c], f.section)
                             /\ sections.items[W!Place(P, c)] = W!Fields(d[c], f.section)
             /\ \A r \in q + 1..end - 1 : W!Is(d, r, "blank") \/ r \in P
    <3>1. q + 1 \in 1..Len(d) + 1
      BY <1>0
    <3> QED BY <3>1, SectionsAre
  <2> HIDE DEF item, n, sections
  <2>3. CASE /\ W!Has(d[q], f.fields) /\ sections.ok
             /\ W!Is(d, end, "end") /\ d[end].name = f.child
    <3>1. /\ item.at = end + 1
          /\ item.item = [of |-> W!Fields(d[q], f.fields), sections |-> sections.items]
      BY <2>1, <2>3 DEF W!File, sections
    <3>2. end \in 1..n /\ d[end].node = "end"
      BY <1>0, <2>2, <2>3 DEF W!Is, n
    <3>3. \A c \in P : c \in 1..n /\ q + 1 <= c /\ c < end /\ d[c].node = "element" /\ d[c].name = "section"
      BY <1>0 DEF Between, W!Elements, W!Is
    <3>4. ASSUME NEW r \in q + 1..end - 1
          PROVE  ~W!Named(d, r, f.child) /\ r \notin W!Elements(d, f.child)
      <4>1. CASE W!Is(d, r, "blank")
        BY <4>1 DEF W!Is, W!Named, W!Elements
      <4>2. CASE r \in P
        <5>1. d[r].name # f.child
          BY <1>3, <3>3, <4>2 DEF IsFormat
        <5> QED BY <5>1 DEF W!Named, W!Elements
      <4> QED BY <2>2, <2>3, <4>1, <4>2
    <3>5. end \notin W!Elements(d, f.child)
      BY <3>2 DEF W!Elements, W!Is
    <3>6. W!Named(d, end, f.child)
      BY <2>3, <3>2 DEF W!Named
    <3>7. W!SectionsOf(d, f, q) = P
      <4>1. W!SectionsOf(d, f, q) =
              {c \in W!Complete(d, "section", f.section) :
                 c > q /\ \A r \in q + 1..c : ~W!Named(d, r, f.child)}
        BY <1>3 DEF W!SectionsOf
      <4>2. ASSUME NEW c \in W!SectionsOf(d, f, q) PROVE c \in P
        <5>1. /\ c \in W!Elements(d, "section") /\ c > q
              /\ \A r \in q + 1..c : ~W!Named(d, r, f.child)
          BY <4>1, <4>2 DEF W!Complete
        <5>2. c \in 1..n
          BY <1>0, <5>1 DEF W!Elements
        <5>3. end \notin q + 1..c
          BY <3>6, <5>1
        <5>4. q + 1 <= c /\ c < end
          BY <1>0, <2>2, <5>1, <5>2, <5>3
        <5> QED BY <5>1, <5>4 DEF Between
      <4>3. ASSUME NEW c \in P PROVE c \in W!SectionsOf(d, f, q)
        <5>1. c \in W!Complete(d, "section", f.section)
          BY <2>2, <2>3, <4>3 DEF W!Complete, Between
        <5>2. c > q /\ \A r \in q + 1..c : r \in q + 1..end - 1
          BY <1>0, <3>2, <3>3
        <5>3. \A r \in q + 1..c : ~W!Named(d, r, f.child)
          BY <3>4, <5>2
        <5> QED BY <4>1, <5>1, <5>2, <5>3
      <4> QED BY <4>2, <4>3
    <3>8. W!Says(d, f, q, item.item)
      <4> HIDE DEF P, end
      <4> QED BY <2>2, <2>3, <3>1, <3>7, Counted DEF W!Says
    <3>9. \A r \in q + 1..item.at - 1 : r \notin W!Elements(d, f.child)
      <4>1. \A r \in q + 1..item.at - 1 : r \in q + 1..end - 1 \/ r = end
        BY <1>0, <3>1, <3>2
      <4> QED BY <3>4, <3>5, <4>1
    <3>10. item.at \in q..n + 1 /\ item.at > q
      BY <1>0, <2>2, <3>1, <3>2
    <3> QED BY <2>3, <3>8, <3>9, <3>10 DEF item, n
  <2>4. CASE ~(/\ W!Has(d[q], f.fields) /\ sections.ok
               /\ W!Is(d, end, "end") /\ d[end].name = f.child)
    <3>1. item.ok = FALSE /\ item.at \in {q, end}
      BY <2>1, <2>4 DEF W!File, W!Stopped, sections
    <3>2. item.at \in q..n + 1
      BY <1>0, <2>2, <3>1
    <3> QED BY <3>1, <3>2 DEF item, n
  <2> QED BY <2>3, <2>4
<1> QED BY <1>2, <1>3

\* Of some places those before a given one are the first.
Upto(n, A, at, P) == n \in Nat /\ A \subseteq 1..n /\ at \in Int /\ P = {q \in A : q < at}

LEMMA Before ==
  ASSUME NEW n, NEW A, NEW at, NEW P, Upto(n, A, at, P)
  PROVE  /\ Cardinality(P) \in Nat /\ Cardinality(A) \in Nat /\ Cardinality(P) <= Cardinality(A)
         /\ \A p \in A : W!Place(A, p) \in Nat
         /\ \A p \in P : W!Place(A, p) = W!Place(P, p)
         /\ \A p \in A : p \notin P => W!Place(A, p) > Cardinality(P)
<1> USE DEF Upto
<1>1. \A S \in SUBSET (1..n) : IsFiniteSet(S) /\ Cardinality(S) \in Nat
  <2>1. IsFiniteSet(1..n)
    BY FS_Interval
  <2> QED BY <2>1, FS_Subset, FS_CardinalityType
<1>2. P \subseteq A /\ P \subseteq 1..n
  OBVIOUS
<1>3. Cardinality(P) <= Cardinality(A)
  BY <1>1, <1>2, FS_Subset
<1>4. ASSUME NEW p \in P PROVE W!Place(A, p) = W!Place(P, p)
  <2>1. p \in 1..n /\ p < at
    BY <1>4
  <2>2. \A q \in A : q <= p => q \in P
    <3>1. \A q \in 1..n : q <= p => q < at
      BY <2>1
    <3> QED BY <3>1
  <2>3. {q \in A : q <= p} = {q \in P : q <= p}
    BY <1>2, <2>2
  <2> QED BY <2>3 DEF W!Place
<1>5. ASSUME NEW p \in A, p \notin P PROVE W!Place(A, p) > Cardinality(P)
  <2> DEFINE Q == {q \in A : q <= p}
  <2>1. P \subseteq Q /\ p \in Q /\ Q \subseteq 1..n
    <3>1. p \in 1..n /\ ~(p < at)
      BY <1>5
    <3>2. \A q \in P : q \in A /\ q \in 1..n /\ q < at
      OBVIOUS
    <3>3. \A q \in 1..n : q < at => q <= p
      BY <3>1
    <3>4. p <= p
      BY <3>1
    <3>5. \A q \in P : q \in Q
      BY <3>2, <3>3
    <3>6. A \subseteq 1..n
      OBVIOUS
    <3> QED BY <3>4, <3>5, <3>6
  <2>2. IsFiniteSet(P) /\ IsFiniteSet(Q) /\ Cardinality(P) \in Nat /\ Cardinality(Q) \in Nat
    BY <1>1, <1>2, <2>1
  <2>3. W!Place(A, p) = Cardinality(Q)
    BY Counted DEF W!Place
  <2> HIDE DEF Q
  <2>4. Cardinality(P) <= Cardinality(Q)
    BY <2>1, <2>2, FS_Subset
  <2>5. Cardinality(P) = Cardinality(Q) => P = Q
    BY <2>1, <2>2, FS_Subset
  <2>6. Cardinality(P) # Cardinality(Q)
    BY <1>5, <2>1, <2>5
  <2> QED BY <2>2, <2>3, <2>4, <2>6
<1>6. ASSUME NEW p \in A PROVE W!Place(A, p) \in Nat
  <2>1. {q \in A : q <= p} \in SUBSET (1..n)
    OBVIOUS
  <2>2. Cardinality({q \in A : q <= p}) \in Nat
    BY <1>1, <2>1
  <2> QED BY <2>2, Counted DEF W!Place
<1>7. A \in SUBSET (1..n)
  OBVIOUS
<1> QED BY <1>1, <1>2, <1>3, <1>4, <1>5, <1>6, <1>7

\* What is read of a child is read from there on.
LEMMA ItemsReadable ==
  ASSUME NEW d, IsDocument(d), NEW f, IsFormat(f)
  PROVE  Readable(d, f.child, ItemOf(d, f))
BY ItemSays DEF Readable

\* What is read of a message's children tells the first of them, and all of
\* them when it was read to the end of the document or its last node.
LEMMA ItemsTell ==
  ASSUME NEW d, IsDocument(d), NEW f, IsFormat(f), f.child # "none",
         W!Is(d, W!SkipBlanks(d, 1), "element")
  PROVE  LET root == W!SkipBlanks(d, 1)
             read == W!Items(d, f)[root + 1]
         IN /\ read.at \in root + 1..Len(d) + 1
            /\ read.ok => W!Tells(d, f, read.items)
            /\ read.ok /\ read.at \in {Len(d), Len(d) + 1} => W!Means(d, f, read.items)
<1> DEFINE n == Len(d)
           root == W!SkipBlanks(d, 1)
           item == ItemOf(d, f)
           read == W!Items(d, f)[root + 1]
           S == {item[q].item : q \in W!Elements(d, f.child)}
           P == Between(d, f.child, root + 1, read.at)
           all == W!ChildrenOf(d, f)
<1>0. n \in Nat /\ W!Elements(d, f.child) \subseteq 1..n
  BY DEF IsDocument, W!Elements
<1>1. root \in 1..n /\ root + 1 \in 1..n + 1
  <2>1. root \in 1..n + 1
    <3>1. 1 \in 1..n + 1
      BY <1>0
    <3> HIDE DEF root
    <3> QED BY <3>1, Skipped DEF root
  <2>2. root <= n
    BY DEF W!Is
  <2> HIDE DEF root, n
  <2> QED BY <1>0, <2>1, <2>2
<1>2. ReadFrom(d, f.child, item, S, root + 1)
  <2>1. \A q \in W!Elements(d, f.child) : item[q].ok => item[q].item \in S
    OBVIOUS
  <2> HIDE DEF item, S, root
  <2>2. Readable(d, f.child, item)
    BY ItemsReadable DEF item
  <2> QED BY <1>1, <2>1, <2>2, LoopReads
<1>3. read = W!Children(d, f.child, item)[root + 1]
  BY DEF W!Items, ItemOf
<1>4. read.at \in root + 1..n + 1 /\ (read.ok => Reads(d, f.child, item, root + 1, read))
  BY <1>2, <1>3 DEF ReadFrom
<1>5. ASSUME read.ok
      PROVE  /\ W!Tells(d, f, read.items)
             /\ read.at \in {n, n + 1} => W!Means(d, f, read.items)
  <2> HIDE DEF item, read
  <2>1. /\ Len(read.items) = Cardinality(P)
        /\ \A q \in P : item[q].ok /\ read.items[W!Place(P, q)] = item[q].item
        /\ ~W!Is(d, read.at, "element")
    BY <1>4, <1>5 DEF Reads
  <2>2. all = {q \in W!Elements(d, f.child) : W!Has(d[q], f.fields) /\ root < q}
    BY DEF W!ChildrenOf, W!Complete
  <2>3. all \subseteq 1..n
    BY <1>0, <2>2
  <2>4. ASSUME NEW q \in P
        PROVE  q \in W!Elements(d, f.child) /\ W!Has(d[q], f.fields) /\ W!Says(d, f, q, item[q].item)
    BY <2>1, <2>4, ItemSays DEF Between, item
  <2>5. P = {q \in all : q < read.at}
    <3>1. ASSUME NEW q \in P PROVE q \in all /\ q < read.at
      <4>1. q \in 1..n /\ root + 1 <= q /\ q < read.at
        BY <1>0 DEF Between
      <4> HIDE DEF P, all, root
      <4>2. root < q
        BY <1>1, <4>1
      <4> QED BY <2>2, <2>4, <4>1, <4>2 DEF root
    <3>2. ASSUME NEW q \in all, q < read.at PROVE q \in P
      <4>1. q \in W!Elements(d, f.child) /\ q \in 1..n /\ root < q
        BY <1>0, <2>2
      <4> HIDE DEF root, all
      <4>2. root + 1 <= q
        BY <1>1, <4>1
      <4> QED BY <3>2, <4>1, <4>2 DEF Between
    <3> HIDE DEF P, all
    <3> QED BY <3>1, <3>2
  <2> HIDE DEF P, all
  <2>6. /\ Cardinality(P) \in Nat /\ Cardinality(all) \in Nat /\ Cardinality(P) <= Cardinality(all)
        /\ \A p \in all : W!Place(all, p) \in Nat
        /\ \A p \in P : W!Place(all, p) = W!Place(P, p)
        /\ \A p \in all : p \notin P => W!Place(all, p) > Cardinality(P)
    <3>1. read.at \in Int
      BY <1>0, <1>1, <1>4
    <3>2. Upto(n, all, read.at, P)
      BY <1>0, <2>3, <2>5, <3>1 DEF Upto
    <3> QED BY <3>2, Before
  <2>7. W!Tells(d, f, read.items)
    <3>1. Len(read.items) <= W!Cardinality(all)
      BY <2>1, <2>6, Counted
    <3>2. ASSUME NEW p \in all, W!Place(all, p) <= Len(read.items)
          PROVE  W!Says(d, f, p, read.items[W!Place(all, p)])
      <4>1. p \in P
        BY <2>1, <2>6, <3>2
      <4> QED BY <2>1, <2>4, <2>6, <4>1
    <3> QED BY <3>1, <3>2 DEF W!Tells, all
  <2>8. ASSUME read.at \in {n, n + 1} PROVE W!Means(d, f, read.items)
    <3>1. ASSUME NEW q \in all PROVE q < read.at
      <4>1. q \in 1..n /\ W!Is(d, q, "element")
        BY <1>0, <2>2, <2>3 DEF W!Elements
      <4>2. q # read.at
        BY <2>1, <4>1
      <4> HIDE DEF n
      <4> QED BY <1>0, <2>8, <4>1, <4>2
    <3>2. P = all
      BY <2>5, <3>1
    <3> QED BY <2>1, <2>7, <3>2, Counted DEF W!Means, all
  <2> QED BY <2>7, <2>8
<1> HIDE DEF read
<1> QED BY <1>4, <1>5 DEF read

\* The parts of a message as its format has it, by name.
IsChild(d, f, p) == p \in W!Complete(d, f.child, f.fields)
IsSection(d, f, p) == p \in W!Complete(d, "section", f.section)
IsEnd(d, f, p) == W!Is(d, p, "end") /\ d[p].name = f.child
Inside(d, f, p) ==
  f.section # {} /\ \E c \in W!SkipBlanks(d, 1) + 1..p - 1 :
    IsChild(d, f, c) /\ \A q \in c + 1..p - 1 : W!Is(d, q, "blank") \/ IsSection(d, f, q)

Body(d, f) ==
  LET root == W!SkipBlanks(d, 1)
  IN /\ \A p \in root + 1..Len(d) - 1 :
          \/ W!Is(d, p, "blank")
          \/ Inside(d, f, p) /\ (IsSection(d, f, p) \/ IsEnd(d, f, p))
          \/ ~Inside(d, f, p) /\ IsChild(d, f, p)
     /\ W!Is(d, Len(d), "end") /\ ~Inside(d, f, Len(d))

\* A document as its format has it, in those words.
LEMMA PlainIs ==
  ASSUME NEW d, NEW f, W!Plain(d, f)
  PROVE  LET root == W!SkipBlanks(d, 1)
         IN /\ W!Is(d, root, "element") /\ d[root].name = f.type
            /\ f.child # "none" /\ root < Len(d) => Body(d, f)
BY DEF W!Plain, Body, Inside, IsChild, IsSection, IsEnd

\* In a message as its format has it the way leads from blanks to the next part.
LEMMA NextPart ==
  ASSUME NEW d, IsDocument(d), NEW f, Body(d, f), NEW p \in 1..Len(d)
  PROVE  LET q == W!SkipBlanks(d, p)
         IN q \in p..Len(d) /\ ~W!Is(d, q, "blank") /\ \A r \in p..q - 1 : W!Is(d, r, "blank")
<1> DEFINE n == Len(d)
           q == W!SkipBlanks(d, p)
<1>0. n \in Nat
  BY DEF IsDocument
<1>1. /\ q \in p..n + 1
      /\ \A r \in p..q - 1 : W!Is(d, r, "blank")
      /\ q <= n => ~W!Is(d, q, "blank")
  <2>1. p \in 1..n + 1
    BY <1>0
  <2> QED BY <2>1, Skipped
<1>2. ~W!Is(d, n, "blank")
  BY DEF Body, W!Is
<1> HIDE DEF q, n
<1>3. n \notin p..q - 1 /\ p \in 1..n
  BY <1>1, <1>2 DEF n
<1>4. q \in p..n
  BY <1>0, <1>1, <1>3
<1> QED BY <1>0, <1>1, <1>4 DEF q, n

\* In such a message a child with sections is read, and behind it there is none.
LEMMA FileWhole ==
  ASSUME NEW d, IsDocument(d), NEW f, IsFormat(f), f.section # {}, Body(d, f),
         W!SkipBlanks(d, 1) \in 1..Len(d),
         NEW c \in W!SkipBlanks(d, 1) + 1..Len(d) - 1, IsChild(d, f, c)
  PROVE  LET item == W!File(d, f, c)
         IN item.ok /\ item.at \in c + 1..Len(d) /\ ~Inside(d, f, item.at)
<1> DEFINE n == Len(d)
           root == W!SkipBlanks(d, 1)
           item == [q \in W!Elements(d, "section") |-> W!Leaf(d, f.section, q)]
           G == {r \in c + 1..n : \A x \in c + 1..r - 1 : W!Is(d, x, "blank") \/ IsSection(d, f, x)}
           E == {r \in G : IsEnd(d, f, r)}
           sections == W!Sections(d, f)[c + 1]
<1>0. /\ n \in Nat /\ root \in 1..n /\ c \in 1..n - 1 /\ root < c
      /\ W!Elements(d, "section") \subseteq 1..n
  BY DEF IsDocument, W!Elements
<1>1. \A r \in G : r \in c + 1..n - 1 /\ Inside(d, f, r)
  <2> TAKE r \in G
  <2>1. r \in c + 1..n /\ c \in root + 1..r - 1
    BY <1>0
  <2>2. Inside(d, f, r)
    BY <2>1 DEF Inside
  <2>3. ~Inside(d, f, n)
    BY DEF Body
  <2>4. r # n
    BY <2>2, <2>3
  <2> HIDE DEF n, G
  <2> QED BY <1>0, <2>1, <2>2, <2>4
<1>2. ASSUME NEW q \in W!Elements(d, "section")
      PROVE  /\ item[q].ok <=> W!Has(d[q], f.section)
             /\ item[q].ok => item[q].at = q + 1
             /\ ~item[q].ok => item[q].at = q
  <2>1. item[q] = W!Leaf(d, f.section, q)
    OBVIOUS
  <2> HIDE DEF item
  <2>2. W!Has(d[q], f.section) \in BOOLEAN
    BY DEF W!Has
  <2>3. CASE W!Has(d[q], f.section)
    BY <2>1, <2>3 DEF W!Leaf
  <2>4. CASE ~W!Has(d[q], f.section)
    BY <2>1, <2>2, <2>4 DEF W!Leaf, W!Stopped
  <2> QED BY <2>3, <2>4
<1>3. Readable(d, "section", item)
  <2>1. ASSUME NEW q \in W!Elements(d, "section")
        PROVE  item[q].at \in q..n + 1 /\ (item[q].ok => item[q].at = q + 1)
    <3>1. q \in 1..n
      BY <1>0
    <3> HIDE DEF item
    <3> QED BY <1>0, <1>2, <3>1
  <2> HIDE DEF item
  <2> QED BY <1>0, <2>1 DEF Readable
<1>4. ASSUME NEW p \in G
      PROVE  LET q == W!SkipBlanks(d, p)
             IN \/ q \in E /\ ~W!Is(d, q, "element")
                \/ /\ W!Is(d, q, "element") /\ q \in W!Elements(d, "section")
                   /\ item[q].ok /\ item[q].at \in G
  <2> DEFINE q == W!SkipBlanks(d, p)
  <2>1. p \in c + 1..n - 1 /\ \A x \in c + 1..p - 1 : W!Is(d, x, "blank") \/ IsSection(d, f, x)
    BY <1>1
  <2>2. q \in p..n /\ ~W!Is(d, q, "blank") /\ \A r \in p..q - 1 : W!Is(d, r, "blank")
    <3>1. p \in 1..n
      BY <1>0, <2>1
    <3> QED BY <3>1, NextPart
  <2> HIDE DEF q, item
  <2>3. q \in G
    <3>1. q \in c + 1..n
      BY <1>0, <2>1, <2>2
    <3>2. ASSUME NEW x \in c + 1..q - 1 PROVE W!Is(d, x, "blank") \/ IsSection(d, f, x)
      <4>1. x \in c + 1..p - 1 \/ x \in p..q - 1
        BY <1>0, <2>1, <2>2
      <4> QED BY <2>1, <2>2, <4>1
    <3> QED BY <3>1, <3>2
  <2>4. q \in root + 1..n - 1 /\ Inside(d, f, q)
    <3>1. q \in c + 1..n - 1 /\ Inside(d, f, q)
      BY <1>1, <2>3
    <3> HIDE DEF root, n
    <3> QED BY <1>0, <3>1
  <2>5. IsSection(d, f, q) \/ IsEnd(d, f, q)
    BY <2>2, <2>4 DEF Body
  <2>6. CASE IsEnd(d, f, q)
    <3>1. ~W!Is(d, q, "element")
      BY <2>6 DEF IsEnd, W!Is
    <3> HIDE DEF G
    <3>2. q \in E
      BY <2>3, <2>6
    <3> QED BY <3>1, <3>2 DEF q
  <2>7. CASE IsSection(d, f, q)
    <3>1. q \in W!Elements(d, "section") /\ W!Has(d[q], f.section) /\ W!Is(d, q, "element")
      BY <2>7 DEF IsSection, W!Complete, W!Elements
    <3>2. item[q].ok /\ item[q].at = q + 1
      BY <1>2, <3>1
    <3>3. q + 1 \in G
      <4>1. q + 1 \in c + 1..n /\ q \in c + 1..n
        <5>1. q \in c + 1..n - 1
          BY <1>1, <2>3
        <5> QED BY <1>0, <5>1
      <4>2. ASSUME NEW x \in c + 1..q + 1 - 1 PROVE W!Is(d, x, "blank") \/ IsSection(d, f, x)
        <5>1. x \in c + 1..q - 1 \/ x = q
          BY <1>0, <4>1
        <5> QED BY <2>3, <2>7, <5>1
      <4> QED BY <4>1, <4>2
    <3> HIDE DEF G
    <3> QED BY <3>1, <3>2, <3>3 DEF q
  <2> QED BY <2>5, <2>6, <2>7
<1>5. G \subseteq 1..n + 1 /\ c + 1 \in G
  <2>1. \A r \in G : r \in c + 1..n
    OBVIOUS
  <2>2. c + 1 \in c + 1..n /\ \A x \in c + 1..c + 1 - 1 : FALSE
    BY <1>0
  <2>3. c + 1 \in G
    BY <2>2
  <2>4. \A r \in c + 1..n : r \in 1..n + 1
    BY <1>0
  <2> QED BY <2>1, <2>3, <2>4
<1>6. sections = W!Children(d, "section", item)[c + 1]
  BY DEF W!Sections
<1>7. sections.ok /\ sections.at \in E
  <2> HIDE DEF item, G, E, sections
  <2> QED BY <1>3, <1>4, <1>5, <1>6, Whole
<1> HIDE DEF sections, item
<1> DEFINE end == sections.at
<1>8. /\ end \in c + 1..n - 1 /\ IsEnd(d, f, end)
      /\ \A x \in c + 1..end - 1 : W!Is(d, x, "blank") \/ IsSection(d, f, x)
  BY <1>1, <1>7
<1>9. W!Has(d[c], f.fields)
  BY DEF IsChild, W!Complete
<1>10. W!File(d, f, c).ok /\ W!File(d, f, c).at = end + 1
  BY <1>7, <1>8, <1>9 DEF W!File, IsEnd, sections
<1> HIDE DEF end
<1>11. ~Inside(d, f, end + 1)
  <2> SUFFICES ASSUME Inside(d, f, end + 1) PROVE FALSE
    OBVIOUS
  <2> DEFINE next == end + 1
  <2>0. next = end + 1
    OBVIOUS
  <2> HIDE DEF next
  <2>5. Inside(d, f, next)
    BY <2>0
  <2>6. PICK b \in root + 1..next - 1 :
          IsChild(d, f, b) /\ \A q \in b + 1..next - 1 : W!Is(d, q, "blank") \/ IsSection(d, f, q)
    BY <2>5 DEF Inside
  <2>1. /\ b \in root + 1..end
        /\ IsChild(d, f, b) /\ \A q \in b + 1..end : W!Is(d, q, "blank") \/ IsSection(d, f, q)
    <3>1. next - 1 = end
      BY <1>0, <1>8, <2>0
    <3> QED BY <2>6, <3>1
  <2>2. d[end].node = "end"
    BY <1>8 DEF IsEnd, W!Is
  <2>3. CASE b = end
    BY <2>1, <2>2, <2>3 DEF IsChild, W!Complete, W!Elements, W!Is
  <2>4. CASE b # end
    <3>1. end \in b + 1..end
      BY <1>0, <1>8, <2>1, <2>4
    <3> QED BY <2>1, <2>2, <3>1 DEF IsSection, W!Complete, W!Elements, W!Is
  <2> QED BY <2>3, <2>4
<1>12. end + 1 \in c + 1..n
  BY <1>0, <1>8
<1> QED BY <1>10, <1>11, <1>12

\* A message as its format has it is read, to its end.
LEMMA PlainRead ==
  ASSUME NEW d, IsDocument(d), NEW f, IsFormat(f), f.child # "none", W!Plain(d, f)
  PROVE  W!Means(d, f, W!Items(d, f)[W!SkipBlanks(d, 1) + 1].items)
         /\ W!Items(d, f)[W!SkipBlanks(d, 1) + 1].ok
<1> DEFINE n == Len(d)
           root == W!SkipBlanks(d, 1)
           item == ItemOf(d, f)
           read == W!Items(d, f)[root + 1]
           Ends == {n, n + 1}
           G == IF root = n THEN {n + 1} ELSE {p \in root + 1..n : ~Inside(d, f, p)}
<1>0. n \in Nat /\ W!Elements(d, f.child) \subseteq 1..n
  BY DEF IsDocument, W!Elements
<1>1. W!Is(d, root, "element") /\ (root < n => Body(d, f))
  BY PlainIs
<1>2. root \in 1..n
  <2>1. root \in 1..n + 1
    <3>1. 1 \in 1..n + 1
      BY <1>0
    <3> HIDE DEF root
    <3> QED BY <3>1, Skipped DEF root
  <2>2. root <= n
    BY <1>1 DEF W!Is
  <2> HIDE DEF root, n
  <2> QED BY <1>0, <2>1, <2>2
<1>3. ASSUME NEW p \in G
      PROVE  LET q == W!SkipBlanks(d, p)
             IN \/ q \in Ends /\ ~W!Is(d, q, "element")
                \/ /\ W!Is(d, q, "element") /\ q \in W!Elements(d, f.child)
                   /\ item[q].ok /\ item[q].at \in G
  <2> DEFINE q == W!SkipBlanks(d, p)
  <2>1. CASE root = n
    <3>1. p = n + 1 /\ p \in 1..n + 1
      BY <1>0, <2>1
    <3>2. q \in p..n + 1
      BY <3>1, Skipped
    <3> HIDE DEF q, n
    <3>3. q = n + 1
      BY <1>0, <3>1, <3>2
    <3>4. ~W!Is(d, q, "element")
      BY <1>0, <3>3 DEF W!Is, n
    <3> QED BY <3>3, <3>4 DEF q
  <2>2. CASE root # n
    <3>1. Body(d, f)
      <4>1. root < n
        BY <1>0, <1>2, <2>2
      <4> QED BY <1>1, <4>1
    <3>2. p \in root + 1..n /\ p \in 1..n /\ ~Inside(d, f, p)
      <4>1. p \in root + 1..n /\ ~Inside(d, f, p)
        BY <2>2
      <4> HIDE DEF root
      <4> QED BY <1>0, <1>2, <4>1
    <3>3. q \in p..n /\ ~W!Is(d, q, "blank") /\ \A r \in p..q - 1 : W!Is(d, r, "blank")
      BY <3>1, <3>2, NextPart
    <3> HIDE DEF item, q
    <3>4. ~Inside(d, f, q)
      <4> SUFFICES ASSUME Inside(d, f, q) PROVE FALSE
        OBVIOUS
      <4>1. f.section # {} /\ \E c \in root + 1..q - 1 :
              IsChild(d, f, c) /\ \A r \in c + 1..q - 1 : W!Is(d, r, "blank") \/ IsSection(d, f, r)
        BY DEF Inside
      <4>2. PICK c \in root + 1..q - 1 :
              IsChild(d, f, c) /\ \A r \in c + 1..q - 1 : W!Is(d, r, "blank") \/ IsSection(d, f, r)
        BY <4>1
      <4>3. ~W!Is(d, c, "blank")
        BY <4>2 DEF IsChild, W!Complete, W!Elements, W!Is
      <4>4. c \notin p..q - 1
        BY <3>3, <4>3
      <4> HIDE DEF root, n, G
      <4>5. c \in root + 1..p - 1 /\ \A r \in c + 1..p - 1 : r \in c + 1..q - 1
        BY <1>0, <1>2, <3>2, <3>3, <4>2, <4>4
      <4>6. Inside(d, f, p)
        BY <4>1, <4>2, <4>5 DEF Inside, root
      <4> QED BY <3>2, <4>6
    <3>5. q \in root + 1..n
      <4> HIDE DEF root
      <4> QED BY <1>0, <1>2, <3>2, <3>3
    <3>6. CASE q = n
      <4>1. ~W!Is(d, q, "element")
        BY <3>1, <3>6 DEF Body, W!Is
      <4> QED BY <3>6, <4>1 DEF q
    <3>7. CASE q # n
      <4>1. q \in root + 1..n - 1
        <5> HIDE DEF root, n
        <5> QED BY <1>0, <1>2, <3>5, <3>7
      <4>2. IsChild(d, f, q)
        BY <3>1, <3>3, <3>4, <4>1 DEF Body
      <4>3. q \in W!Elements(d, f.child) /\ W!Has(d[q], f.fields) /\ W!Is(d, q, "element")
        BY <4>2 DEF IsChild, W!Complete, W!Elements
      <4>4. item[q].ok /\ item[q].at \in root + 1..n /\ ~Inside(d, f, item[q].at)
        <5>1. CASE f.section = {}
          <6>1. item[q] = W!Card(d, f, q)
            BY <4>3, <5>1 DEF item, ItemOf
          <6>2. item[q].ok /\ item[q].at = q + 1
            BY <4>3, <6>1 DEF W!Card
          <6>3. q + 1 \in root + 1..n
            <7> HIDE DEF root, n
            <7> QED BY <1>0, <1>2, <4>1
          <6>4. ~Inside(d, f, item[q].at)
            BY <5>1 DEF Inside
          <6> QED BY <6>2, <6>3, <6>4
        <5>2. CASE f.section # {}
          <6>1. item[q] = W!File(d, f, q)
            BY <4>3, <5>2 DEF item, ItemOf
          <6>2. item[q].ok /\ item[q].at \in q + 1..n /\ ~Inside(d, f, item[q].at)
            BY <1>2, <3>1, <4>1, <4>2, <5>2, <6>1, FileWhole
          <6>3. item[q].at \in root + 1..n
            <7> HIDE DEF root, n
            <7> QED BY <1>0, <1>2, <4>1, <6>2
          <6> QED BY <6>2, <6>3
        <5> QED BY <5>1, <5>2
      <4>5. item[q].at \in G
        BY <2>2, <4>4
      <4> HIDE DEF G
      <4> QED BY <4>3, <4>4, <4>5 DEF q
    <3> QED BY <3>6, <3>7
  <2> QED BY <2>1, <2>2
<1>4. G \subseteq 1..n + 1 /\ root + 1 \in G
  <2>1. CASE root = n
    BY <1>0, <2>1
  <2>2. CASE root # n
    <3>1. G = {p \in root + 1..n : ~Inside(d, f, p)}
      BY <2>2
    <3> HIDE DEF root, G
    <3>2. root + 1 \in root + 1..n /\ root + 1..n \subseteq 1..n + 1
      BY <1>0, <1>2, <2>2
    <3>3. ~Inside(d, f, root + 1)
      <4> DEFINE next == root + 1
      <4>1. root + 1..next - 1 = {}
        BY <1>0, <1>2
      <4> HIDE DEF next
      <4>2. ~Inside(d, f, next)
        BY <4>1 DEF Inside, root
      <4> QED BY <4>2 DEF next
    <3> QED BY <3>1, <3>2, <3>3
  <2> QED BY <2>1, <2>2
<1>5. read = W!Children(d, f.child, item)[root + 1]
  BY DEF W!Items, ItemOf
<1>6. Readable(d, f.child, item)
  BY ItemsReadable
<1>7. read.ok /\ read.at \in Ends
  <2> HIDE DEF item, G, Ends, read
  <2> QED BY <1>3, <1>4, <1>5, <1>6, Whole
<1>8. W!Means(d, f, read.items)
  BY <1>1, <1>7, ItemsTell
<1> QED BY <1>7, <1>8

-----------------------------------------------------------------------------
(* The parsers in their row                                                   *)

\* Each type of message has one parser, and what is inside of a section is no
\* child.
LEMMA TypesOf ==
  /\ Len(W!Parsers) = 17 /\ DOMAIN W!Parsers = 1..17
  /\ \A i, j \in 1..17 : W!Parsers[i].type = W!Parsers[j].type => i = j
  /\ \A i \in 1..17 : IsFormat(W!Parsers[i])
<1>1. Len(W!Parsers) = 17 /\ DOMAIN W!Parsers = 1..17
  BY DEF W!Parsers
<1>2. \A t : W!Bare(t).type = t /\ IsFormat(W!Bare(t))
  BY DEF W!Bare, IsFormat
<1>3. \A t, c, x : W!ListOf(t, c, x).type = t /\ IsFormat(W!ListOf(t, c, x))
  BY DEF W!Bare, W!ListOf, IsFormat
<1>4. W!UserLoudness.type = "user_loudness" /\ IsFormat(W!UserLoudness)
  BY DEF W!UserLoudness, W!Bare, W!ListOf, IsFormat
<1>5. /\ W!Ack.type = "ack" /\ IsFormat(W!Ack)
      /\ W!Alive.type = "alive" /\ IsFormat(W!Alive)
      /\ W!LoudnessStart.type = "loudness_start" /\ IsFormat(W!LoudnessStart)
      /\ W!LoudnessStop.type = "loudness_stop" /\ IsFormat(W!LoudnessStop)
      /\ W!StatusStart.type = "status_start" /\ IsFormat(W!StatusStart)
      /\ W!StatusStop.type = "status_stop" /\ IsFormat(W!StatusStop)
      /\ W!ScheduleRequest.type = "schedule_request" /\ IsFormat(W!ScheduleRequest)
      /\ W!PlaybackListRequest.type = "playback_list_request" /\ IsFormat(W!PlaybackListRequest)
      /\ W!LogListRequest.type = "log_list_request" /\ IsFormat(W!LogListRequest)
      /\ W!ChannelListRequest.type = "channel_list_request" /\ IsFormat(W!ChannelListRequest)
    BY <1>2, <1>3 DEF W!Ack, W!Alive, W!LoudnessStart, W!LoudnessStop, W!StatusStart,
            W!StatusStop, W!ScheduleRequest, W!PlaybackListRequest, W!LogListRequest,
            W!ChannelListRequest
<1>6. /\ W!StreamStart.type = "stream_start" /\ IsFormat(W!StreamStart)
      /\ W!StreamStop.type = "stream_stop" /\ IsFormat(W!StreamStop)
      /\ W!ChannelChange.type = "channel_change" /\ IsFormat(W!ChannelChange)
      /\ W!LoudnessReset.type = "loudness_reset" /\ IsFormat(W!LoudnessReset)
      /\ W!Schedule.type = "schedule" /\ IsFormat(W!Schedule)
      /\ W!UserLoudnessRequest.type = "user_loudness_request" /\ IsFormat(W!UserLoudnessRequest)
    BY <1>2, <1>3 DEF W!StreamStart, W!StreamStop, W!ChannelChange, W!LoudnessReset,
            W!Schedule, W!UserLoudnessRequest
<1>7. /\ W!Parsers[1] = W!Ack
      /\ W!Parsers[2] = W!Alive
      /\ W!Parsers[3] = W!StreamStart
      /\ W!Parsers[4] = W!StreamStop
      /\ W!Parsers[5] = W!LoudnessStart
      /\ W!Parsers[6] = W!LoudnessStop
      /\ W!Parsers[7] = W!StatusStart
      /\ W!Parsers[8] = W!StatusStop
      /\ W!Parsers[9] = W!ChannelChange
      /\ W!Parsers[10] = W!LoudnessReset
      /\ W!Parsers[11] = W!Schedule
      /\ W!Parsers[12] = W!ScheduleRequest
      /\ W!Parsers[13] = W!PlaybackListRequest
      /\ W!Parsers[14] = W!LogListRequest
      /\ W!Parsers[15] = W!UserLoudness
      /\ W!Parsers[16] = W!UserLoudnessRequest
      /\ W!Parsers[17] = W!ChannelListRequest
  BY DEF W!Parsers
<1>8. \A i \in 1..17 : \/ i = 1 \/ i = 2 \/ i = 3 \/ i = 4 \/ i = 5
                       \/ i = 6 \/ i = 7 \/ i = 8 \/ i = 9 \/ i = 10 \/ i = 11
                       \/ i = 12 \/ i = 13 \/ i = 14 \/ i = 15 \/ i = 16 \/ i = 17
  OBVIOUS
<1>9. \A i \in 1..17 : IsFormat(W!Parsers[i])
  BY <1>4, <1>5, <1>6, <1>7, <1>8
<1>10. \A i, j \in 1..17 : W!Parsers[i].type = W!Parsers[j].type => i = j
  BY <1>4, <1>5, <1>6, <1>7, <1>8
<1> QED BY <1>1, <1>9, <1>10

\* The row of parsers: the function is there.
LEMMA TriedIs ==
  ASSUME NEW d
  PROVE  /\ W!Tried(d)[0] = W!Stopped(FALSE, 1)
         /\ \A i \in 1..17 : W!Tried(d)[i] = W!OrTry(W!Tried(d)[i - 1], d, W!Parsers[i])
<1> DEFINE Step(g, i) ==
             IF i = 0 THEN W!Stopped(FALSE, 1) ELSE W!OrTry(g[i - 1], d, W!Parsers[i])
           Tries(k, g) == g = [i \in 0..k |-> Step(g, i)]
           T == {k \in 0..17 : ~\E g : Tries(k, g)}
<1>1. T = {}
  <2> SUFFICES ASSUME T # {} PROVE FALSE
    OBVIOUS
  <2>1. PICK k \in T : \A l \in T : k <= l
    <3>1. T \subseteq Nat
      <4> HIDE DEF Tries
      <4>1. \A l \in T : l \in 0..17
        OBVIOUS
      <4> HIDE DEF T
      <4> QED BY <4>1
    <3> HIDE DEF T
    <3> QED BY <3>1, Least
  <2>0. k \in 0..17
    OBVIOUS
  <2>2. k # 0
    <3> DEFINE g == [i \in 0..0 |-> W!Stopped(FALSE, 1)]
    <3>1. g = [i \in 0..0 |-> Step(g, i)]
      OBVIOUS
    <3>2. Tries(0, g)
      BY <3>1
    <3> QED BY <3>2
  <2>3. PICK g : Tries(k - 1, g)
    <3>1. k - 1 \in 0..17 /\ ~(k <= k - 1)
      BY <2>0, <2>2
    <3>2. k - 1 \notin T
      <4> HIDE DEF T
      <4> QED BY <2>1, <3>1
    <3> QED BY <3>1, <3>2
  <2> DEFINE h == [i \in 0..k |-> IF i = k THEN Step(g, i) ELSE g[i]]
  <2>4. ASSUME NEW i \in 0..k PROVE h[i] = Step(h, i)
    <3>1. CASE i = 0
      <4>1. h[i] = g[0] /\ g[0] = W!Stopped(FALSE, 1)
        <5>1. 0 \in 0..k - 1 /\ 0 \in 0..k /\ 0 # k
          BY <2>0, <2>2
        <5>2. h[0] = g[0]
          BY <5>1
        <5>3. g[0] = Step(g, 0)
          BY <2>3, <5>1
        <5> QED BY <3>1, <5>2, <5>3
      <4> QED BY <3>1, <4>1
    <3>2. CASE i # 0
      <4>1. i - 1 \in 0..k /\ i - 1 # k /\ i - 1 \in 0..k - 1
        BY <2>0, <3>2
      <4>2. h[i - 1] = g[i - 1]
        BY <4>1
      <4>3. h[i] = Step(g, i)
        <5>1. CASE i = k
          BY <2>0, <5>1
        <5>2. CASE i # k
          <6>1. i \in 0..k - 1
            BY <2>0, <5>2
          <6>2. h[i] = g[i]
            BY <5>2
          <6>3. g[i] = Step(g, i)
            BY <2>3, <6>1
          <6> QED BY <6>2, <6>3
        <5> QED BY <5>1, <5>2
      <4> HIDE DEF h
      <4> QED BY <3>2, <4>2, <4>3
    <3> QED BY <3>1, <3>2
  <2>5. Tries(k, h)
    <3>1. h = [i \in 0..k |-> h[i]]
      OBVIOUS
    <3> HIDE DEF h, Step
    <3> QED BY <2>4, <3>1
  <2> QED BY <2>0, <2>5
<1>2. PICK g : Tries(17, g)
  <2>1. 17 \in 0..17
    OBVIOUS
  <2>2. 17 \notin T
    <3> HIDE DEF T
    <3> QED BY <1>1
  <2> HIDE DEF Tries
  <2> QED BY <2>1, <2>2
<1>3. W!Tried(d) = [i \in 0..17 |-> Step(W!Tried(d), i)]
  BY <1>2, TypesOf DEF W!Tried
<1> HIDE DEF Step
<1>4. \A i \in 0..17 : W!Tried(d)[i] = Step(W!Tried(d), i)
  BY <1>3
<1>5. 0 \in 0..17 /\ \A i \in 1..17 : i \in 0..17 /\ i # 0
  OBVIOUS
<1> QED BY <1>4, <1>5 DEF Step

\* The reader does not skip what it stopped at.
LEMMA SkippedOnce ==
  ASSUME NEW d, IsDocument(d), NEW p \in 1..Len(d) + 1
  PROVE  W!SkipBlanks(d, W!SkipBlanks(d, p)) = W!SkipBlanks(d, p)
<1> DEFINE n == Len(d)
           q == W!SkipBlanks(d, p)
           r == W!SkipBlanks(d, q)
<1>0. n \in Nat
  BY DEF IsDocument
<1>1. q \in p..n + 1 /\ (q <= n => ~W!Is(d, q, "blank"))
  BY Skipped
<1> HIDE DEF q
<1>2. q \in 1..n + 1
  BY <1>0, <1>1
<1>3. r \in q..n + 1 /\ \A x \in q..r - 1 : W!Is(d, x, "blank")
  BY <1>2, Skipped
<1> HIDE DEF r, n
<1>4. q \notin q..r - 1
  BY <1>0, <1>1, <1>2, <1>3
<1>5. q = r
  BY <1>0, <1>2, <1>3, <1>4
<1> QED BY <1>5 DEF q, r

\* A parser whose element the document's first one is not leaves the reader
\* there; the one of its type reads it or goes on from behind it.
LEMMA TryIs ==
  ASSUME NEW d, IsDocument(d), NEW k \in 1..17, NEW p \in 1..Len(d) + 1
  PROVE  LET root == W!SkipBlanks(d, p)
             f == W!Parsers[k]
             read == W!Items(d, f)[root + 1]
             try == W!Try(d, f, p)
         IN /\ ~(W!Is(d, root, "element") /\ d[root].name = f.type) => try = W!Stopped(FALSE, root)
            /\ W!Is(d, root, "element") /\ d[root].name = f.type =>
                 \/ f.child = "none" /\ try = [ok |-> TRUE, message |-> W!Message(d[root], <<>>)]
                 \/ /\ f.child # "none" /\ read.ok
                    /\ try = [ok |-> TRUE, message |-> W!Message(d[root], read.items)]
                 \/ f.child # "none" /\ ~read.ok /\ try = W!Stopped(FALSE, read.at)
BY DEF W!Try

\* Induction from a number up to another.
LEMMA Climb ==
  ASSUME NEW a \in Nat, NEW b \in Nat, NEW H, a \in H,
         \A i \in a..b - 1 : i \in H => i + 1 \in H
  PROVE  a..b \subseteq H
<1> DEFINE T == {i \in a..b : i \notin H}
<1> SUFFICES ASSUME T # {} PROVE FALSE
  OBVIOUS
<1>1. PICK i \in T : \A j \in T : i <= j
  <2>1. T \subseteq Nat
    OBVIOUS
  <2> HIDE DEF T
  <2> QED BY <2>1, Least
<1>2. i \in a..b /\ i \notin H
  OBVIOUS
<1>3. i - 1 \in a..b /\ i - 1 \in a..b - 1 /\ ~(i <= i - 1) /\ i - 1 + 1 = i
  BY <1>2
<1>4. i - 1 \notin T
  <2> HIDE DEF T
  <2> QED BY <1>1, <1>3
<1> QED BY <1>2, <1>3, <1>4

\* The one parser for the type of a document decides: what it reads is the
\* message; if it cannot and no element behind has the name of a message, no
\* parser after it can.
LEMMA ParsedBy ==
  ASSUME NEW d, IsDocument(d), NEW k \in 1..17,
         W!Is(d, W!SkipBlanks(d, 1), "element"),
         d[W!SkipBlanks(d, 1)].name = W!Parsers[k].type
  PROVE  LET root == W!SkipBlanks(d, 1)
             f == W!Parsers[k]
             read == W!Items(d, f)[root + 1]
         IN \/ f.child = "none" /\ W!Parse(d) = W!Message(d[root], <<>>)
            \/ f.child # "none" /\ read.ok /\ W!Parse(d) = W!Message(d[root], read.items)
            \/ f.child # "none" /\ ~read.ok /\ (~W!Nests(d) => W!Parse(d) = W!Refused)
<1> DEFINE n == Len(d)
           root == W!SkipBlanks(d, 1)
           f == W!Parsers[k]
           read == W!Items(d, f)[root + 1]
           tried == W!Tried(d)
           H == {i \in 0..k - 1 : /\ ~tried[i].ok /\ tried[i].at \in 1..n + 1
                                  /\ W!SkipBlanks(d, tried[i].at) = root}
<1>0. n \in Nat /\ DOMAIN d = 1..n /\ IsFormat(f)
  BY TypesOf DEF IsDocument
<1>1. root \in 1..n /\ root \in 1..n + 1
  <2>1. root \in 1..n + 1
    <3>1. 1 \in 1..n + 1
      BY <1>0
    <3> HIDE DEF root
    <3> QED BY <3>1, Skipped DEF root
  <2>2. root <= n
    BY DEF W!Is
  <2> HIDE DEF root, n
  <2> QED BY <1>0, <2>1, <2>2
<1>2. /\ tried[0] = W!Stopped(FALSE, 1)
      /\ \A i \in 1..17 : tried[i] = W!OrTry(tried[i - 1], d, W!Parsers[i])
  BY TriedIs
<1> HIDE DEF tried
<1>12. ASSUME NEW i \in 0..17, NEW j \in 1..17, j = i + 1
       PROVE  /\ tried[i].ok => tried[j] = tried[i]
              /\ ~tried[i].ok => tried[j] = W!Try(d, W!Parsers[j], tried[i].at)
  <2>1. i = j - 1
    BY <1>12
  <2> QED BY <1>2, <2>1 DEF W!OrTry
<1>3. k - 1 \in H
  <2>1. 0 \in H
    <3>1. ~tried[0].ok /\ tried[0].at = 1
      BY <1>2 DEF W!Stopped
    <3>2. 0 \in 0..k - 1 /\ 1 \in 1..n + 1
      BY <1>0
    <3> QED BY <3>1, <3>2
  <2>2. ASSUME NEW i \in 0..k - 1 - 1, i \in H PROVE i + 1 \in H
    <3>1. i + 1 \in 1..17 /\ i + 1 # k /\ i + 1 \in 0..k - 1 /\ i \in 0..17
      OBVIOUS
    <3>2. ~tried[i].ok /\ tried[i].at \in 1..n + 1 /\ W!SkipBlanks(d, tried[i].at) = root
      BY <2>2
    <3>3. tried[i + 1] = W!Try(d, W!Parsers[i + 1], tried[i].at)
      BY <1>12, <3>1, <3>2
    <3>4. d[root].name # W!Parsers[i + 1].type
      BY <3>1, TypesOf
    <3> HIDE DEF root, n
    <3>5. tried[i + 1] = W!Stopped(FALSE, root)
      BY <3>1, <3>2, <3>3, <3>4, TryIs DEF n
    <3>6. W!SkipBlanks(d, root) = root
      BY <3>2, SkippedOnce DEF n
    <3>7. ~tried[i + 1].ok /\ tried[i + 1].at = root
      BY <3>5 DEF W!Stopped
    <3> QED BY <1>1, <3>1, <3>6, <3>7
  <2>3. k - 1 \in Nat /\ 0 \in Nat /\ k - 1 \in 0..k - 1
    OBVIOUS
  <2> HIDE DEF H
  <2>4. 0..k - 1 \subseteq H
    BY <2>1, <2>2, <2>3, Climb
  <2> QED BY <2>3, <2>4
<1>4. /\ ~tried[k - 1].ok /\ tried[k - 1].at \in 1..n + 1
      /\ W!SkipBlanks(d, tried[k - 1].at) = root
  BY <1>3
<1>5. tried[k] = W!Try(d, f, tried[k - 1].at)
  <2>1. k - 1 \in 0..17 /\ k = k - 1 + 1
    OBVIOUS
  <2> QED BY <1>4, <1>12, <2>1
<1>6. \/ f.child = "none" /\ tried[k] = [ok |-> TRUE, message |-> W!Message(d[root], <<>>)]
      \/ f.child # "none" /\ read.ok /\ tried[k] = [ok |-> TRUE, message |-> W!Message(d[root], read.items)]
      \/ f.child # "none" /\ ~read.ok /\ tried[k] = W!Stopped(FALSE, read.at)
  <2> DEFINE p == tried[k - 1].at
  <2>1. p \in 1..Len(d) + 1 /\ W!SkipBlanks(d, p) = root /\ tried[k] = W!Try(d, f, p)
    BY <1>4, <1>5
  <2> HIDE DEF p
  <2> QED BY <2>1, TryIs
<1>7. W!Parse(d) = IF tried[17].ok THEN tried[17].message ELSE W!Refused
  BY TypesOf DEF W!Parse, tried
<1>8. ASSUME tried[k].ok PROVE tried[17] = tried[k]
  <2> DEFINE I == {i \in k..17 : tried[i] = tried[k]}
  <2>1. k \in I
    OBVIOUS
  <2>2. ASSUME NEW i \in k..17 - 1, i \in I PROVE i + 1 \in I
    <3>1. i \in 0..17 /\ i + 1 \in 1..17 /\ i + 1 \in k..17
      OBVIOUS
    <3>2. tried[i + 1] = tried[i]
      BY <1>8, <1>12, <2>2, <3>1
    <3> QED BY <2>2, <3>1, <3>2
  <2> HIDE DEF I
  <2>3. k..17 \subseteq I
    BY <2>1, <2>2, Climb
  <2> QED BY <2>3 DEF I
<1>9. ASSUME f.child # "none", tried[k] = W!Stopped(FALSE, read.at), ~W!Nests(d)
      PROVE  ~tried[17].ok
  <2> DEFINE I == {i \in k..17 : ~tried[i].ok /\ tried[i].at \in root + 1..n + 1}
  <2>1. k \in I
    <3>1. read.at \in root + 1..n + 1
      BY <1>0, <1>9, ItemsTell
    <3>2. ~tried[k].ok /\ tried[k].at = read.at
      BY <1>9 DEF W!Stopped
    <3> QED BY <3>1, <3>2
  <2>2. ASSUME NEW i \in k..17 - 1, i \in I PROVE i + 1 \in I
    <3> DEFINE p == tried[i].at
               q == W!SkipBlanks(d, p)
               g == W!Parsers[i + 1]
    <3>1. i \in 0..17 /\ i + 1 \in 1..17 /\ i + 1 \in k..17
      OBVIOUS
    <3>2. ~tried[i].ok /\ p \in root + 1..n + 1
      BY <2>2
    <3>3. tried[i + 1] = W!Try(d, g, p)
      BY <1>12, <3>1, <3>2
    <3> HIDE DEF p
    <3>4. p \in 1..Len(d) + 1
      <4> HIDE DEF root
      <4> QED BY <1>0, <1>1, <3>2
    <3>5. q \in p..n + 1
      BY <3>4, Skipped
    <3>6. ~(W!Is(d, q, "element") /\ d[q].name = g.type)
      <4> SUFFICES ASSUME W!Is(d, q, "element"), d[q].name = g.type PROVE FALSE
        OBVIOUS
      <4>1. q \in root + 1..n
        <5>1. q <= n
          BY DEF W!Is
        <5> HIDE DEF q, n, root
        <5> QED BY <1>0, <1>1, <3>2, <3>5, <5>1
      <4>2. q \in DOMAIN d /\ q > root
        <5> HIDE DEF q, root
        <5> QED BY <1>0, <1>1, <4>1
      <4>3. d[q].name \in W!MessageTypes
        BY <3>1, TypesOf DEF W!MessageTypes
      <4> QED BY <1>9, <4>2, <4>3 DEF W!Nests
    <3>7. tried[i + 1] = W!Stopped(FALSE, q)
      BY <3>1, <3>3, <3>4, <3>6, TryIs
    <3>8. ~tried[i + 1].ok /\ tried[i + 1].at = q
      BY <3>7 DEF W!Stopped
    <3>9. q \in root + 1..n + 1
      <4> HIDE DEF q, root
      <4> QED BY <1>0, <1>1, <3>2, <3>5
    <3> QED BY <3>1, <3>8, <3>9
  <2> HIDE DEF I
  <2>3. k..17 \subseteq I
    BY <2>1, <2>2, Climb
  <2> QED BY <2>3 DEF I
<1>10. CASE f.child # "none" /\ ~read.ok /\ tried[k] = W!Stopped(FALSE, read.at)
  <2>1. ~W!Nests(d) => W!Parse(d) = W!Refused
    BY <1>7, <1>9, <1>10
  <2> HIDE DEF f, read
  <2> QED BY <1>10, <2>1 DEF f, read
<1>11. ASSUME NEW items, tried[k] = [ok |-> TRUE, message |-> W!Message(d[root], items)]
       PROVE  W!Parse(d) = W!Message(d[root], items)
  <2>1. tried[k].ok /\ tried[k].message = W!Message(d[root], items)
    BY <1>11
  <2>2. tried[17] = tried[k]
    BY <1>8, <2>1
  <2> QED BY <1>7, <2>1, <2>2
<1> QED BY <1>6, <1>10, <1>11

-----------------------------------------------------------------------------
(* What main reads                                                            *)

\* The document at hand is one a client sent, and main read that one.
ReadInv ==
  doc # <<>> => doc \in Documents \cup Proper /\ received = W!Parse(doc)

\* Clients send documents.
LEMMA DocumentsAre == \A d \in Documents \cup Proper : IsDocument(d)
<1> SUFFICES ASSUME NEW d \in Documents \cup Proper PROVE IsDocument(d)
  OBVIOUS
<1>1. d \in Seq(Range(d))
  BY DocumentsAreSequences
<1> HIDE DEF Range
<1> QED BY <1>1 DEF IsDocument

\* Main reads each document when it comes and lets go of both together.
LEMMA ReadNext ==
  ASSUME ReadInv, [Next]_vars
  PROVE  ReadInv'
<1>1. CASE ClientSends
  BY <1>1 DEF ClientSends, ReadInv
<1>2. CASE Taken
  BY <1>2 DEF Taken, ReadInv
<1>3. CASE UNCHANGED <<doc, received>>
  BY <1>3 DEF ReadInv
<1>4. CASE Carries
  BY <1>2, <1>3, <1>4
     DEF Carries, Drop, AcknowledgeOnly, Ignore, StreamCommand, ResetCommand, TakeSchedule,
         TakeNoSchedule, ChangeChannel, ChangeNext, Changed, TakeUserLoudness
<1>5. CASE Tells
  BY <1>2, <1>5 DEF Tells, TellSchedule, TellChannels, TellPlaybackList, TellLogList,
                    TellUserLoudness, CannotTell, CannotList
<1>6. CASE EntryBegins
  BY <1>3, <1>6 DEF EntryBegins
<1>7. CASE Kill
  BY <1>7 DEF Kill, ReadInv
<1>8. CASE Rest
  BY <1>3, <1>8 DEF Rest
<1>9. CASE UNCHANGED vars
  BY <1>3, <1>9 DEF vars
<1> QED BY <1>1, <1>4, <1>5, <1>6, <1>7, <1>8, <1>9 DEF Next

\* A document the format has is read as it is meant; from any other, parse_xml
\* reads some of the first complete children or nothing, unless a child has the
\* name of a message (parse_xml and the readers it tries, messenger.c): for
\* documents of any length, with any nodes in them.
THEOREM Reading == Spec => []ReadAsMeant
<1>1. ASSUME ReadInv
      PROVE  ReadAsMeant
  <2> DEFINE root == W!SkipBlanks(doc, 1)
  <2> SUFFICES ASSUME doc # <<>>,
                      NEW f \in Range(W!Parsers), W!Is(doc, root, "element"), doc[root].name = f.type
               PROVE  /\ W!Plain(doc, f) =>
                           /\ received = W!Message(doc[root], received.items)
                           /\ W!Means(doc, f, received.items)
                      /\ received.type # "refused" /\ ~W!Nests(doc) =>
                           received.type = f.type /\ W!Tells(doc, f, received.items)
    BY DEF ReadAsMeant
  <2>1. IsDocument(doc) /\ received = W!Parse(doc)
    BY <1>1, DocumentsAre DEF ReadInv
  <2>2. PICK k \in 1..17 : f = W!Parsers[k]
    BY TypesOf DEF Range
  <2>3. IsFormat(f)
    BY <2>2, TypesOf
  <2> DEFINE read == W!Items(doc, f)[root + 1]
  <2>4. \/ f.child = "none" /\ received = W!Message(doc[root], <<>>)
        \/ f.child # "none" /\ read.ok /\ received = W!Message(doc[root], read.items)
        \/ f.child # "none" /\ ~read.ok /\ (~W!Nests(doc) => received = W!Refused)
    BY <2>1, <2>2, ParsedBy
  <2>5. \A items : LET message == W!Message(doc[root], items)
                   IN message.items = items /\ message.type = f.type
    BY DEF W!Message
  <2> HIDE DEF root
  <2>6. CASE f.child = "none" /\ received = W!Message(doc[root], <<>>)
    <3>1. W!Means(doc, f, <<>>)
      <4>1. W!ChildrenOf(doc, f) = {} /\ W!Cardinality({}) = 0
        BY <2>6, Counted, FS_EmptySet DEF W!ChildrenOf
      <4> QED BY <4>1 DEF W!Means, W!Tells
    <3>2. W!Tells(doc, f, <<>>)
      BY <3>1 DEF W!Means
    <3> QED BY <2>5, <2>6, <3>1, <3>2
  <2>7. CASE f.child # "none" /\ read.ok /\ received = W!Message(doc[root], read.items)
    <3>1. W!Tells(doc, f, read.items)
      BY <2>1, <2>3, <2>7, ItemsTell DEF root
    <3>2. W!Plain(doc, f) => W!Means(doc, f, read.items)
      BY <2>1, <2>3, <2>7, PlainRead DEF root
    <3> HIDE DEF read
    <3> QED BY <2>5, <2>7, <3>1, <3>2
  <2>8. CASE f.child # "none" /\ ~read.ok /\ (~W!Nests(doc) => received = W!Refused)
    <3>1. ~W!Plain(doc, f)
      BY <2>1, <2>3, <2>8, PlainRead DEF root
    <3>2. ~W!Nests(doc) => received.type = "refused"
      BY <2>8 DEF W!Refused
    <3> QED BY <3>1, <3>2
  <2> QED BY <2>4, <2>6, <2>7, <2>8
<1>2. Init => ReadInv
  BY DEF Init, ReadInv
<1> QED BY <1>1, <1>2, ReadNext, PTL DEF Spec

-----------------------------------------------------------------------------
(* Sequences laid end to end                                                  *)

\* The first sequences of x, one after another: F tells how, for up to n.
Joins(F, n, x) == F = [i \in 0..n |-> IF i = 0 THEN <<>> ELSE F[i - 1] \o x[i]]

\* There is such an F.
LEMMA Joined ==
  ASSUME NEW n \in Nat, NEW x
  PROVE  \E F : Joins(F, n, x)
<1> DEFINE H == {k \in 0..n : \E F : Joins(F, k, x)}
<1>1. 0 \in H
  <2> DEFINE F == [i \in 0..0 |-> <<>>]
  <2>1. F = [i \in 0..0 |-> IF i = 0 THEN <<>> ELSE F[i - 1] \o x[i]]
    OBVIOUS
  <2>2. \E G : Joins(G, 0, x)
    BY <2>1 DEF Joins
  <2> QED BY <2>2
<1>2. ASSUME NEW k \in 0..n - 1, k \in H PROVE k + 1 \in H
  <2>1. PICK F : Joins(F, k, x)
    BY <1>2
  <2> DEFINE G == [i \in 0..k + 1 |-> IF i = k + 1 THEN F[k] \o x[i] ELSE F[i]]
  <2>2. ASSUME NEW i \in 0..k + 1
        PROVE  G[i] = IF i = 0 THEN <<>> ELSE G[i - 1] \o x[i]
    <3>1. CASE i = 0
      <4>1. 0 \in 0..k /\ 0 # k + 1 /\ G[0] = F[0]
        BY <1>2
      <4> QED BY <2>1, <3>1, <4>1 DEF Joins
    <3>2. CASE i = k + 1
      <4>1. k \in 0..k + 1 /\ k # k + 1 /\ i - 1 = k /\ i # 0
        BY <1>2, <3>2
      <4>2. G[i] = F[k] \o x[i] /\ G[k] = F[k]
        BY <3>2, <4>1
      <4> HIDE DEF G
      <4> QED BY <4>1, <4>2
    <3>3. CASE i # 0 /\ i # k + 1
      <4>1. i \in 0..k /\ i - 1 \in 0..k /\ i - 1 \in 0..k + 1 /\ i - 1 # k + 1
        BY <1>2, <3>3
      <4>2. G[i] = F[i] /\ G[i - 1] = F[i - 1]
        BY <3>3, <4>1
      <4>3. F[i] = F[i - 1] \o x[i]
        BY <2>1, <3>3, <4>1 DEF Joins
      <4> HIDE DEF G
      <4> QED BY <3>3, <4>2, <4>3
    <3> QED BY <3>1, <3>2, <3>3
  <2>3. G = [i \in 0..k + 1 |-> G[i]]
    OBVIOUS
  <2> HIDE DEF G
  <2>4. Joins(G, k + 1, x)
    BY <2>2, <2>3 DEF Joins
  <2>5. k + 1 \in 0..n
    BY <1>2
  <2> QED BY <2>4, <2>5
<1> HIDE DEF H
<1>3. 0..n \subseteq H
  BY <1>1, <1>2, Climb
<1>4. n \in 0..n
  OBVIOUS
<1> QED BY <1>3, <1>4 DEF H

\* Sequences over T, each the one before it with one more part behind it.
Grows(F, n, x, T) ==
  /\ F[0] = <<>>
  /\ \A i \in 0..n : F[i] \in Seq(T)
  /\ \A i \in 0..n - 1, j \in 1..n : j = i + 1 => F[j] = F[i] \o x[j]

\* The parts are sequences over T.
Laid(n, x, T) == n \in Nat /\ \A i \in 1..n : x[i] \in Seq(T)

\* What is joined is a sequence, the longer the more is.
LEMMA JoinIs ==
  ASSUME NEW n, NEW x, NEW F, Joins(F, n, x), NEW T, Laid(n, x, T)
  PROVE  Grows(F, n, x, T)
<1>0. n \in Nat /\ \A i \in 1..n : x[i] \in Seq(T)
  BY DEF Laid
<1>1. F[0] = <<>>
  BY <1>0 DEF Joins
<1>2. ASSUME NEW i \in 0..n - 1, NEW j \in 1..n, j = i + 1 PROVE F[j] = F[i] \o x[j]
  <2>1. j \in 0..n /\ j # 0 /\ j - 1 = i
    BY <1>0, <1>2
  <2> QED BY <2>1 DEF Joins
<1> DEFINE H == {k \in 0..n : F[k] \in Seq(T)}
<1>3. 0 \in H
  <2>1. 0 \in 0..n /\ <<>> \in Seq(T)
    BY <1>0
  <2> QED BY <1>1, <2>1
<1>4. ASSUME NEW k \in 0..n - 1, k \in H PROVE k + 1 \in H
  <2> DEFINE j == k + 1
  <2>1. j \in 1..n /\ j \in 0..n /\ k \in 0..n - 1 /\ j = k + 1
    BY <1>0
  <2> HIDE DEF j
  <2>2. F[k] \in Seq(T) /\ x[j] \in Seq(T)
    BY <1>0, <1>4, <2>1
  <2>3. F[j] = F[k] \o x[j]
    BY <1>2, <2>1
  <2>4. F[j] \in Seq(T)
    BY <2>2, <2>3
  <2> QED BY <2>1, <2>4 DEF j
<1> HIDE DEF H
<1>5. 0..n \subseteq H
  BY <1>0, <1>3, <1>4, Climb
<1> QED BY <1>1, <1>2, <1>5 DEF H, Grows

\* FlattenSeq joins them in the same way.
LEMMA Flattened ==
  ASSUME NEW n, NEW x, DOMAIN x = 1..n, Len(x) = n, NEW T, Laid(n, x, T), NEW F, Joins(F, n, x)
  PROVE  (n = 0 => x = <<>>) => W!FlattenSeq(x) = F[n]
<1>1. /\ F[0] = <<>>
      /\ \A i \in 0..n : F[i] \in Seq(T)
      /\ \A i \in 0..n - 1, j \in 1..n : j = i + 1 => F[j] = F[i] \o x[j]
  <2>1. Grows(F, n, x, T)
    BY JoinIs
  <2> QED BY <2>1 DEF Grows
<1>0. n \in Nat /\ \A i \in 1..n : x[i] \in Seq(T)
  BY DEF Laid
<1>2. CASE n = 0
  BY <1>1, <1>2 DEF W!FlattenSeq
<1>3. CASE n # 0
  <2> DEFINE Flat(g) == g = [i \in 1..Len(x) |-> IF i = 1 THEN x[i] ELSE g[i - 1] \o x[i]]
             g0 == [i \in 1..n |-> F[i]]
  <2>1. ASSUME NEW i \in 1..n PROVE F[i] = IF i = 1 THEN x[i] ELSE F[i - 1] \o x[i]
    <3>1. i - 1 \in 0..n - 1 /\ i = i - 1 + 1 /\ i - 1 \in 0..n
      BY <1>0
    <3>2. F[i] = F[i - 1] \o x[i]
      BY <1>1, <3>1
    <3>3. CASE i = 1
      <4>1. x[i] \in Seq(T) /\ i - 1 = 0 /\ F[i - 1] = <<>>
        BY <1>0, <1>1, <3>3
      <4> QED BY <3>2, <3>3, <4>1
    <3> QED BY <3>2, <3>3
  <2>2. \A i \in 1..n : g0[i] = F[i] /\ (i # 1 => i - 1 \in 1..n /\ g0[i - 1] = F[i - 1])
    BY <1>0
  <2>3. Flat(g0)
    <3>1. \A i \in 1..n : g0[i] = IF i = 1 THEN x[i] ELSE g0[i - 1] \o x[i]
      <4> HIDE DEF g0
      <4> QED BY <2>1, <2>2
    <3>2. g0 = [i \in 1..n |-> g0[i]]
      OBVIOUS
    <3> HIDE DEF g0
    <3> QED BY <3>1, <3>2
  <2> DEFINE h == CHOOSE g : Flat(g)
  <2>4. Flat(h)
    BY <2>3
  <2>5. W!FlattenSeq(x) = h[n]
    BY <1>3 DEF W!FlattenSeq
  <2> HIDE DEF h
  <2>6. \A i \in 1..n : h[i] = IF i = 1 THEN x[i] ELSE h[i - 1] \o x[i]
    BY <2>4
  <2> HIDE DEF Flat
  <2> DEFINE H == {k \in 1..n : h[k] = F[k]}
  <2>7. 1 \in H
    BY <1>0, <1>3, <2>1, <2>6
  <2>8. ASSUME NEW k \in 1..n - 1, k \in H PROVE k + 1 \in H
    <3> DEFINE j == k + 1
    <3>1. j \in 1..n /\ j # 1 /\ j - 1 = k
      BY <1>0
    <3> HIDE DEF j
    <3>2. h[j] = h[k] \o x[j] /\ F[j] = F[k] \o x[j] /\ h[k] = F[k]
      BY <2>1, <2>6, <2>8, <3>1
    <3> QED BY <3>1, <3>2 DEF j
  <2> HIDE DEF H
  <2>9. 1..n \subseteq H
    BY <1>0, <2>7, <2>8, Climb
  <2> QED BY <1>0, <1>3, <2>5, <2>9 DEF H
<1> QED BY <1>2, <1>3

\* A place among places is one of them.
LEMMA PlaceIn ==
  ASSUME NEW n \in Nat, NEW A, A \subseteq 1..n
  PROVE  Cardinality(A) \in Nat /\ \A p \in A : W!Place(A, p) \in 1..Cardinality(A)
<1>1. \A S \in SUBSET (1..n) : IsFiniteSet(S) /\ Cardinality(S) \in Nat
  <2>1. IsFiniteSet(1..n)
    BY FS_Interval
  <2> QED BY <2>1, FS_Subset, FS_CardinalityType
<1>2. IsFiniteSet(A) /\ Cardinality(A) \in Nat
  BY <1>1
<1>3. ASSUME NEW p \in A PROVE W!Place(A, p) \in 1..Cardinality(A)
  <2> DEFINE Q == {q \in A : q <= p}
  <2>1. p \in Q /\ Q \subseteq A /\ Q \subseteq 1..n
    <3>1. p \in 1..n
      OBVIOUS
    <3>2. p <= p
      BY <3>1
    <3> QED BY <3>2
  <2>2. W!Place(A, p) = Cardinality(Q)
    BY Counted DEF W!Place
  <2> HIDE DEF Q
  <2>3. IsFiniteSet(Q) /\ Cardinality(Q) \in Nat
    BY <1>1, <2>1
  <2>4. Cardinality(Q) <= Cardinality(A)
    BY <1>2, <2>1, FS_Subset
  <2>5. Cardinality(Q) # 0
    BY <2>1, <2>3, FS_EmptySet
  <2> QED BY <1>2, <2>2, <2>3, <2>4, <2>5
<1> QED BY <1>2, <1>3

\* Behind some places there is one more.
PutLast(n, q, P, R) ==
  n \in Nat /\ P \subseteq 1..n /\ q \in Nat /\ q > n /\ R = P \cup {q}

\* The last place is the last, and the others are where they were.
LEMMA OnePlaceBehind ==
  ASSUME NEW n, NEW q, NEW P, NEW R, PutLast(n, q, P, R)
  PROVE  /\ Cardinality(P) \in Nat /\ Cardinality(R) = Cardinality(P) + 1
         /\ W!Place(R, q) = Cardinality(P) + 1
         /\ \A p \in P : W!Place(R, p) = W!Place(P, p)
<1> USE DEF PutLast
<1>1. IsFiniteSet(1..n) /\ P \subseteq 1..n
  BY FS_Interval
<1>2. IsFiniteSet(P) /\ Cardinality(P) \in Nat
  BY <1>1, FS_Subset, FS_CardinalityType
<1>3. q \notin P /\ \A p \in P : p <= q /\ ~(q <= p) /\ q <= q
  OBVIOUS
<1>4. Cardinality(R) = Cardinality(P) + 1
  BY <1>2, <1>3, FS_AddElement
<1>5. {p \in R : p <= q} = R
  <2>1. q <= q
    OBVIOUS
  <2> QED BY <1>3, <2>1
<1>6. \A p \in P : {b \in R : b <= p} = {b \in P : b <= p}
  BY <1>3
<1>7. W!Place(R, q) = Cardinality(R)
  BY <1>5, Counted DEF W!Place
<1>8. \A p \in P : W!Place(R, p) = W!Place(P, p)
  BY <1>6 DEF W!Place
<1> QED BY <1>2, <1>4, <1>7, <1>8

-----------------------------------------------------------------------------
(* What is written of an item                                                 *)

\* An item of a message, in the words of its format.
Fits(f, item) ==
  /\ Len(item.sections) \in Nat /\ DOMAIN item.sections = 1..Len(item.sections)
  /\ item.sections = <<>> <=> Len(item.sections) = 0
  /\ f.section = {} => item.sections = <<>>

\* An item as it is written: a loudness to a tenth.
WrittenAs(f, item) ==
  [of |-> W!Written(f.fields, item.of),
   sections |-> [i \in 1..Len(item.sections) |-> W!Written(f.section, item.sections[i])]]

\* The nodes an item is written as.
ChildNode(f, item) == W!Element(f.child, W!Written(f.fields, item.of))
SectionNode(f, item, i) == W!Element("section", W!Written(f.section, item.sections[i]))
ItemNodes(f, item) ==
  {ChildNode(f, item), W!End(f.child)} \cup {SectionNode(f, item, i) : i \in 1..Len(item.sections)}

\* An item is written as its child, its sections and, behind those, the end.
LEMMA ItemWritten ==
  ASSUME NEW f, NEW item, Fits(f, item), NEW T, ItemNodes(f, item) \subseteq T
  PROVE  LET X == W!WrittenItem(f, item)
             k == Len(item.sections)
         IN /\ X \in Seq(T) /\ Len(X) = IF k = 0 THEN 1 ELSE k + 2
            /\ X[1] = ChildNode(f, item)
            /\ \A i \in 1..k : X[i + 1] = SectionNode(f, item, i)
            /\ k # 0 => X[k + 2] = W!End(f.child)
<1> DEFINE k == Len(item.sections)
           s == [i \in 1..k |-> SectionNode(f, item, i)]
           e == ChildNode(f, item)
           c == W!End(f.child)
           X == W!WrittenItem(f, item)
<1>1. k \in Nat /\ DOMAIN item.sections = 1..k /\ (item.sections = <<>> <=> k = 0)
  BY DEF Fits
<1>2. e \in T /\ c \in T /\ \A i \in 1..k : SectionNode(f, item, i) \in T
  BY DEF ItemNodes
<1>3. s \in Seq(T) /\ Len(s) = k /\ \A i \in 1..k : s[i] = SectionNode(f, item, i)
  <2> HIDE DEF k
  <2> QED BY <1>1, <1>2
<1>4. X = <<e>> \o (IF s = <<>> THEN <<>> ELSE s \o <<c>>)
  BY <1>1 DEF W!WrittenItem, ChildNode, SectionNode
<1>5. s = <<>> <=> k = 0
  BY <1>1, <1>3
<1> HIDE DEF e, c, s, X, k
<1>6. CASE k = 0
  <2>1. X = <<e>>
    BY <1>2, <1>4, <1>5, <1>6
  <2> QED BY <1>2, <1>6, <2>1 DEF e, X, k
<1>7. CASE k # 0
  <2>1. X = <<e>> \o (s \o <<c>>)
    BY <1>4, <1>5, <1>7
  <2>2. X \in Seq(T) /\ Len(X) = k + 2 /\ X[1] = e /\ X[k + 2] = c
    BY <1>1, <1>2, <1>3, <2>1
  <2>3. \A i \in 1..k : X[i + 1] = s[i]
    BY <1>1, <1>2, <1>3, <2>1
  <2> QED BY <1>3, <1>7, <2>2, <2>3 DEF e, c, X, k
<1> QED BY <1>6, <1>7

\* What a document says of a child it says with more behind it, when no section
\* comes there before a child does.
LEMMA SaysLonger ==
  ASSUME NEW d, IsDocument(d), NEW e, IsDocument(e), Len(d) <= Len(e),
         \A p \in 1..Len(d) : e[p] = d[p], NEW f,
         \A q \in Len(d) + 1..Len(e) :
           q \in W!Elements(e, "section") => \E r \in Len(d) + 1..q : W!Named(e, r, f.child),
         NEW p \in 1..Len(d), NEW item, W!Says(d, f, p, item)
  PROVE  W!Says(e, f, p, item)
<1> DEFINE n == Len(d)
<1>0. n \in Nat /\ Len(e) \in Nat /\ DOMAIN d = 1..n /\ DOMAIN e = 1..Len(e) /\ n <= Len(e)
  BY DEF IsDocument
<1>1. \A q \in 1..n : q \in W!Complete(e, "section", f.section) <=> q \in W!Complete(d, "section", f.section)
  BY <1>0 DEF W!Complete, W!Elements, W!Is
<1>2. W!SectionsOf(e, f, p) = W!SectionsOf(d, f, p)
  <2>1. CASE f.section = {}
    BY <2>1 DEF W!SectionsOf
  <2>2. CASE f.section # {}
    <3>1. /\ W!SectionsOf(d, f, p) =
               {q \in W!Complete(d, "section", f.section) : q > p /\ \A r \in p + 1..q : ~W!Named(d, r, f.child)}
          /\ W!SectionsOf(e, f, p) =
               {q \in W!Complete(e, "section", f.section) : q > p /\ \A r \in p + 1..q : ~W!Named(e, r, f.child)}
      BY <2>2 DEF W!SectionsOf
    <3>2. \A r \in 1..n : W!Named(e, r, f.child) <=> W!Named(d, r, f.child)
      BY DEF W!Named
    <3>3. ASSUME NEW q \in W!SectionsOf(d, f, p) PROVE q \in W!SectionsOf(e, f, p)
      <4>1. q \in W!Complete(d, "section", f.section) /\ q > p /\ \A r \in p + 1..q : ~W!Named(d, r, f.child)
        BY <3>1, <3>3
      <4>2. q \in 1..n
        BY <1>0, <4>1 DEF W!Complete, W!Elements
      <4>3. \A r \in p + 1..q : r \in 1..n
        BY <1>0, <4>2
      <4>4. \A r \in p + 1..q : ~W!Named(e, r, f.child)
        BY <3>2, <4>1, <4>3
      <4> QED BY <1>1, <3>1, <4>1, <4>2, <4>4
    <3>4. ASSUME NEW q \in W!SectionsOf(e, f, p) PROVE q \in W!SectionsOf(d, f, p)
      <4>1. q \in W!Complete(e, "section", f.section) /\ q > p /\ \A r \in p + 1..q : ~W!Named(e, r, f.child)
        BY <3>1, <3>4
      <4>2. q \in 1..Len(e) /\ q \in W!Elements(e, "section")
        BY <1>0, <4>1 DEF W!Complete, W!Elements
      <4>3. q \in 1..n
        <5> SUFFICES ASSUME q \notin 1..n PROVE FALSE
          OBVIOUS
        <5>1. q \in n + 1..Len(e)
          BY <1>0, <4>2
        <5>2. PICK r \in n + 1..q : W!Named(e, r, f.child)
          BY <4>2, <5>1
        <5>3. r \in p + 1..q
          BY <1>0, <4>2, <5>2
        <5> QED BY <4>1, <5>2, <5>3
      <4>4. \A r \in p + 1..q : r \in 1..n
        BY <1>0, <4>3
      <4>5. \A r \in p + 1..q : ~W!Named(d, r, f.child)
        BY <3>2, <4>1, <4>4
      <4> QED BY <1>1, <3>1, <4>1, <4>3, <4>5
    <3> QED BY <3>3, <3>4
  <2> QED BY <2>1, <2>2
<1>3. \A q \in W!SectionsOf(d, f, p) : q \in 1..n
  BY <1>0 DEF W!SectionsOf, W!Complete, W!Elements
<1>4. \A q \in 1..n : W!Fields(e[q], f.section) = W!Fields(d[q], f.section)
  BY DEF n
<1> QED BY <1>2, <1>3, <1>4 DEF W!Says

\* In an interval the places are in a row.
LEMMA PlaceInRow ==
  ASSUME NEW a \in Nat, NEW k \in Nat, NEW R, R = a + 1..a + k
  PROVE  Cardinality(R) = k /\ \A q \in R : W!Place(R, q) = q - a
<1>1. \A b \in a..a + k : Cardinality(a + 1..b) = b - a
  <2> SUFFICES ASSUME NEW b \in a..a + k PROVE Cardinality(a + 1..b) = b - a
    OBVIOUS
  <2>1. Cardinality(a + 1..b) = IF a + 1 > b THEN 0 ELSE b - (a + 1) + 1
    BY FS_Interval
  <2> QED BY <2>1
<1>2. Cardinality(R) = k
  <2>1. a + k \in a..a + k /\ a + k - a = k
    OBVIOUS
  <2> QED BY <1>1, <2>1
<1>3. ASSUME NEW q \in R PROVE W!Place(R, q) = q - a
  <2>1. {r \in R : r <= q} = a + 1..q
    OBVIOUS
  <2>2. q \in a..a + k
    OBVIOUS
  <2> QED BY <1>1, <2>1, <2>2, Counted DEF W!Place
<1> QED BY <1>2, <1>3

\* A document that begins with its element and means the items.
Holds(d, f, items) ==
  IsDocument(d) /\ Len(d) >= 1 /\ W!Is(d, 1, "element") /\ W!Means(d, f, items)

\* Then nothing is skipped before the element.
LEMMA RootFirst ==
  ASSUME NEW d, IsDocument(d), Len(d) >= 1, W!Is(d, 1, "element")
  PROVE  W!SkipBlanks(d, 1) = 1
<1> DEFINE q == W!SkipBlanks(d, 1)
<1>0. Len(d) \in Nat /\ 1 \in 1..Len(d) + 1
  BY DEF IsDocument
<1>1. q \in 1..Len(d) + 1 /\ \A r \in 1..q - 1 : W!Is(d, r, "blank")
  BY <1>0, Skipped
<1> HIDE DEF q
<1>2. 1 \notin 1..q - 1
  BY <1>1 DEF W!Is
<1>3. q = 1
  BY <1>0, <1>1, <1>2
<1> QED BY <1>3 DEF q

\* The children of a document are all behind its element.
LEMMA ChildrenAre ==
  ASSUME NEW d, IsDocument(d), Len(d) >= 1, W!Is(d, 1, "element"), NEW f, f.child # "none"
  PROVE  /\ W!ChildrenOf(d, f) = {p \in W!Complete(d, f.child, f.fields) : p > 1}
         /\ W!ChildrenOf(d, f) \subseteq 2..Len(d) /\ W!ChildrenOf(d, f) \subseteq 1..Len(d)
<1>1. W!ChildrenOf(d, f) = {p \in W!Complete(d, f.child, f.fields) : p > 1}
  BY RootFirst DEF W!ChildrenOf
<1>2. W!Complete(d, f.child, f.fields) \subseteq 1..Len(d) /\ Len(d) \in Nat
  BY DEF W!Complete, W!Elements, IsDocument
<1> QED BY <1>1, <1>2

\* What an item with the nodes of its writing behind it says.
LEMMA SaysWritten ==
  ASSUME NEW d, IsDocument(d), NEW f, IsFormat(f), NEW item, Fits(f, item),
         NEW p \in 1..Len(d), d[p] = ChildNode(f, item),
         LET k == Len(item.sections)
         IN /\ Len(d) = IF k = 0 THEN p ELSE p + k + 1
            /\ \A i \in 1..k : d[p + i] = SectionNode(f, item, i)
            /\ k # 0 => d[p + k + 1] = W!End(f.child)
  PROVE  W!Says(d, f, p, WrittenAs(f, item)) /\ \A q \in p + 1..Len(d) : q \notin W!Elements(d, f.child)
<1> DEFINE k == Len(item.sections)
           w == WrittenAs(f, item)
           own == W!SectionsOf(d, f, p)
<1>0. /\ k \in Nat /\ p \in Nat /\ DOMAIN d = 1..Len(d) /\ Len(d) \in Nat
      /\ Len(d) = IF k = 0 THEN p ELSE p + k + 1
      /\ \A i \in 1..k : d[p + i] = SectionNode(f, item, i)
      /\ k # 0 => d[p + k + 1] = W!End(f.child) /\ f.section # {}
  BY DEF Fits, IsDocument
<1>1. w.of = W!Fields(d[p], f.fields)
  BY DEF WrittenAs, W!Fields, ChildNode, W!Element, W!Written
<1>2. \A q \in p + 1..p + k : q - p \in 1..k /\ p + (q - p) = q
  BY <1>0
<1> HIDE DEF k
<1>3. \A q \in p + 1..p + k : d[q] = SectionNode(f, item, q - p)
  BY <1>0, <1>2
<1>4. \A q \in p + 1..Len(d) : q \in p + 1..p + k \/ (k # 0 /\ q = p + k + 1)
  BY <1>0
<1>5. ASSUME NEW q \in p + 1..p + k
      PROVE  /\ q \in W!Complete(d, "section", f.section)
             /\ W!Fields(d[q], f.section) = W!Written(f.section, item.sections[q - p])
             /\ d[q].node = "element" /\ d[q].name = "section"
  <2>1. /\ d[q].node = "element" /\ d[q].name = "section"
        /\ d[q].attrs = W!Written(f.section, item.sections[q - p])
    <3> DEFINE i == q - p
    <3>1. d[q] = SectionNode(f, item, i)
      BY <1>3
    <3> HIDE DEF i
    <3>2. /\ d[q].node = "element" /\ d[q].name = "section"
          /\ d[q].attrs = W!Written(f.section, item.sections[i])
      BY <3>1 DEF SectionNode, W!Element
    <3> QED BY <3>2 DEF i
  <2>2. DOMAIN d[q].attrs = f.section
    BY <2>1 DEF W!Written
  <2>3. q \in 1..Len(d)
    BY <1>0
  <2> QED BY <1>0, <2>1, <2>2, <2>3 DEF W!Complete, W!Elements, W!Is, W!Has, W!Fields, W!Written
<1>6. \A q \in p + 1..Len(d) : q \notin W!Elements(d, f.child)
  <2> SUFFICES ASSUME NEW q \in p + 1..Len(d) PROVE q \notin W!Elements(d, f.child)
    OBVIOUS
  <2>1. CASE q \in p + 1..p + k
    <3>1. k # 0
      BY <1>0, <2>1
    <3>2. f.child # "section"
      BY <1>0, <3>1 DEF IsFormat
    <3> QED BY <1>5, <2>1, <3>2 DEF W!Elements
  <2>2. CASE k # 0 /\ q = p + k + 1
    BY <1>0, <2>2 DEF W!End, W!Elements, W!Is
  <2> QED BY <1>4, <2>1, <2>2
<1>7. own = p + 1..p + k
  <2>1. CASE f.section = {}
    <3>1. k = 0
      BY <1>0, <2>1
    <3>2. p + 1..p + 0 = {}
      BY <1>0
    <3> QED BY <2>1, <3>1, <3>2 DEF W!SectionsOf
  <2>2. CASE f.section # {}
    <3>1. own = {q \in W!Complete(d, "section", f.section) :
                   q > p /\ \A r \in p + 1..q : ~W!Named(d, r, f.child)}
      BY <2>2 DEF W!SectionsOf
    <3>2. ASSUME NEW q \in own PROVE q \in p + 1..p + k
      <4>1. q \in 1..Len(d) /\ q > p /\ d[q].node = "element"
        BY <1>0, <3>1 DEF W!Complete, W!Elements, W!Is
      <4>2. ~(k # 0 /\ q = p + k + 1)
        BY <1>0, <4>1 DEF W!End
      <4>3. q \in p + 1..Len(d)
        BY <1>0, <4>1
      <4> QED BY <1>4, <4>2, <4>3
    <3>3. ASSUME NEW q \in p + 1..p + k PROVE q \in own
      <4>1. \A r \in p + 1..q : r \in p + 1..p + k
        BY <1>0
      <4>2. \A r \in p + 1..q : ~W!Named(d, r, f.child)
        BY <1>5, <2>2, <4>1 DEF W!Named, IsFormat
      <4>3. q > p
        BY <1>0
      <4> QED BY <1>5, <3>1, <4>2, <4>3
    <3> QED BY <3>2, <3>3
  <2> QED BY <2>1, <2>2
<1>8. Cardinality(own) = k /\ \A q \in own : W!Place(own, q) = q - p
  BY <1>0, <1>7, PlaceInRow
<1>9. Len(w.sections) = k /\ \A q \in own : w.sections[q - p] = W!Written(f.section, item.sections[q - p])
  <2>1. w.sections = [i \in 1..k |-> W!Written(f.section, item.sections[i])]
    BY DEF WrittenAs, k
  <2> HIDE DEF w
  <2> QED BY <1>0, <1>2, <1>7, <2>1
<1>10. W!Says(d, f, p, w)
  <2> HIDE DEF own, w
  <2>1. \A q \in own : w.sections[W!Place(own, q)] = W!Fields(d[q], f.section)
    BY <1>5, <1>7, <1>8, <1>9
  <2> QED BY <1>1, <1>8, <1>9, <2>1, Counted DEF W!Says, own
<1> QED BY <1>6, <1>10

\* An item is written behind a document that means some.
WrittenBehind(T, d, f, m, item, more, e) ==
  /\ d \in Seq(T) /\ f.child # "none" /\ IsFormat(f) /\ Holds(d, f, m)
  /\ Fits(f, item) /\ ItemNodes(f, item) \subseteq T
  /\ Len(more) = Len(m) + 1 /\ \A i \in 1..Len(m) : more[i] = m[i]
  /\ more[Len(m) + 1] = WrittenAs(f, item)
  /\ e = d \o W!WrittenItem(f, item)

\* Then the document means one more.
LEMMA ToldMore ==
  ASSUME NEW T, NEW d, NEW f, NEW m, NEW item, NEW more, NEW e,
         WrittenBehind(T, d, f, m, item, more, e)
  PROVE  e \in Seq(T) /\ Holds(e, f, more)
<1> USE DEF WrittenBehind
<1> DEFINE n == Len(d)
           k == Len(item.sections)
           X == W!WrittenItem(f, item)
           before == W!ChildrenOf(d, f)
           all == W!ChildrenOf(e, f)
<1>0. /\ n \in Nat /\ n >= 1 /\ IsDocument(d) /\ W!Is(d, 1, "element")
      /\ W!Means(d, f, m) /\ DOMAIN d = 1..n
  BY DEF Holds, IsDocument
<1>1. /\ X \in Seq(T) /\ Len(X) = IF k = 0 THEN 1 ELSE k + 2
      /\ X[1] = ChildNode(f, item)
      /\ \A i \in 1..k : X[i + 1] = SectionNode(f, item, i)
      /\ k # 0 => X[k + 2] = W!End(f.child)
  BY ItemWritten
<1>2. k \in Nat
  BY DEF Fits
<1> HIDE DEF k, X
<1>3. e = d \o X
  BY DEF X
<1>4. /\ e \in Seq(T) /\ Len(e) = n + Len(X)
      /\ \A p \in 1..n : e[p] = d[p]
      /\ \A p \in 1..Len(X) : e[n + p] = X[p]
  <2>1. X \in Seq(T) /\ Len(X) \in Nat
    BY <1>1, <1>2
  <2>2. e \in Seq(T) /\ Len(e) = Len(d) + Len(X)
    BY <1>3, <2>1
  <2>3. \A p \in 1..Len(e) : e[p] = IF p <= Len(d) THEN d[p] ELSE X[p - Len(d)]
    BY <1>3, <2>1
  <2>4. \A p \in 1..n : p \in 1..Len(e) /\ p <= Len(d)
    BY <1>0, <2>1, <2>2
  <2>5. \A p \in 1..Len(X) : n + p \in 1..Len(e) /\ ~(n + p <= Len(d)) /\ n + p - Len(d) = p
    BY <1>0, <2>1, <2>2
  <2> QED BY <2>2, <2>3, <2>4, <2>5
<1>5. /\ Len(e) = IF k = 0 THEN n + 1 ELSE n + 1 + k + 1
      /\ IsDocument(e) /\ n + 1 \in 1..Len(e)
  <2>1. Len(e) \in Nat /\ DOMAIN e = 1..Len(e)
    BY <1>4
  <2> QED BY <1>0, <1>1, <1>2, <1>4, <2>1 DEF IsDocument
<1>6. /\ e[n + 1] = ChildNode(f, item)
      /\ \A i \in 1..k : e[n + 1 + i] = SectionNode(f, item, i)
      /\ k # 0 => e[n + 1 + k + 1] = W!End(f.child)
  <2>1. 1 \in 1..Len(X)
    BY <1>1, <1>2
  <2>2. ASSUME NEW i \in 1..k PROVE e[n + 1 + i] = SectionNode(f, item, i)
    <3>1. i + 1 \in 1..Len(X) /\ n + (i + 1) = n + 1 + i
      BY <1>0, <1>1, <1>2
    <3> QED BY <1>1, <1>4, <3>1
  <2>3. ASSUME k # 0 PROVE e[n + 1 + k + 1] = W!End(f.child)
    <3>1. k + 2 \in 1..Len(X) /\ n + (k + 2) = n + 1 + k + 1
      BY <1>0, <1>1, <1>2, <2>3
    <3> QED BY <1>1, <1>4, <2>3, <3>1
  <2> QED BY <1>1, <1>4, <2>1, <2>2, <2>3
<1>7. W!Is(e, 1, "element")
  BY <1>0, <1>4, <1>5 DEF W!Is
<1> DEFINE p0 == n + 1
<1>8. /\ W!Says(e, f, p0, WrittenAs(f, item))
      /\ \A q \in p0 + 1..Len(e) : q \notin W!Elements(e, f.child)
  <2> HIDE DEF n
  <2>1. p0 \in 1..Len(e) /\ e[p0] = ChildNode(f, item)
    BY <1>5, <1>6
  <2>2. /\ Len(e) = IF k = 0 THEN p0 ELSE p0 + k + 1
        /\ \A i \in 1..k : e[p0 + i] = SectionNode(f, item, i)
        /\ k # 0 => e[p0 + k + 1] = W!End(f.child)
    BY <1>5, <1>6
  <2> HIDE DEF p0
  <2> QED BY <1>5, <2>1, <2>2, SaysWritten DEF k
<1>9. e[p0].node = "element" /\ e[p0].name = f.child /\ DOMAIN e[p0].attrs = f.fields
  BY <1>6 DEF ChildNode, W!Element, W!Written
<1>10. p0 \in W!Complete(e, f.child, f.fields)
  <2>1. p0 \in DOMAIN e /\ p0 <= Len(e)
    BY <1>0, <1>5 DEF IsDocument
  <2> HIDE DEF p0
  <2> QED BY <1>9, <2>1 DEF W!Complete, W!Elements, W!Is, W!Has
<1>11. \A q \in 1..n : q \in W!Complete(e, f.child, f.fields) <=> q \in W!Complete(d, f.child, f.fields)
  BY <1>0, <1>4, <1>5 DEF IsDocument, W!Complete, W!Elements, W!Is
<1>12. /\ before = {q \in W!Complete(d, f.child, f.fields) : q > 1} /\ before \subseteq 1..n
       /\ all = {q \in W!Complete(e, f.child, f.fields) : q > 1} /\ all \subseteq 1..Len(e)
  <2>1. Len(e) >= 1
    BY <1>0, <1>5
  <2>2. /\ before = {q \in W!Complete(d, f.child, f.fields) : q > 1}
        /\ before \subseteq 1..Len(d)
    BY <1>0, ChildrenAre
  <2>3. /\ all = {q \in W!Complete(e, f.child, f.fields) : q > 1}
        /\ all \subseteq 1..Len(e)
    <3> HIDE DEF n, p0, before
    <3> QED BY <1>5, <1>7, <2>1, ChildrenAre
  <2> QED BY <2>2, <2>3
<1> HIDE DEF before, all
<1>13. all = before \cup {p0}
  <2>1. p0 \in all
    BY <1>0, <1>10, <1>12
  <2>2. before \subseteq all
    BY <1>11, <1>12
  <2>3. ASSUME NEW q \in all, q # p0 PROVE q \in before
    <3>1. q \in 1..Len(e) /\ q > 1 /\ q \in W!Complete(e, f.child, f.fields)
      BY <1>12
    <3>2. q \in W!Elements(e, f.child)
      BY <3>1 DEF W!Complete
    <3>3. q \notin p0 + 1..Len(e)
      BY <1>8, <3>2
    <3>4. q \in 1..n
      BY <1>0, <1>5, <2>3, <3>1, <3>3
    <3> QED BY <1>11, <1>12, <3>1, <3>4
  <2> QED BY <2>1, <2>2, <2>3
<1>14. PutLast(n, p0, before, all)
  BY <1>0, <1>12, <1>13 DEF PutLast
<1>15. /\ Cardinality(before) \in Nat /\ Cardinality(all) = Cardinality(before) + 1
       /\ W!Place(all, p0) = Cardinality(before) + 1
       /\ \A q \in before : W!Place(all, q) = W!Place(before, q)
  BY <1>14, OnePlaceBehind
<1>16. /\ Len(m) = Cardinality(before)
       /\ \A q \in before : W!Place(before, q) \in 1..Len(m) /\ W!Says(d, f, q, m[W!Place(before, q)])
  <2>1. /\ Len(m) = Cardinality(before)
        /\ \A q \in before : W!Place(before, q) <= Len(m) => W!Says(d, f, q, m[W!Place(before, q)])
    BY <1>0, Counted DEF W!Means, W!Tells, before
  <2>2. \A q \in before : W!Place(before, q) \in 1..Cardinality(before)
    BY <1>0, <1>12, PlaceIn
  <2> QED BY <1>15, <2>1, <2>2
<1>17. ASSUME NEW q \in all PROVE W!Says(e, f, q, more[W!Place(all, q)])
  <2>1. CASE q = p0
    BY <1>8, <1>15, <1>16, <2>1
  <2>2. CASE q \in before
    <3> DEFINE i == W!Place(before, q)
    <3>1. i \in 1..Len(m) /\ W!Says(d, f, q, m[i]) /\ W!Place(all, q) = i
      BY <1>15, <1>16, <2>2
    <3> HIDE DEF i
    <3>2. q \in 1..Len(d)
      BY <1>12, <2>2
    <3>3. \A r \in Len(d) + 1..Len(e) :
            r \in W!Elements(e, "section") => \E s \in Len(d) + 1..r : W!Named(e, s, f.child)
      <4>1. W!Named(e, p0, f.child)
        BY <1>9 DEF W!Named
      <4>2. \A r \in Len(d) + 1..Len(e) : p0 \in Len(d) + 1..r
        BY <1>0
      <4> QED BY <4>1, <4>2
    <3>4. Len(d) <= Len(e)
      BY <1>0, <1>5
    <3>5. W!Says(e, f, q, m[i])
      BY <1>0, <1>4, <1>5, <3>1, <3>2, <3>3, <3>4, SaysLonger
    <3> QED BY <3>1, <3>5
  <2> QED BY <1>13, <2>1, <2>2
<1>18. W!Means(e, f, more)
  <2>1. Len(more) = Cardinality(all)
    BY <1>15, <1>16
  <2>2. Len(more) <= Cardinality(all)
    BY <1>15, <2>1
  <2> QED BY <1>17, <2>1, <2>2, Counted DEF W!Means, W!Tells, all
<1> QED BY <1>0, <1>4, <1>5, <1>7, <1>18 DEF Holds

\* An end tag behind a document changes nothing of what it means.
LEMMA ToldToTheEnd ==
  ASSUME NEW T, NEW d \in Seq(T), NEW f, f.child # "none", NEW m, Holds(d, f, m),
         NEW t, W!End(t) \in T, NEW e, e = d \o <<W!End(t)>>
  PROVE  Holds(e, f, m)
<1> DEFINE n == Len(d)
           c == W!End(t)
<1>0. /\ n \in Nat /\ n >= 1 /\ IsDocument(d) /\ W!Is(d, 1, "element")
      /\ W!Means(d, f, m) /\ DOMAIN d = 1..n
  BY DEF Holds, IsDocument
<1>1. c.node = "end"
  BY DEF W!End
<1> HIDE DEF c
<1>2. /\ Len(e) = n + 1 /\ \A p \in 1..n : e[p] = d[p]
      /\ e[n + 1] = c /\ IsDocument(e)
  <2>1. c \in T /\ e = d \o <<c>>
    BY DEF c
  <2>2. Len(e) = n + 1 /\ DOMAIN e = 1..n + 1 /\ e[n + 1] = c /\ \A p \in 1..n : e[p] = d[p]
    BY <2>1
  <2> QED BY <1>0, <2>2 DEF IsDocument
<1>3. W!Is(e, 1, "element") /\ Len(e) >= 1
  BY <1>0, <1>2 DEF W!Is
<1>4. \A name : \A q \in n + 1..Len(e) : q \notin W!Elements(e, name)
  <2>1. ASSUME NEW q \in n + 1..Len(e) PROVE e[q].node = "end"
    <3>1. q = n + 1
      BY <1>0, <1>2
    <3> QED BY <1>1, <1>2, <3>1
  <2> QED BY <2>1 DEF W!Elements, W!Is
<1>5. \A q \in 1..n : q \in W!Complete(e, f.child, f.fields) <=> q \in W!Complete(d, f.child, f.fields)
  BY <1>0, <1>2 DEF IsDocument, W!Complete, W!Elements, W!Is
<1>6. /\ W!ChildrenOf(d, f) = {q \in W!Complete(d, f.child, f.fields) : q > 1}
      /\ W!ChildrenOf(d, f) \subseteq 1..n
      /\ W!ChildrenOf(e, f) = {q \in W!Complete(e, f.child, f.fields) : q > 1}
      /\ W!ChildrenOf(e, f) \subseteq 1..Len(e)
  <2>1. /\ W!ChildrenOf(d, f) = {q \in W!Complete(d, f.child, f.fields) : q > 1}
        /\ W!ChildrenOf(d, f) \subseteq 1..Len(d)
    BY <1>0, ChildrenAre
  <2>2. /\ W!ChildrenOf(e, f) = {q \in W!Complete(e, f.child, f.fields) : q > 1}
        /\ W!ChildrenOf(e, f) \subseteq 1..Len(e)
    BY <1>2, <1>3, ChildrenAre
  <2> QED BY <2>1, <2>2
<1>7. W!ChildrenOf(e, f) = W!ChildrenOf(d, f)
  <2>1. ASSUME NEW q \in W!ChildrenOf(e, f) PROVE q \in 1..n
    <3>1. q \in 1..Len(e) /\ q \in W!Elements(e, f.child)
      BY <1>6 DEF W!Complete
    <3>2. q \notin n + 1..Len(e)
      BY <1>4, <3>1
    <3> QED BY <1>0, <1>2, <3>1, <3>2
  <2> QED BY <1>5, <1>6, <2>1
<1>8. ASSUME NEW p \in W!ChildrenOf(d, f), NEW item, W!Says(d, f, p, item)
      PROVE  W!Says(e, f, p, item)
  <2>1. p \in 1..Len(d) /\ Len(d) <= Len(e)
    BY <1>0, <1>2, <1>6
  <2>2. \A q \in Len(d) + 1..Len(e) :
          q \in W!Elements(e, "section") => \E r \in Len(d) + 1..q : W!Named(e, r, f.child)
    BY <1>4
  <2> QED BY <1>0, <1>2, <1>8, <2>1, <2>2, SaysLonger
<1>9. W!Means(e, f, m)
  BY <1>0, <1>7, <1>8 DEF W!Means, W!Tells
<1> QED BY <1>2, <1>3, <1>9 DEF Holds

\* A list of items to be written in a format.
Writable(f, items) ==
  /\ Len(items) \in Nat /\ DOMAIN items = 1..Len(items)
  /\ \A i \in 1..Len(items) : Fits(f, items[i])

Parts(f, items) == [i \in DOMAIN items |-> W!WrittenItem(f, items[i])]

Nodes(f, root, items) ==
  {W!Element(f.type, root), W!End(f.type)}
    \cup UNION {ItemNodes(f, items[i]) : i \in 1..Len(items)}

\* The parts of a message are sequences of its nodes.
LEMMA PartsLaid ==
  ASSUME NEW f, NEW root, NEW items, Writable(f, items)
  PROVE  /\ Laid(Len(items), Parts(f, items), Nodes(f, root, items))
         /\ \A i \in 1..Len(items) : /\ Parts(f, items)[i] = W!WrittenItem(f, items[i])
                                     /\ ItemNodes(f, items[i]) \subseteq Nodes(f, root, items)
<1> DEFINE T == Nodes(f, root, items)
<1>1. ASSUME NEW i \in 1..Len(items)
      PROVE  Fits(f, items[i]) /\ ItemNodes(f, items[i]) \subseteq T
  BY DEF Writable, Nodes
<1>2. \A i \in 1..Len(items) : Parts(f, items)[i] = W!WrittenItem(f, items[i])
  BY DEF Parts, Writable
<1> HIDE DEF T
<1>3. \A i \in 1..Len(items) : W!WrittenItem(f, items[i]) \in Seq(T)
  BY <1>1, ItemWritten
<1> QED BY <1>1, <1>2, <1>3 DEF Laid, Writable, T

\* What is written item by item means them all.
LEMMA ToldAll ==
  ASSUME NEW f, f.child # "none", IsFormat(f), NEW root, NEW items, Writable(f, items),
         NEW F, Joins(F, Len(items), Parts(f, items)),
         NEW m, Len(m) = Len(items), \A i \in 1..Len(items) : m[i] = WrittenAs(f, items[i])
  PROVE  LET d == <<W!Element(f.type, root)>> \o F[Len(items)]
         IN d \in Seq(Nodes(f, root, items)) /\ Holds(d, f, m)
<1> DEFINE n == Len(items)
           T == Nodes(f, root, items)
           x == Parts(f, items)
           r == W!Element(f.type, root)
           upto(k) == [i \in 1..k |-> m[i]]
           H == {k \in 0..n : <<r>> \o F[k] \in Seq(T) /\ Holds(<<r>> \o F[k], f, upto(k))}
<1>0. /\ n \in Nat /\ \A i \in 1..n : Fits(f, items[i])
      /\ \A i \in 1..n : x[i] = W!WrittenItem(f, items[i]) /\ ItemNodes(f, items[i]) \subseteq T
      /\ Laid(n, x, T) /\ Joins(F, n, x)
  BY PartsLaid DEF Writable
<1>1. r \in T /\ r.node = "element" /\ r.node # "end"
  BY DEF Nodes, W!Element
<1> HIDE DEF T, x, r
<1>2. /\ F[0] = <<>> /\ \A i \in 0..n : F[i] \in Seq(T)
      /\ \A i \in 0..n - 1, j \in 1..n : j = i + 1 => F[j] = F[i] \o x[j]
  <2>1. Grows(F, n, x, T)
    BY <1>0, JoinIs
  <2> QED BY <2>1 DEF Grows
<1> HIDE DEF n
<1>3. 0 \in H
  <2> DEFINE d == <<r>> \o F[0]
  <2>1. d = <<r>>
    BY <1>1, <1>2
  <2> HIDE DEF d, H, upto
  <2>2. d \in Seq(T) /\ Len(d) = 1 /\ DOMAIN d = 1..1 /\ d[1] = r
    BY <1>1, <2>1
  <2>3. IsDocument(d) /\ W!Is(d, 1, "element") /\ Len(d) >= 1
    BY <1>1, <2>2 DEF IsDocument, W!Is
  <2>4. W!ChildrenOf(d, f) = {}
    <3>1. W!ChildrenOf(d, f) \subseteq 2..Len(d)
      BY <2>3, ChildrenAre
    <3> QED BY <2>2, <3>1
  <2>5. Len(upto(0)) = 0
    BY DEF upto
  <2>6. W!Means(d, f, upto(0))
    BY <2>4, <2>5, Counted, FS_EmptySet DEF W!Means, W!Tells
  <2>7. 0 \in 0..n
    BY <1>0
  <2> QED BY <2>2, <2>3, <2>6, <2>7 DEF Holds, H, d
<1>4. ASSUME NEW k \in 0..n - 1, k \in H PROVE k + 1 \in H
  <2> DEFINE j == k + 1
             d == <<r>> \o F[k]
             e == <<r>> \o F[j]
  <2>0. k \in Nat /\ j \in 1..n /\ j \in 0..n /\ k \in 0..n /\ j = k + 1
    BY <1>0
  <2>1. d \in Seq(T) /\ Holds(d, f, upto(k))
    BY <1>4
  <2>2. Len(upto(k)) = k /\ Len(upto(j)) = k + 1
    BY <2>0
  <2>3. \A i \in 1..k : upto(j)[i] = upto(k)[i]
    BY <2>0
  <2>4. upto(j)[k + 1] = WrittenAs(f, items[j])
    BY <2>0 DEF n
  <2> HIDE DEF j, H, upto
  <2>5. e = d \o W!WrittenItem(f, items[j])
    <3>1. F[j] = F[k] \o x[j] /\ x[j] = W!WrittenItem(f, items[j])
      BY <1>0, <1>2, <2>0
    <3>2. x[j] \in Seq(T) /\ F[k] \in Seq(T) /\ <<r>> \in Seq(T)
      BY <1>0, <1>1, <1>2, <2>0 DEF Laid
    <3> DEFINE first == <<r>>
    <3>3. e = first \o (F[k] \o x[j]) /\ d = first \o F[k]
      BY <3>1
    <3> HIDE DEF d, e, first
    <3>4. first \o (F[k] \o x[j]) = (first \o F[k]) \o x[j]
      <4> DEFINE a == F[k]
                 b == x[j]
      <4>1. first \in Seq(T) /\ a \in Seq(T) /\ b \in Seq(T)
        BY <3>2 DEF first
      <4> HIDE DEF a, b
      <4>2. (first \o a) \o b = first \o (a \o b)
        BY <4>1, ConcatAssociative
      <4> QED BY <4>2 DEF a, b
    <3> QED BY <3>1, <3>3, <3>4
  <2> HIDE DEF d, e
  <2>6. Fits(f, items[j]) /\ ItemNodes(f, items[j]) \subseteq T
    BY <1>0, <2>0
  <2>7. e \in Seq(T) /\ Holds(e, f, upto(j))
    <3> DEFINE before == upto(k)
               after == upto(j)
    <3>1. /\ Len(after) = Len(before) + 1 /\ \A i \in 1..Len(before) : after[i] = before[i]
          /\ after[Len(before) + 1] = WrittenAs(f, items[j]) /\ Holds(d, f, before)
      BY <2>1, <2>2, <2>3, <2>4
    <3> HIDE DEF before, after
    <3>2. WrittenBehind(T, d, f, before, items[j], after, e)
      BY <2>1, <2>5, <2>6, <3>1 DEF WrittenBehind
    <3>3. e \in Seq(T) /\ Holds(e, f, after)
      BY <3>2, ToldMore
    <3> QED BY <3>3 DEF after
  <2> QED BY <2>0, <2>7 DEF H, e
<1>5. n \in H
  <2> HIDE DEF H
  <2>1. 0..n \subseteq H
    BY <1>0, <1>3, <1>4, Climb
  <2> QED BY <1>0, <2>1
<1>6. W!Means(<<r>> \o F[n], f, m)
  <2> DEFINE d == <<r>> \o F[n]
  <2>1. W!Means(d, f, upto(n))
    BY <1>5 DEF Holds
  <2>2. Len(upto(n)) = Len(m) /\ \A i \in 1..n : upto(n)[i] = m[i]
    BY <1>0 DEF n
  <2> HIDE DEF d, upto, H
  <2>3. IsDocument(d) /\ Len(d) >= 1 /\ W!Is(d, 1, "element")
    BY <1>5 DEF Holds, d, H
  <2>4. \A p \in W!ChildrenOf(d, f) : W!Place(W!ChildrenOf(d, f), p) \in 1..Cardinality(W!ChildrenOf(d, f))
    <3>1. W!ChildrenOf(d, f) \subseteq 1..Len(d) /\ Len(d) \in Nat
      BY <2>3, ChildrenAre DEF IsDocument
    <3> QED BY <3>1, PlaceIn
  <2>5. Len(m) = n /\ Len(m) = Cardinality(W!ChildrenOf(d, f))
    BY <2>1, <2>2, Counted DEF W!Means, n
  <2>6. W!Means(d, f, m)
    BY <2>1, <2>2, <2>4, <2>5 DEF W!Means, W!Tells
  <2> QED BY <2>6 DEF d
<1> QED BY <1>5, <1>6 DEF Holds, n, T, r

\* Each type of message has one writer.
LEMMA WritersDiffer ==
  /\ \A v, w \in W!Writers : v.type = w.type => v = w
  /\ {W!ScheduleOut, W!PlaybackListOut, W!LogListOut, W!UserLoudnessOut, W!ChannelListOut} \subseteq W!Writers
  /\ W!ScheduleOut.type = "schedule" /\ W!PlaybackListOut.type = "playback_list"
  /\ W!LogListOut.type = "log_list" /\ W!UserLoudnessOut.type = "user_loudness"
  /\ W!ChannelListOut.type = "channel_list"
<1>1. \A t, c, x : W!Bare(t).type = t /\ W!ListOf(t, c, x).type = t
  BY DEF W!Bare, W!ListOf
<1>2. W!UserLoudness.type = "user_loudness"
  BY DEF W!UserLoudness, W!Bare, W!ListOf
<1>3. /\ W!AckOut.type = "ack" /\ W!AliveOut.type = "alive" /\ W!LoudnessOut.type = "loudness"
      /\ W!StatusOut.type = "status" /\ W!ScheduleOut.type = "schedule"
      /\ W!PlaybackListOut.type = "playback_list" /\ W!LogListOut.type = "log_list"
      /\ W!UserLoudnessOut.type = "user_loudness" /\ W!ChannelListOut.type = "channel_list"
  BY <1>1, <1>2 DEF W!AckOut, W!Ack, W!AliveOut, W!Alive, W!LoudnessOut, W!StatusOut,
       W!ScheduleOut, W!Schedule, W!PlaybackListOut, W!LogListOut, W!UserLoudnessOut, W!ChannelListOut
<1>4. \A w \in W!Writers :
        \/ w = W!AckOut \/ w = W!AliveOut \/ w = W!LoudnessOut \/ w = W!StatusOut
        \/ w = W!ScheduleOut \/ w = W!PlaybackListOut \/ w = W!LogListOut
        \/ w = W!UserLoudnessOut \/ w = W!ChannelListOut
  BY DEF W!Writers
<1>5. \A v, w \in W!Writers : v.type = w.type => v = w
  BY <1>3, <1>4
<1>6. {W!ScheduleOut, W!PlaybackListOut, W!LogListOut, W!UserLoudnessOut, W!ChannelListOut} \subseteq W!Writers
  BY DEF W!Writers
<1> QED BY <1>3, <1>5, <1>6

\* The element a message is written into.
RootOf(f, message) ==
  IF W!Numbered(f) THEN [ip |-> message.ip, number |-> message.number] ELSE [ip |-> message.ip]

\* A message is written as its element and then the items; and what that is
\* made of.
LEMMA GeneratedAs ==
  ASSUME NEW message, NEW f \in W!Writers, f.type = message.type, Writable(f, message.items)
  PROVE  LET items == message.items
             told == W!Generate(message)
             r == W!Element(f.type, RootOf(f, message))
             T == Nodes(f, RootOf(f, message), items)
         IN \E F : /\ Joins(F, Len(items), Parts(f, items))
                   /\ r \in T /\ W!End(f.type) \in T /\ F[Len(items)] \in Seq(T)
                   /\ \/ told = <<r>> \o F[Len(items)]
                      \/ told = (<<r>> \o F[Len(items)]) \o <<W!End(f.type)>>
<1> DEFINE items == message.items
           told == W!Generate(message)
           root == RootOf(f, message)
           r == W!Element(f.type, root)
           c == W!End(f.type)
           n == Len(items)
           x == Parts(f, items)
           T == Nodes(f, root, items)
<1>0. n \in Nat /\ DOMAIN items = 1..n
  BY DEF Writable
<1>1. PICK F : Joins(F, n, x)
  BY <1>0, Joined
<1>2. Laid(n, x, T) /\ r \in T /\ c \in T
  <2>1. r \in T /\ c \in T
    <3> HIDE DEF r, c
    <3> QED BY DEF Nodes, r, c
  <2> HIDE DEF T
  <2>2. Laid(n, x, T)
    BY PartsLaid DEF T
  <2> QED BY <2>1, <2>2
<1>3. DOMAIN x = 1..n /\ Len(x) = n /\ (n = 0 => x = <<>>)
  <2> HIDE DEF n
  <2>1. x = [i \in 1..n |-> W!WrittenItem(f, items[i])]
    BY <1>0 DEF Parts
  <2> HIDE DEF x
  <2> QED BY <1>0, <2>1
<1>4. F[n] \in Seq(T)
  <2>1. Grows(F, n, x, T)
    BY <1>1, <1>2, JoinIs
  <2> QED BY <1>0, <2>1 DEF Grows
<1>5. W!FlattenSeq(x) = F[n]
  <2> HIDE DEF n, x, T
  <2> QED BY <1>1, <1>2, <1>3, Flattened
<1>6. told = <<r>> \o (IF W!FlattenSeq(x) = <<>> THEN <<>> ELSE W!FlattenSeq(x) \o <<c>>)
  <2>1. f = CHOOSE w \in W!Writers : w.type = message.type
    BY WritersDiffer
  <2> QED BY <2>1 DEF W!Generate, RootOf, Parts
<1>7. told = <<r>> \o F[n] \/ told = (<<r>> \o F[n]) \o <<c>>
  <2> HIDE DEF n, x, told, r, c, T
  <2>1. CASE F[n] = <<>>
    BY <1>5, <1>6, <2>1
  <2>2. CASE F[n] # <<>>
    <3> DEFINE a == <<r>>
               b == F[n]
               z == <<c>>
    <3>0. a \in Seq(T) /\ z \in Seq(T)
      BY <1>2
    <3> HIDE DEF a, z
    <3>1. b \in Seq(T) /\ told = a \o (b \o z)
      BY <1>4, <1>5, <1>6, <2>2, Zenon DEF a, z
    <3> HIDE DEF a, b, z
    <3>2. (a \o b) \o z = a \o (b \o z)
      BY <3>0, <3>1, ConcatAssociative
    <3> QED BY <3>1, <3>2, Zenon DEF a, b, z
  <2> QED BY <2>1, <2>2
<1> HIDE DEF n, x, told, T, r, c
<1>8. \E G : /\ Joins(G, n, x) /\ r \in T /\ c \in T /\ G[n] \in Seq(T)
             /\ \/ told = <<r>> \o G[n]
                \/ told = (<<r>> \o G[n]) \o <<c>>
  BY <1>1, <1>2, <1>4, <1>7
<1> QED BY <1>8 DEF n, x, told, T, r, c

\* What is written begins with the element of its type.
LEMMA GeneratedFirst ==
  ASSUME NEW message, NEW f \in W!Writers, f.type = message.type, Writable(f, message.items)
  PROVE  W!Generate(message)[1] = W!Element(f.type, RootOf(f, message))
<1> DEFINE told == W!Generate(message)
           r == W!Element(f.type, RootOf(f, message))
           c == W!End(f.type)
           n == Len(message.items)
           T == Nodes(f, RootOf(f, message), message.items)
<1>1. PICK F : /\ r \in T /\ c \in T /\ F[n] \in Seq(T)
               /\ told = <<r>> \o F[n] \/ told = (<<r>> \o F[n]) \o <<c>>
  BY GeneratedAs
<1> HIDE DEF told, r, c, n, T
<1> DEFINE b == F[n]
<1>2. b \in Seq(T) /\ (told = <<r>> \o b \/ told = (<<r>> \o b) \o <<c>>)
  BY <1>1
<1> HIDE DEF b
<1>3. told[1] = r
  <2> DEFINE d == <<r>> \o b
             e == d \o <<c>>
  <2>1. <<r>> \in Seq(T) /\ Len(<<r>>) = 1 /\ <<r>>[1] = r /\ <<c>> \in Seq(T)
    BY <1>1
  <2>2. d \in Seq(T) /\ Len(d) >= 1 /\ d[1] = r
    BY <1>2, <2>1
  <2> HIDE DEF d
  <2>3. e[1] = d[1]
    BY <2>1, <2>2
  <2>4. told = d \/ told = e
    BY <1>2 DEF d
  <2> HIDE DEF e
  <2> QED BY <2>2, <2>3, <2>4
<1> QED BY <1>3 DEF told, r

\* A message that is written means its items.
LEMMA GeneratedMeans ==
  ASSUME NEW message, NEW f \in W!Writers, f.type = message.type, Writable(f, message.items),
         f.child # "none", IsFormat(f),
         NEW m, Len(m) = Len(message.items),
         \A i \in 1..Len(message.items) : m[i] = WrittenAs(f, message.items[i])
  PROVE  W!Means(W!Generate(message), f, m)
<1> DEFINE told == W!Generate(message)
           items == message.items
           root == RootOf(f, message)
           r == W!Element(f.type, root)
           c == W!End(f.type)
           n == Len(items)
           T == Nodes(f, root, items)
<1>1. PICK F : /\ Joins(F, n, Parts(f, items))
               /\ r \in T /\ c \in T /\ F[n] \in Seq(T)
               /\ told = <<r>> \o F[n] \/ told = (<<r>> \o F[n]) \o <<c>>
  BY GeneratedAs
<1> DEFINE d == <<r>> \o F[n]
<1>2. d \in Seq(T) /\ Holds(d, f, m)
  BY <1>1, ToldAll
<1> HIDE DEF told, T, d
<1>3. Holds(d \o <<c>>, f, m)
  BY <1>1, <1>2, ToldToTheEnd
<1>4. told = d \/ told = d \o <<c>>
  BY <1>1 DEF d
<1> QED BY <1>2, <1>3, <1>4 DEF Holds, told

\* What the schedule in memory is made of.
Scheduled == [W!ScheduleCard -> Nat]
ScheduleIs == schedule \in Seq(Scheduled)

\* An entry as it is told, if it is.
One(i) == IF IsRecent(i) THEN <<schedule[i]>> ELSE <<>>

\* Entries that are not old are told one behind the other.
LEMMA RecentJoined ==
  ASSUME ScheduleIs
  PROVE  \E h : /\ Joins(h, Len(schedule), [i \in 1..Len(schedule) |-> One(i)])
                /\ Recent = h[Len(schedule)]
<1> DEFINE n == Len(schedule)
           x == [i \in 1..n |-> One(i)]
           Up(g) == g = [i \in 0..n |-> IF i = 0 THEN <<>>
                           ELSE g[i - 1] \o (IF IsRecent(i) THEN <<schedule[i]>> ELSE <<>>)]
           h == CHOOSE g : Up(g)
<1>0. n \in Nat
  BY DEF ScheduleIs
<1>1. PICK F : Joins(F, n, x)
  BY <1>0, Joined
<1>2. \A g : Joins(g, n, x) <=> Up(g)
  <2> SUFFICES ASSUME NEW g PROVE Joins(g, n, x) <=> Up(g)
    OBVIOUS
  <2> HIDE DEF n
  <2> DEFINE a == [i \in 0..n |-> IF i = 0 THEN <<>> ELSE g[i - 1] \o x[i]]
             b == [i \in 0..n |-> IF i = 0 THEN <<>> ELSE g[i - 1] \o One(i)]
  <2>1. \A i \in 0..n : i # 0 => i \in 1..n
    BY <1>0
  <2>2. a = b
    BY <2>1
  <2>3. Joins(g, n, x) <=> g = a
    BY DEF Joins
  <2>4. Up(g) <=> g = b
    BY DEF One
  <2> QED BY <2>2, <2>3, <2>4
<1>3. Up(h)
  <2>1. Up(F)
    BY <1>1, <1>2
  <2> HIDE DEF Up
  <2> QED BY <2>1
<1>4. Recent = h[n]
  BY DEF Recent
<1> HIDE DEF h
<1>5. Joins(h, n, x)
  BY <1>2, <1>3
<1> QED BY <1>4, <1>5

\* They are the ones that are not old, in their order.
LEMMA RecentAre ==
  ASSUME ScheduleIs
  PROVE  Recent \in Seq(Scheduled) /\ AreRecent(Recent)
<1> DEFINE n == Len(schedule)
           x == [i \in 1..n |-> One(i)]
<1>0. n \in Nat /\ DOMAIN schedule = 1..n /\ \A i \in 1..n : schedule[i] \in Scheduled
  BY DEF ScheduleIs
<1>1. PICK h : Joins(h, n, x) /\ Recent = h[n]
  BY RecentJoined
<1> HIDE DEF n
<1>2. \A i \in 1..n : x[i] = One(i)
  OBVIOUS
<1>3. \A i \in 1..n : IF IsRecent(i) THEN x[i] = <<schedule[i]>> ELSE x[i] = <<>>
  BY <1>2 DEF One
<1> HIDE DEF x
<1>4. Laid(n, x, Scheduled)
  <2>1. ASSUME NEW i \in 1..n PROVE x[i] \in Seq(Scheduled)
    <3> DEFINE e == schedule[i]
    <3>1. e \in Scheduled /\ (x[i] = <<e>> \/ x[i] = <<>>)
      BY <1>0, <1>3
    <3> HIDE DEF e
    <3>2. <<e>> \in Seq(Scheduled) /\ <<>> \in Seq(Scheduled)
      BY <3>1
    <3> QED BY <3>1, <3>2
  <2> QED BY <1>0, <2>1 DEF Laid
<1>5. /\ h[0] = <<>>
      /\ \A i \in 0..n : h[i] \in Seq(Scheduled)
      /\ \A i \in 0..n - 1, j \in 1..n : j = i + 1 => h[j] = h[i] \o x[j]
  <2>1. Grows(h, n, x, Scheduled)
    BY <1>1, <1>4, JoinIs
  <2> QED BY <2>1 DEF Grows
<1> DEFINE R(k) == {i \in 1..k : IsRecent(i)}
           Good(k) == /\ Len(h[k]) = Cardinality(R(k))
                      /\ \A i \in R(k) : h[k][W!Place(R(k), i)] = schedule[i]
           H == {k \in 0..n : Good(k)}
<1>6. 0 \in H
  <2>1. R(0) = {} /\ Cardinality({}) = 0
    BY FS_EmptySet
  <2> HIDE DEF R
  <2>2. 0 \in 0..n
    BY <1>0
  <2> QED BY <1>5, <2>1, <2>2
<1>7. ASSUME NEW k \in 0..n - 1, k \in H PROVE k + 1 \in H
  <2> DEFINE j == k + 1
  <2>0. k \in 0..n /\ j \in 1..n /\ j \in 0..n /\ k \in Nat /\ j = k + 1
    BY <1>0
  <2>1. Good(k)
    BY <1>7
  <2> HIDE DEF j, H
  <2>2. h[k] \in Seq(Scheduled) /\ h[j] = h[k] \o x[j] /\ x[j] \in Seq(Scheduled)
    BY <1>4, <1>5, <2>0 DEF Laid
  <2>3. CASE ~IsRecent(j)
    <3>1. R(j) = R(k)
      <4>1. \A i \in 1..j : i # j => i \in 1..k
        BY <2>0
      <4>2. 1..k \subseteq 1..j
        BY <2>0
      <4> QED BY <2>3, <4>1, <4>2
    <3>2. h[j] = h[k]
      <4> DEFINE a == h[k]
      <4>1. a \in Seq(Scheduled) /\ h[j] = a \o <<>>
        BY <1>3, <2>0, <2>2, <2>3
      <4> HIDE DEF a
      <4>2. a \o <<>> = a
        BY <4>1
      <4> QED BY <4>1, <4>2 DEF a
    <3> HIDE DEF R
    <3> QED BY <2>0, <2>1, <3>1, <3>2 DEF H
  <2>4. CASE IsRecent(j)
    <3>1. R(j) = R(k) \cup {j}
      <4>1. \A i \in 1..j : i # j => i \in 1..k
        BY <2>0
      <4>2. 1..k \subseteq 1..j /\ j \in 1..j
        BY <2>0
      <4> QED BY <2>4, <4>1, <4>2
    <3>2. R(k) \subseteq 1..k
      OBVIOUS
    <3> HIDE DEF R
    <3>3. PutLast(k, j, R(k), R(j))
      BY <2>0, <3>1, <3>2 DEF PutLast
    <3>4. /\ Cardinality(R(k)) \in Nat /\ Cardinality(R(j)) = Cardinality(R(k)) + 1
          /\ W!Place(R(j), j) = Cardinality(R(k)) + 1
          /\ \A p \in R(k) : W!Place(R(j), p) = W!Place(R(k), p)
      BY <3>3, OnePlaceBehind
    <3>5. \A p \in R(k) : W!Place(R(k), p) \in 1..Cardinality(R(k))
      BY <2>0, <3>2, PlaceIn
    <3>6. x[j] = <<schedule[j]>>
      BY <1>3, <2>0, <2>4
    <3>7. /\ Len(h[j]) = Len(h[k]) + 1 /\ h[j][Len(h[k]) + 1] = schedule[j]
          /\ \A i \in 1..Len(h[k]) : h[j][i] = h[k][i]
      <4> DEFINE a == h[k]
                 b == h[j]
                 e == schedule[j]
      <4>1. a \in Seq(Scheduled) /\ b = a \o <<e>> /\ e \in Scheduled
        BY <1>0, <2>0, <2>2, <3>6
      <4> HIDE DEF a, b, e
      <4>2. Len(b) = Len(a) + 1 /\ b[Len(a) + 1] = e /\ \A i \in 1..Len(a) : b[i] = a[i]
        BY <4>1
      <4> QED BY <4>2 DEF a, b, e
    <3>8. Len(h[j]) = Cardinality(R(j)) /\ Len(h[k]) = Cardinality(R(k))
      BY <2>1, <3>4, <3>7
    <3>9. ASSUME NEW i \in R(j) PROVE h[j][W!Place(R(j), i)] = schedule[i]
      <4>1. CASE i = j
        BY <3>4, <3>7, <3>8, <4>1
      <4>2. CASE i \in R(k)
        BY <2>1, <3>4, <3>5, <3>7, <3>8, <4>2
      <4> QED BY <3>1, <4>1, <4>2
    <3> QED BY <2>0, <3>8, <3>9 DEF H
  <2> QED BY <2>3, <2>4 DEF j
<1>8. Good(n)
  <2> HIDE DEF H
  <2>1. 0..n \subseteq H
    BY <1>0, <1>6, <1>7, Climb
  <2>2. n \in 0..n
    BY <1>0
  <2> QED BY <2>1, <2>2 DEF H
<1>9. {i \in DOMAIN schedule : IsRecent(i)} = R(n)
  BY <1>0
<1>10. Recent \in Seq(Scheduled)
  BY <1>0, <1>1, <1>5
<1>11. AreRecent(Recent)
  <2> HIDE DEF R
  <2> QED BY <1>1, <1>8, <1>9 DEF AreRecent
<1> QED BY <1>10, <1>11

\* What telling what is kept rests on.
TellInv == UserInv /\ ScheduleIs

\* What a client sends for a schedule are entries.
LEMMA TellNext ==
  ASSUME TellInv, [Next]_vars
  PROVE  TellInv'
<1>1. UserInv'
  BY UserNext DEF TellInv
<1>2. CASE UNCHANGED schedule
  BY <1>1, <1>2 DEF TellInv, ScheduleIs
<1>3. CASE TakeSchedule
  <2> DEFINE items == received.items
             T == Seq([of : Scheduled, sections : {<<>>}])
  <2>1. received.type = "schedule"
    BY <1>3 DEF TakeSchedule, Takes
  <2>2. items \in T
    <3>1. received # W!Refused
      BY <2>1 DEF W!Refused
    <3>2. PICK d \in Documents \cup Proper : received = W!Parse(d)
      BY <3>1 DEF TellInv, UserInv, FromClient
    <3> QED BY <2>1, <3>2, DocumentsHold DEF Scheduled
  <2>3. schedule' = [i \in DOMAIN items |-> items[i].of]
    BY <1>3 DEF TakeSchedule
  <2> HIDE DEF items
  <2> DEFINE Item == [of : Scheduled, sections : {<<>>}]
  <2>4. \A e \in Item : e.of \in Scheduled
    OBVIOUS
  <2>5. items \in Seq(Item)
    BY <2>2
  <2> HIDE DEF Item, T
  <2>6. \A i \in DOMAIN items : items[i].of \in Scheduled
    BY <2>4, <2>5
  <2>7. Len(items) \in Nat /\ DOMAIN items = 1..Len(items)
    BY <2>5
  <2> DEFINE n == Len(items)
  <2>8. n \in Nat /\ schedule' = [i \in 1..n |-> items[i].of] /\ \A i \in 1..n : items[i].of \in Scheduled
    BY <2>3, <2>6, <2>7
  <2> HIDE DEF n
  <2>9. schedule' \in Seq(Scheduled)
    BY <2>8
  <2>10. ScheduleIs'
    BY <2>9 DEF ScheduleIs, Scheduled
  <2> QED BY <1>1, <2>10 DEF TellInv
<1>4. CASE TakeNoSchedule
  BY <1>1, <1>4 DEF TakeNoSchedule, TellInv, ScheduleIs
<1>5. CASE ClientSends \/ EntryBegins \/ Kill \/ Rest \/ UNCHANGED vars
  BY <1>2, <1>5 DEF ClientSends, EntryBegins, Kill, Rest, vars
<1>6. CASE Carries
  BY <1>2, <1>3, <1>4, <1>6
     DEF Carries, Drop, AcknowledgeOnly, Ignore, StreamCommand, ResetCommand,
         ChangeChannel, ChangeNext, Changed, TakeUserLoudness
<1>7. CASE Tells
  BY <1>2, <1>7 DEF Tells, TellSchedule, TellChannels, TellPlaybackList, TellLogList,
                    TellUserLoudness, CannotTell, CannotList
<1> QED BY <1>5, <1>6, <1>7 DEF Next

\* It is so in the beginning.
LEMMA TellInit == Init => TellInv
<1> SUFFICES ASSUME Init PROVE TellInv
  OBVIOUS
<1>1. UserInv
  BY UserInitial
<1>2. schedule = <<>>
  BY DEF Init
<1> QED BY <1>1, <1>2 DEF TellInv, ScheduleIs

-----------------------------------------------------------------------------
(* The answers that are lists                                                 *)

\* As many items as there are of something, none of which has sections.
Bare(items, n) ==
  n \in Nat /\ DOMAIN items = 1..n /\ Len(items) = n /\ \A i \in 1..n : items[i].sections = <<>>

\* Such a list can be written in any format.
LEMMA BareWritable ==
  ASSUME NEW f, NEW items, NEW n, Bare(items, n)
  PROVE  Writable(f, items) /\ Len(items) = n
<1>1. \A i \in 1..n : items[i].sections = <<>>
  BY DEF Bare
<1>2. ASSUME NEW i \in 1..n PROVE Fits(f, items[i])
  BY <1>1 DEF Fits
<1> QED BY <1>2 DEF Bare, Writable

\* An answer has the number it is asked with.
LEMMA AnswerNumbered ==
  ASSUME NEW f \in W!Writers, W!Numbered(f), NEW items, Writable(f, items)
  PROVE  LET answer == Answer(f.type, items).answer
         IN answer.items = items /\ W!Generate(answer)[1].attrs["number"] = received.number
<1> DEFINE answer == Answer(f.type, items).answer
<1>1. answer = [type |-> f.type, ip |-> "", number |-> received.number, items |-> items]
  BY DEF Answer, Silence
<1> HIDE DEF answer
<1>2. answer.type = f.type /\ answer.items = items /\ answer.number = received.number
  BY <1>1
<1>3. W!Generate(answer)[1] = W!Element(f.type, RootOf(f, answer))
  BY <1>2, GeneratedFirst
<1>4. RootOf(f, answer).number = received.number
  BY <1>2 DEF RootOf
<1> QED BY <1>2, <1>3, <1>4 DEF W!Element, answer

\* Entries of the playback list can be listed.
LEMMA ListedInARow ==
  ASSUME TellInv
  PROVE  LET listed == SetToSeq({n \in DOMAIN playback_list : playback_list[n] # None})
         IN Len(listed) \in Nat /\ DOMAIN listed = 1..Len(listed)
<1> DEFINE S == {n \in DOMAIN playback_list : playback_list[n] # None}
           c == Cardinality(S)
<1>1. IsFiniteSet(S)
  <2>1. S \subseteq Names \cup Recordings
    BY DEF TellInv, UserInv, Tables
  <2> HIDE DEF S
  <2> QED BY <2>1, NamesAreFinite, FS_Subset
<1> HIDE DEF S
<1>2. c \in Nat /\ ExistsBijection(1..c, S)
  BY <1>1, FS_CardinalityType
<1>3. \E g \in [1..c -> S] : IsInjective(g)
  BY <1>2, Zenon DEF ExistsBijection, Bijection, Injection
<1>4. SetToSeq(S) \in [1..c -> S]
  BY <1>3, Zenon DEF SetToSeq
<1> DEFINE listed == SetToSeq(S)
<1> HIDE DEF c, listed
<1>5. Len(listed) = c /\ DOMAIN listed = 1..c
  BY <1>2, <1>4 DEF listed
<1> QED BY <1>2, <1>5 DEF listed, S

\* Where the names that are listed come first they fill the first places.
LEMMA FirstPlaces ==
  ASSUME NEW n \in Nat, NEW L, L \subseteq 1..n, \A i \in L : 1..i \subseteq L
  PROVE  L = 1..Cardinality(L)
<1>1. CASE L = {}
  BY <1>1, FS_EmptySet
<1>2. CASE L # {}
  <2> DEFINE m == Max(L)
  <2>1. m \in L /\ \A j \in L : j <= m
    BY <1>2, MaxIsFinal DEF Final
  <2> HIDE DEF m
  <2>2. m \in Nat /\ m >= 1 /\ L = 1..m
    <3>1. m \in 1..n /\ \A j \in L : j \in 1..n
      BY <2>1
    <3>2. \A j \in L : j \in 1..m
      BY <2>1, <3>1
    <3>3. 1..m \subseteq L
      BY <2>1
    <3>4. m \in Nat /\ m >= 1
      BY <3>1
    <3>5. L = 1..m
      BY <3>2, <3>3
    <3> QED BY <3>4, <3>5
  <2>3. Cardinality(1..m) = m
    <3>1. Cardinality(1..m) = IF 1 > m THEN 0 ELSE m - 1 + 1
      BY <2>2, FS_Interval
    <3> QED BY <2>2, <3>1
  <2> QED BY <2>2, <2>3
<1> QED BY <1>1, <1>2

\* A request asks for names.
LEMMA AskedAre ==
  ASSUME TellInv, received.type = "user_loudness_request"
  PROVE  /\ Len(Asked) \in Nat /\ DOMAIN Asked = 1..Len(Asked)
         /\ \A i \in 1..Len(Asked) : Asked[i] \in Names
         /\ CountOf(Asked) \in 0..Len(Asked)
<1> DEFINE items == received.items
           Item == [of : [W!UserLoudnessRequestFile -> Names], sections : {<<>>}]
<1>1. items \in Seq(Item)
  <2>1. received # W!Refused
    BY DEF W!Refused
  <2>2. PICK d \in Documents \cup Proper : received = W!Parse(d)
    BY <2>1 DEF TellInv, UserInv, FromClient
  <2> QED BY <2>2, DocumentsHold
<1>2. \A e \in Item : e.of["name"] \in Names
  BY DEF W!UserLoudnessRequestFile
<1>3. Asked = [i \in DOMAIN items |-> items[i].of["name"]]
  BY DEF Asked
<1> HIDE DEF items, Item
<1> DEFINE n == Len(items)
<1>4. n \in Nat /\ DOMAIN items = 1..n /\ \A i \in 1..n : items[i].of["name"] \in Names
  BY <1>1, <1>2
<1> HIDE DEF n
<1>5. Len(Asked) = n /\ DOMAIN Asked = 1..n /\ \A i \in 1..n : Asked[i] \in Names
  BY <1>3, <1>4
<1>6. CountOf(Asked) \in 0..n
  <2> DEFINE L == {i \in DOMAIN Asked : Listed(Asked[i])}
  <2>1. L \subseteq 1..n
    BY <1>5
  <2> HIDE DEF L
  <2>2. IsFiniteSet(1..n) /\ Cardinality(1..n) = n
    <3>1. IsFiniteSet(1..n) /\ Cardinality(1..n) = IF 1 > n THEN 0 ELSE n - 1 + 1
      BY <1>4, FS_Interval
    <3> QED BY <1>4, <3>1
  <2>3. Cardinality(L) \in Nat /\ Cardinality(L) <= n
    BY <2>1, <2>2, FS_Subset, FS_CardinalityType
  <2>4. CountOf(Asked) = Cardinality(L)
    BY DEF CountOf, L
  <2> QED BY <1>4, <2>3, <2>4
<1> QED BY <1>4, <1>5, <1>6

\* What is loaded can be written, with or without what the heap left in it.
LEMMA LoadedWritable ==
  ASSUME TellInv, received.type = "user_loudness_request", NEW loaded \in Loaded(Asked)
  PROVE  /\ Writable(W!UserLoudness, Items(loaded)) /\ Len(Items(loaded)) = CountOf(Asked)
         /\ \A i \in 1..CountOf(Asked) :
              Items(loaded)[i] =
                [of |-> [name |-> loaded[i].of.name, record_name |-> loaded[i].of.record_name],
                 sections |-> loaded[i].sections]
<1> DEFINE c == CountOf(Asked)
<1>1. c \in Nat
  BY AskedAre
<1>2. PICK rows \in RowsRead(Asked) :
        loaded = [i \in DOMAIN rows |-> [of |-> rows[i], sections |-> SectionsRead(rows[i].name)]]
  BY DEF Loaded
<1>3. rows \in [1..c -> Leftover]
  BY DEF RowsRead
<1> HIDE DEF c
<1>4. /\ DOMAIN loaded = 1..c
      /\ \A i \in 1..c : loaded[i].sections = SectionsRead(rows[i].name)
  BY <1>2, <1>3
<1>5. ASSUME NEW i \in 1..c PROVE loaded[i].sections \in Seq(Sections)
  <2> DEFINE n == rows[i].name
  <2>1. n \in Names \/ n = None
    BY <1>3 DEF Leftover
  <2>2. user_loudness_section \in [Names -> Seq(Sections)]
    BY DEF TellInv, UserInv, Tables
  <2>3. SectionsRead(n) \in Seq(Sections)
    <3> HIDE DEF n
    <3> QED BY <2>1, <2>2 DEF SectionsRead
  <2> QED BY <1>4, <2>3
<1> DEFINE items == Items(loaded)
<1>6. items = [i \in 1..c |->
                 [of |-> [name |-> loaded[i].of.name, record_name |-> loaded[i].of.record_name],
                  sections |-> loaded[i].sections]]
  BY <1>4 DEF Items
<1> HIDE DEF items
<1>7. /\ Len(items) = c /\ DOMAIN items = 1..c
      /\ \A i \in 1..c : items[i].sections = loaded[i].sections
  BY <1>1, <1>6
<1>8. ASSUME NEW i \in 1..c PROVE Fits(W!UserLoudness, items[i])
  <2> DEFINE s == items[i].sections
  <2>1. s \in Seq(Sections)
    BY <1>5, <1>7
  <2> HIDE DEF s
  <2>2. Len(s) \in Nat /\ DOMAIN s = 1..Len(s) /\ (s = <<>> <=> Len(s) = 0)
    BY <2>1
  <2>3. W!UserLoudness.section # {}
    BY DEF W!UserLoudness, W!ListOf, W!Bare, W!UserLoudnessSection
  <2> QED BY <2>2, <2>3 DEF Fits, s
<1> QED BY <1>1, <1>6, <1>7, <1>8 DEF Writable, items, c

\* Where the names with rows come first each row read is the one asked for.
LEMMA RowsInOrder ==
  ASSUME TellInv, received.type = "user_loudness_request", Orderly(Asked),
         NEW rows \in RowsRead(Asked), NEW i \in 1..CountOf(Asked)
  PROVE  /\ i \in DOMAIN rows /\ i \in 1..Len(Asked) /\ Asked[i] \in Names /\ Asked[i] # None
         /\ rows[i] = [name |-> Asked[i], record_name |-> user_loudness[Asked[i]]]
         /\ SectionsRead(rows[i].name) = user_loudness_section[Asked[i]]
         /\ SectionsRead(rows[i].name) # <<>>
<1> DEFINE n == Len(Asked)
           c == CountOf(Asked)
           L == {j \in DOMAIN Asked : Listed(Asked[j])}
<1>1. n \in Nat /\ DOMAIN Asked = 1..n /\ c \in 0..n /\ \A j \in 1..n : Asked[j] \in Names
  BY AskedAre
<1>2. L = 1..c
  <2>1. L \subseteq 1..n
    BY <1>1
  <2>2. \A j \in L : 1..j \subseteq L
    <3> SUFFICES ASSUME NEW j \in L, NEW k \in 1..j PROVE k \in L
      OBVIOUS
    <3>1. k \in 1..n
      BY <1>1
    <3>2. Listed(Asked[k])
      BY DEF Orderly
    <3> QED BY <1>1, <3>1, <3>2
  <2>3. c = Cardinality(L)
    BY DEF CountOf
  <2> HIDE DEF L, c, n
  <2> QED BY <1>1, <2>1, <2>2, <2>3, FirstPlaces
<1>3. i \in 1..n /\ Asked[i] \in Names /\ Listed(Asked[i])
  BY <1>1, <1>2
<1>4. Asked[i] # None
  BY <1>3, Distinct
<1>5. rows[i] = [name |-> Asked[i], record_name |-> user_loudness[Asked[i]]] /\ i \in DOMAIN rows
  BY <1>3 DEF RowsRead
<1>6. rows[i].name = Asked[i]
  BY <1>5
<1>7. user_loudness_section[Asked[i]] # <<>>
  BY <1>1, <1>3 DEF Orderly
<1> QED BY <1>3, <1>4, <1>5, <1>6, <1>7 DEF SectionsRead

\* Then the request is answered, and with what is asked for.
LEMMA FilesTold ==
  ASSUME TellInv, received.type = "user_loudness_request", Orderly(Asked)
  PROVE  /\ ~LoadFails(Asked)
         /\ \A loaded \in Loaded(Asked) :
              W!Means(W!Generate(Answer("user_loudness", Items(loaded)).answer),
                      W!UserLoudness, FilesOf(Asked))
<1>1. ~LoadFails(Asked)
  <2> SUFFICES ASSUME NEW r \in RowsRead(Asked), NEW i \in DOMAIN r, SectionsRead(r[i].name) = <<>>
               PROVE  FALSE
    BY DEF LoadFails
  <2>1. i \in 1..CountOf(Asked)
    BY DEF RowsRead
  <2> QED BY <2>1, RowsInOrder
<1>2. ASSUME NEW loaded \in Loaded(Asked)
      PROVE  W!Means(W!Generate(Answer("user_loudness", Items(loaded)).answer),
                     W!UserLoudness, FilesOf(Asked))
  <2> DEFINE items == Items(loaded)
             answer == Answer("user_loudness", items).answer
             f == W!UserLoudness
             m == FilesOf(Asked)
             c == CountOf(Asked)
  <2>0. c \in Nat
    BY AskedAre
  <2>1. /\ Writable(f, items) /\ Len(items) = c
        /\ \A i \in 1..c :
              items[i] =
                [of |-> [name |-> loaded[i].of.name, record_name |-> loaded[i].of.record_name],
                 sections |-> loaded[i].sections]
    BY LoadedWritable
  <2>2. PICK rows \in RowsRead(Asked) :
          loaded = [i \in DOMAIN rows |-> [of |-> rows[i], sections |-> SectionsRead(rows[i].name)]]
    BY DEF Loaded
  <2>3. /\ f \in W!Writers /\ f.type = "user_loudness" /\ f.child # "none" /\ IsFormat(f)
        /\ f.fields = {"name", "record_name"} /\ f.section = W!UserLoudnessSection
    BY DEF W!UserLoudness, W!Writers, W!UserLoudnessOut, W!ListOf, W!Bare, IsFormat, W!UserLoudnessFile
  <2>4. answer.type = f.type /\ answer.items = items
    BY <2>3 DEF Answer, Silence
  <2>5. Len(m) = c /\ \A i \in 1..c : m[i] =
          [of |-> [name |-> Asked[i], record_name |-> user_loudness[Asked[i]]],
           sections |-> [j \in DOMAIN user_loudness_section[Asked[i]] |->
                           Rounded(user_loudness_section[Asked[i]][j])]]
    <3> HIDE DEF c
    <3> QED BY <2>0 DEF FilesOf, c
  <2> HIDE DEF items, answer, f, m, c
  <2>6. ASSUME NEW i \in 1..c PROVE m[i] = WrittenAs(f, items[i])
    <3> DEFINE nm == Asked[i]
               rec == user_loudness[nm]
               s == user_loudness_section[nm]
    <3>1. /\ i \in DOMAIN rows /\ rows[i] = [name |-> nm, record_name |-> rec]
          /\ SectionsRead(rows[i].name) = s /\ nm \in Names
      BY RowsInOrder DEF c
    <3>2. s \in Seq(Sections)
      BY <3>1 DEF TellInv, UserInv, Tables
    <3> HIDE DEF nm, rec, s
    <3>3. loaded[i].of = [name |-> nm, record_name |-> rec] /\ loaded[i].sections = s
      BY <2>2, <3>1
    <3>4. items[i] = [of |-> [name |-> nm, record_name |-> rec], sections |-> s]
      BY <2>1, <3>3
    <3>5. m[i] = [of |-> [name |-> nm, record_name |-> rec],
                  sections |-> [j \in DOMAIN s |-> Rounded(s[j])]]
      BY <2>5 DEF nm, rec, s
    <3>6. DOMAIN s = 1..Len(s)
      BY <3>2
    <3>7. W!Written(f.fields, items[i].of) = [name |-> nm, record_name |-> rec]
      <4>1. W!Written({"name", "record_name"}, [name |-> nm, record_name |-> rec])
              = [name |-> nm, record_name |-> rec]
        BY DEF W!Written, W!Measured
      <4> QED BY <2>3, <3>4, <4>1
    <3>8. items[i].sections = s
      BY <3>4
    <3>9. WrittenAs(f, items[i]) =
            [of |-> [name |-> nm, record_name |-> rec],
             sections |-> [j \in 1..Len(s) |-> Rounded(s[j])]]
      BY <2>3, <3>7, <3>8 DEF WrittenAs, Rounded
    <3> QED BY <3>5, <3>6, <3>9
  <2>7. W!Means(W!Generate(answer), f, m)
    BY <2>1, <2>3, <2>4, <2>5, <2>6, GeneratedMeans
  <2> QED BY <2>7 DEF answer, items, f, m
<1> QED BY <1>1, <1>2

\* A list without sections that is told is what is written of it.
LEMMA BareTold ==
  ASSUME NEW items, NEW n, Bare(items, n),
         NEW f \in W!Writers, W!Numbered(f)
  PROVE  W!Generate(Answer(f.type, items).answer)[1].attrs["number"] = received.number
BY BareWritable, AnswerNumbered

\* What is told of the schedule are its entries, the old ones left out.
LEMMA ScheduleTold ==
  ASSUME TellInv
  PROVE  LET items == [i \in DOMAIN Recent |-> [of |-> Recent[i], sections |-> <<>>]]
             told == W!Generate(Answer("schedule", items).answer)
         IN W!Means(told, W!Schedule, items) /\ told[1].attrs["number"] = received.number
<1> DEFINE items == [i \in DOMAIN Recent |-> [of |-> Recent[i], sections |-> <<>>]]
           n == Len(Recent)
           answer == Answer("schedule", items).answer
           f == W!Schedule
<1>1. Recent \in Seq(Scheduled)
  BY RecentAre DEF TellInv
<1>2. n \in Nat /\ DOMAIN Recent = 1..n /\ \A i \in 1..n : Recent[i] \in Scheduled
  BY <1>1
<1> HIDE DEF n
<1>3. Bare(items, n) /\ \A i \in 1..n : items[i] = [of |-> Recent[i], sections |-> <<>>]
  BY <1>2 DEF Bare
<1>4. /\ f \in W!Writers /\ f.type = "schedule" /\ f.child # "none" /\ IsFormat(f)
      /\ f.fields = W!ScheduleCard /\ f.section = {} /\ W!Numbered(f)
  BY DEF W!Schedule, W!Writers, W!ScheduleOut, W!ListOf, W!Bare, IsFormat, W!Numbered
<1>5. answer.type = f.type /\ answer.items = items
  BY <1>4 DEF Answer, Silence
<1> HIDE DEF items, answer, f
<1>6. Writable(f, items) /\ Len(items) = n
  BY <1>3, BareWritable
<1>7. ASSUME NEW i \in 1..n PROVE items[i] = WrittenAs(f, items[i])
  <2> DEFINE e == Recent[i]
  <2>1. e \in Scheduled /\ items[i] = [of |-> e, sections |-> <<>>]
    BY <1>2, <1>3
  <2> HIDE DEF e
  <2>2. W!Written(W!ScheduleCard, e) = e
    <3>1. \A a \in W!ScheduleCard : a \notin W!Measured
      BY DEF W!ScheduleCard, W!Measured
    <3>2. e = [a \in W!ScheduleCard |-> e[a]]
      BY <2>1 DEF Scheduled
    <3>3. W!Written(W!ScheduleCard, e) = [a \in W!ScheduleCard |-> e[a]]
      BY <3>1 DEF W!Written
    <3> QED BY <3>2, <3>3
  <2>3. items[i].of = e /\ items[i].sections = <<>>
    BY <2>1
  <2>4. WrittenAs(f, items[i]) = [of |-> e, sections |-> <<>>]
    <3>1. Len(<<>>) = 0 /\ \A g : [j \in 1..0 |-> g] = <<>>
      OBVIOUS
    <3>2. [j \in 1..Len(items[i].sections) |-> W!Written(f.section, items[i].sections[j])] = <<>>
      BY <2>3
    <3> QED BY <1>4, <2>2, <2>3, <3>2 DEF WrittenAs
  <2> QED BY <2>1, <2>4
<1>8. W!Means(W!Generate(answer), f, items)
  BY <1>4, <1>5, <1>6, <1>7, GeneratedMeans
<1>9. W!Generate(Answer(f.type, items).answer)[1].attrs["number"] = received.number
  BY <1>3, <1>4, BareTold
<1> QED BY <1>4, <1>8, <1>9 DEF items, answer, f

\* What is told as a list has the number it is asked with.
LEMMA ListsNumbered ==
  ASSUME TellInv, TellChannels \/ TellPlaybackList \/ TellLogList
  PROVE  W!Generate(did'.answer)[1].attrs["number"] = received.number
<1>1. /\ W!ChannelListOut.type = "channel_list" /\ W!Numbered(W!ChannelListOut)
      /\ W!PlaybackListOut.type = "playback_list" /\ W!Numbered(W!PlaybackListOut)
      /\ W!LogListOut.type = "log_list" /\ W!Numbered(W!LogListOut)
  BY WritersDiffer DEF W!Numbered
<1>2. W!ChannelListOut \in W!Writers /\ W!PlaybackListOut \in W!Writers /\ W!LogListOut \in W!Writers
  BY DEF W!Writers
<1>3. CASE TellChannels
  <2> DEFINE items == [i \in DOMAIN ChannelList |-> [of |-> ChannelList[i], sections |-> <<>>]]
             n == Len(ChannelList)
             T == Range(ChannelList)
  <2>1. ChannelList \in Seq(T)
    BY ListsAreSequences
  <2> HIDE DEF T
  <2>2. n \in Nat /\ DOMAIN ChannelList = 1..n
    BY <2>1
  <2> HIDE DEF n
  <2>3. Bare(items, n)
    BY <2>2 DEF Bare
  <2>4. did' = Answer("channel_list", items)
    BY <1>3 DEF TellChannels
  <2> HIDE DEF items
  <2> QED BY <1>1, <1>2, <2>3, <2>4, BareTold
<1>4. CASE TellLogList
  <2> DEFINE n == Len(LogList)
             T == Range(LogList)
  <2>1. LogList \in Seq(T)
    BY ListsAreSequences
  <2> HIDE DEF T
  <2>2. n \in Nat /\ DOMAIN LogList = 1..n
    BY <2>1
  <2> HIDE DEF n
  <2>3. Bare(LogItems, n)
    BY <2>2 DEF Bare, LogItems
  <2>4. did' = Answer("log_list", LogItems)
    BY <1>4 DEF TellLogList
  <2> QED BY <1>1, <1>2, <2>3, <2>4, BareTold
<1>5. CASE TellPlaybackList
  <2> DEFINE listed == SetToSeq({n \in DOMAIN playback_list : playback_list[n] # None})
             n == Len(listed)
  <2>1. n \in Nat /\ DOMAIN listed = 1..n
    BY ListedInARow
  <2>2. PlaybackItems = [i \in DOMAIN listed |-> [of |-> EntryFields(listed[i]), sections |-> <<>>]]
    BY DEF PlaybackItems
  <2> HIDE DEF listed, n
  <2>3. Bare(PlaybackItems, n)
    BY <2>1, <2>2 DEF Bare
  <2>4. did' = Answer("playback_list", PlaybackItems)
    BY <1>5 DEF TellPlaybackList
  <2> QED BY <1>1, <1>2, <2>3, <2>4, BareTold
<1> QED BY <1>3, <1>4, <1>5

\* A call that fails, or a kill, is one fault more.
LEMMA FailsIsSeen ==
  ASSUME TellInv, NEW f \in Fault, Fails(f)
  PROVE  faults' # faults
<1>1. faults \in [Fault -> Nat]
  BY DEF TellInv, UserInv, Tables
<1>2. faults'[f] = faults[f] + 1 /\ faults[f] \in Nat
  BY <1>1 DEF Fails
<1> QED BY <1>2

\* What ToldAsKept says of a step that answers.
ToldNow ==
  LET answer == did'.answer
      told == W!Generate(answer)
  IN /\ answer # W!Refused => told[1].attrs["number"] = received.number
     /\ received.type = "schedule_request" =>
          /\ AreRecent(Recent)
          /\ W!Means(told, W!Schedule,
                     [i \in DOMAIN Recent |-> [of |-> Recent[i], sections |-> <<>>]])
     /\ received.type = "user_loudness_request" /\ Asked # <<>> /\ Orderly(Asked) =>
          answer # W!Refused /\ W!Means(told, W!UserLoudness, FilesOf(Asked))

\* A request for user loudness is answered as it should be ...
LEMMA UserLoudnessTold ==
  ASSUME TellInv, TellUserLoudness
  PROVE  ToldNow
<1>1. received.type = "user_loudness_request"
  BY DEF TellUserLoudness, Takes
<1>2. CASE Asked = <<>>
  <2>1. did'.answer = W!Refused
    BY <1>2 DEF TellUserLoudness, Silence
  <2> QED BY <1>1, <1>2, <2>1 DEF ToldNow
<1>3. CASE Asked # <<>>
  <2>1. PICK loaded \in Loaded(Asked) : did' = Answer("user_loudness", Items(loaded))
    BY <1>3 DEF TellUserLoudness
  <2> DEFINE f == W!UserLoudness
  <2>2. f \in W!Writers /\ f.type = "user_loudness" /\ W!Numbered(f)
    BY DEF W!UserLoudness, W!Writers, W!UserLoudnessOut, W!ListOf, W!Bare, W!Numbered
  <2>3. Writable(f, Items(loaded))
    BY <1>1, LoadedWritable
  <2> HIDE DEF f
  <2>4. W!Generate(did'.answer)[1].attrs["number"] = received.number
    BY <2>1, <2>2, <2>3, AnswerNumbered
  <2>5. did'.answer # W!Refused
    BY <2>1 DEF Answer, Silence, W!Refused
  <2>6. Orderly(Asked) => W!Means(W!Generate(did'.answer), W!UserLoudness, FilesOf(Asked))
    BY <1>1, <2>1, FilesTold
  <2> QED BY <1>1, <2>4, <2>5, <2>6 DEF ToldNow
<1> QED BY <1>2, <1>3

\* ... and so is every other one.
LEMMA EachTold ==
  ASSUME TellInv, Tells, faults' = faults
  PROVE  ToldNow
<1>1. CASE TellSchedule
  <2>1. received.type = "schedule_request"
    BY <1>1 DEF TellSchedule, Takes
  <2> DEFINE items == [i \in DOMAIN Recent |-> [of |-> Recent[i], sections |-> <<>>]]
  <2>2. did' = Answer("schedule", items)
    BY <1>1 DEF TellSchedule
  <2>3. /\ W!Means(W!Generate(did'.answer), W!Schedule, items)
        /\ W!Generate(did'.answer)[1].attrs["number"] = received.number
    BY <2>2, ScheduleTold
  <2>4. AreRecent(Recent)
    BY RecentAre DEF TellInv
  <2> QED BY <2>1, <2>3, <2>4 DEF ToldNow
<1>2. CASE TellChannels \/ TellPlaybackList \/ TellLogList
  <2>1. received.type \notin {"schedule_request", "user_loudness_request"}
    BY <1>2 DEF TellChannels, TellPlaybackList, TellLogList, Takes
  <2>2. W!Generate(did'.answer)[1].attrs["number"] = received.number
    BY <1>2, ListsNumbered
  <2> QED BY <2>1, <2>2 DEF ToldNow
<1>3. CASE TellUserLoudness
  BY <1>3, UserLoudnessTold
<1>4. CASE CannotTell
  <2>1. received.type # "schedule_request" /\ did'.answer = W!Refused
    BY <1>4 DEF CannotTell, Takes, Silence
  <2>2. ~Fails("call")
    BY FailsIsSeen DEF Fault
  <2>3. received.type = "user_loudness_request" /\ LoadFails(Asked)
    BY <1>4, <2>2 DEF CannotTell
  <2>4. ~Orderly(Asked)
    BY <2>3, FilesTold
  <2> QED BY <2>1, <2>4 DEF ToldNow
<1>5. CASE CannotList
  BY <1>5, FailsIsSeen DEF CannotList, Fault
<1> QED BY <1>1, <1>2, <1>3, <1>4, <1>5 DEF Tells

\* What main answers is what it has, under the number it was asked with
\* (the cases of the requests in main, and generate_xml in messenger.c): the
\* schedule but for old entries, and the files asked for in their order with
\* the sections saved for them, however many there are.
THEOREM Telling == Spec => ToldAsKept
<1>1. ASSUME TellInv, [Next]_vars, doc # <<>>, doc' = <<>>, faults' = faults
      PROVE  ToldNow
  <2>1. CASE Tells
    BY <1>1, <2>1, EachTold
  <2>2. CASE Carries
    <3>1. ~(ChangeNext \/ Changed)
      BY <1>1 DEF ChangeNext, Changed
    <3>2. /\ received.type \notin {"schedule_request", "user_loudness_request"}
          /\ did' = Silence \/ did' = Acknowledged \/ did' = [Acknowledged EXCEPT !.commands = Commands]
      BY <2>2, <3>1 DEF Carries, Drop, AcknowledgeOnly, Ignore, StreamCommand, ResetCommand,
           TakeSchedule, TakeNoSchedule, ChangeChannel, TakeUserLoudness, Takes
    <3>3. did'.answer = W!Refused
      <4>1. Silence.answer = W!Refused /\ "answer" \in DOMAIN Silence
        BY DEF Silence
      <4>2. Acknowledged.answer = W!Refused /\ "answer" \in DOMAIN Acknowledged
        BY <4>1 DEF Acknowledged
      <4>3. [Acknowledged EXCEPT !.commands = Commands].answer = W!Refused
        BY <4>2
      <4> QED BY <3>2, <4>1, <4>2, <4>3
    <3> QED BY <3>2, <3>3 DEF ToldNow
  <2>3. CASE Kill
    <3>1. Fails("crash")
      BY <2>3 DEF Kill, Crash
    <3> QED BY <1>1, <3>1, FailsIsSeen DEF Fault
  <2>4. CASE ClientSends \/ EntryBegins \/ Rest \/ UNCHANGED vars
    BY <1>1, <2>4 DEF ClientSends, EntryBegins, Rest, vars
  <2> QED BY <1>1, <2>1, <2>2, <2>3, <2>4 DEF Next
<1>2. ASSUME TellInv, [Next]_vars
      PROVE  [doc # <<>> /\ doc' = <<>> /\ faults' = faults => ToldNow]_vars
  BY <1>1, <1>2
<1>3. ToldAsKept <=> [][doc # <<>> /\ doc' = <<>> /\ faults' = faults => ToldNow]_vars
  BY DEF ToldAsKept, ToldNow
<1>4. Spec => [][doc # <<>> /\ doc' = <<>> /\ faults' = faults => ToldNow]_vars
  BY <1>2, TellInit, TellNext, PTL DEF Spec
<1> QED BY <1>3, <1>4
=============================================================================
