-------------------------- MODULE ClientSessionProofs --------------------------
(* Theorems about ClientSession, for any clients, timeout and periods.        *)
EXTENDS ClientSession, SequenceTheorems, TLAPS

Types ==
  /\ conn \in [Clients -> {"away", "up", "gone"}]
  /\ silent \in [Clients -> 0..Timeout] /\ inbox \in [Clients -> 0..MaxInbox]
  /\ backlog \in Seq(Clients) /\ fd \in Clients \cup {NoClient}
  /\ rx \in 0..MaxInbox /\ aliveAge \in 0..Timeout

\* Each connection that is there is the one served or waits once.
Waits ==
  /\ \A i \in 1..Len(backlog) : conn[backlog[i]] # "away" /\ backlog[i] # fd
  /\ \A i, j \in 1..Len(backlog) : i # j => backlog[i] # backlog[j]
  /\ fd # NoClient => conn[fd] # "away"

\* Without a client the timer is set in every pass.
UnservedFresh == own /\ ~late /\ fd = NoClient /\ pc # "answer" => aliveAge <= 1

\* The timer is ahead of the silence of the client served by the tick at most
\* that was passing when it connected, once its messages have been received.
InTime ==
  own /\ ~late /\ pc # "answer" =>
    \A c \in Clients : fd = c /\ conn[c] = "up" /\ inbox[c] = 0 => aliveAge <= silent[c] + 1

IInv == Types /\ Waits /\ UnservedFresh /\ InTime

\* The lesser of a number and the bound is a number from 0 to it.
LEMMA Lesser ==
  ASSUME NEW m \in Nat
  PROVE  /\ Min({m, MaxInbox}) \in 0..MaxInbox
         /\ Min({m, MaxInbox}) = 0 => m = 0
<1> USE BoundIsNumber
<1>1. CASE m <= MaxInbox
  <2>1. m \in {m, MaxInbox} /\ \A y \in {m, MaxInbox} : m <= y BY <1>1
  <2>2. \A x \in {m, MaxInbox} : (\A y \in {m, MaxInbox} : x <= y) => x = m BY <1>1
  <2>3. Min({m, MaxInbox}) = m BY <2>1, <2>2 DEF Min
  <2> QED BY <1>1, <2>3
<1>2. CASE MaxInbox < m
  <2>1. MaxInbox \in {m, MaxInbox} /\ \A y \in {m, MaxInbox} : MaxInbox <= y BY <1>2
  <2>2. \A x \in {m, MaxInbox} : (\A y \in {m, MaxInbox} : x <= y) => x = MaxInbox BY <1>2
  <2>3. Min({m, MaxInbox}) = MaxInbox BY <2>1, <2>2 DEF Min
  <2> QED BY <1>2, <2>3
<1> QED BY <1>1, <1>2

\* What a close leaves of the connection.
LEMMA CloseTypes ==
  ASSUME Types, NEW c \in Clients, Close(c)
  PROVE  /\ conn' \in [Clients -> {"away", "up", "gone"}]
         /\ silent' \in [Clients -> 0..Timeout] /\ inbox' \in [Clients -> 0..MaxInbox]
         /\ \A d \in Clients : d # c => conn'[d] = conn[d]
<1>1. 0 \in 0..Timeout /\ 0 \in 0..MaxInbox BY TimesAreOrdered, BoundIsNumber
<1> QED BY <1>1 DEF Types, Close

\* Who waits longest is a client, and the others go on waiting.
LEMMA HeadAndTail ==
  ASSUME Types, Waits, backlog # <<>>
  PROVE  /\ Head(backlog) \in Clients /\ Tail(backlog) \in Seq(Clients)
         /\ conn[Head(backlog)] # "away" /\ Head(backlog) # fd
         /\ \A i \in 1..Len(Tail(backlog)) :
              /\ Tail(backlog)[i] \in Clients
              /\ conn[Tail(backlog)[i]] # "away"
              /\ Tail(backlog)[i] # Head(backlog) /\ Tail(backlog)[i] # fd
         /\ \A i, j \in 1..Len(Tail(backlog)) :
              i # j => Tail(backlog)[i] # Tail(backlog)[j]
<1>1. backlog \in Seq(Clients) BY DEF Types
<1>2. /\ Head(backlog) \in Clients /\ Tail(backlog) \in Seq(Clients)
      /\ Len(Tail(backlog)) = Len(backlog) - 1
      /\ \A i \in 1..Len(Tail(backlog)) : Tail(backlog)[i] = backlog[i + 1]
  BY <1>1, HeadTailProperties
<1>3. Head(backlog) = backlog[1] BY <1>1
<1>4. Len(backlog) \in Nat /\ 1 \in 1..Len(backlog) BY <1>1, EmptySeq, LenProperties
<1>5. ASSUME NEW i \in 1..Len(Tail(backlog))
      PROVE  i + 1 \in 1..Len(backlog) /\ i + 1 # 1 /\ Tail(backlog)[i] = backlog[i + 1]
  BY <1>2, <1>4
<1>6. \A i \in 1..Len(Tail(backlog)) :
        /\ Tail(backlog)[i] \in Clients
        /\ conn[Tail(backlog)[i]] # "away"
        /\ Tail(backlog)[i] # Head(backlog) /\ Tail(backlog)[i] # fd
  BY <1>2, <1>3, <1>4, <1>5, ElementOfSeq DEF Waits
<1>7. ASSUME NEW i \in 1..Len(Tail(backlog)), NEW j \in 1..Len(Tail(backlog)), i # j
      PROVE  Tail(backlog)[i] # Tail(backlog)[j]
  <2>1. i + 1 # j + 1 BY <1>4, <1>7
  <2> QED BY <1>5, <2>1 DEF Waits
<1> QED BY <1>2, <1>3, <1>4, <1>6, <1>7 DEF Waits

\* What Receive comes to, for the client that it serves, how much has arrived
\* from it and how much is held then.
Received(served, arrived, held) ==
  /\ \/ served = fd /\ backlog' = backlog
     \/ /\ fd = NoClient /\ backlog # <<>>
        /\ served = Head(backlog) /\ backlog' = Tail(backlog)
  /\ served # NoClient => arrived = inbox[served]
  /\ held = 0 => arrived = 0
  /\ \/ /\ served # NoClient /\ fd' = NoClient /\ Close(served) /\ own' = FALSE
     \/ /\ fd' = served /\ UNCHANGED <<conn, well, reading, silent>> /\ (own' => own)
        /\ inbox' = [c \in Clients |-> IF c = served THEN 0 ELSE inbox[c]]
  /\ IF held = 0 THEN pc' = "status" /\ rx' = 0
                 ELSE pc' = "answer" /\ rx' = held - 1
  /\ UNCHANGED <<aliveAge, late>>

\* A pass receives in one of these ways.
LEMMA ReceiveCases ==
  ASSUME Types, Waits, Receive
  PROVE  \E served \in Clients \cup {NoClient}, arrived \in 0..MaxInbox, held \in 0..MaxInbox :
           Received(served, arrived, held)
<1> DEFINE accepts == fd = NoClient /\ backlog # <<>>
           served == IF accepts THEN Head(backlog) ELSE fd
           arrived == IF served = NoClient THEN 0 ELSE inbox[served]
           closed == served # NoClient /\ conn[served] = "gone" /\ arrived = 0
           held == Min({rx + arrived, MaxInbox})
<1>1. served \in Clients \cup {NoClient} BY HeadAndTail DEF Types
<1>2. arrived \in 0..MaxInbox BY <1>1, BoundIsNumber DEF Types
<1>3. rx + arrived \in Nat /\ (rx + arrived = 0 => arrived = 0)
  BY <1>2, BoundIsNumber DEF Types
<1>4. held \in 0..MaxInbox /\ (held = 0 => arrived = 0) BY <1>3, Lesser
<1>5. /\ backlog' = IF accepts THEN Tail(backlog) ELSE backlog
      /\ fd' = IF closed THEN NoClient ELSE served
      /\ IF closed THEN Close(served)
         ELSE /\ inbox' = [c \in Clients |-> IF c = served THEN 0 ELSE inbox[c]]
              /\ UNCHANGED <<conn, well, reading, silent>>
      /\ own' = (own /\ ~closed)
      /\ IF held = 0 THEN pc' = "status" /\ rx' = 0 ELSE pc' = "answer" /\ rx' = held - 1
      /\ UNCHANGED <<aliveAge, late>>
  BY DEF Receive
<1>6. \/ served = fd /\ backlog' = backlog
      \/ /\ fd = NoClient /\ backlog # <<>>
         /\ served = Head(backlog) /\ backlog' = Tail(backlog)
  BY <1>5
<1>7. served # NoClient => arrived = inbox[served] OBVIOUS
<1>8. \/ /\ served # NoClient /\ fd' = NoClient /\ Close(served) /\ own' = FALSE
      \/ /\ fd' = served /\ UNCHANGED <<conn, well, reading, silent>> /\ (own' => own)
         /\ inbox' = [c \in Clients |-> IF c = served THEN 0 ELSE inbox[c]]
  <2>1. CASE closed BY <1>5, <2>1
  <2>2. CASE ~closed
    <3>1. own' => own BY <1>5, <2>2
    <3> QED BY <1>5, <2>2, <3>1
  <2> QED BY <2>1, <2>2
<1> HIDE DEF served, arrived, closed, held, accepts
<1>9. Received(served, arrived, held) BY <1>4, <1>5, <1>6, <1>7, <1>8 DEF Received
<1> QED BY <1>1, <1>2, <1>4, <1>9

\* A step of the time keeps its bound.
LEMMA LaterBounded ==
  ASSUME NEW n \in 0..Timeout
  PROVE  Later(n) \in 0..Timeout
BY TimesAreOrdered DEF Later

\* Every step keeps the types, ...
LEMMA TypesStep == IInv /\ [Next]_vars => Types'
<1> SUFFICES ASSUME IInv, [Next]_vars PROVE Types'
  OBVIOUS
<1> USE DEF IInv
<1>0. 0 \in 0..Timeout /\ 0 \in 0..MaxInbox BY TimesAreOrdered, BoundIsNumber
<1>1. CASE UNCHANGED vars BY <1>1 DEF vars, clientVars, mainVars, Types
<1>2. ASSUME NEW c \in Clients, Connect(c) PROVE Types'
  BY <1>2, AppendProperties DEF Connect, mainVars, Types
<1>3. ASSUME NEW c \in Clients, SendAlive(c) PROVE Types'
  <2>1. Min({inbox[c] + 1, MaxInbox}) \in 0..MaxInbox
    <3>1. inbox[c] + 1 \in Nat BY BoundIsNumber DEF Types
    <3> QED BY <3>1, Lesser
  <2> QED BY <1>0, <1>3, <2>1 DEF SendAlive, mainVars, Types
<1>4. ASSUME NEW c \in Clients, FallSilent(c) \/ StopReading(c) \/ ReadOn(c) PROVE Types'
  BY <1>4 DEF FallSilent, StopReading, ReadOn, mainVars, Types
<1>5. ASSUME NEW c \in Clients, Leave(c) PROVE Types'
  <2>1. UNCHANGED <<backlog, fd, rx, aliveAge>> /\ conn' = [conn EXCEPT ![c] = "gone"]
    BY <1>5 DEF Leave, mainVars
  <2>2. silent' = [silent EXCEPT ![c] = 0] BY <1>5 DEF Leave
  <2>3. inbox' \in [Clients -> 0..MaxInbox] BY <1>0, <1>5 DEF Leave, Types
  <2> QED BY <1>0, <2>1, <2>2, <2>3 DEF Types
<1>6. CASE Tick
  <2>1. \A c \in Clients : Later(silent[c]) \in 0..Timeout BY LaterBounded DEF Types
  <2>2. aliveAge' \in 0..Timeout BY <1>6, LaterBounded DEF Tick, Types
  <2>3. silent' \in [Clients -> 0..Timeout] BY <1>6, <2>1 DEF Tick, Types
  <2> QED BY <1>6, <2>2, <2>3 DEF Tick, Types
<1>7. CASE Receive
  <2>1. PICK served \in Clients \cup {NoClient}, arrived \in 0..MaxInbox, held \in 0..MaxInbox :
           Received(served, arrived, held)
    BY <1>7, ReceiveCases
  <2>2. backlog' \in Seq(Clients) BY <2>1, HeadAndTail DEF Received, Types
  <2>3. rx' \in 0..MaxInbox BY <2>1, BoundIsNumber DEF Received, Types
  <2>4. aliveAge' \in 0..Timeout /\ fd' \in Clients \cup {NoClient} BY <2>1 DEF Received, Types
  <2>5. CASE served # NoClient /\ Close(served) BY <2>2, <2>3, <2>4, <2>5, CloseTypes DEF Types
  <2>6. CASE /\ UNCHANGED <<conn, silent>>
             /\ inbox' = [c \in Clients |-> IF c = served THEN 0 ELSE inbox[c]]
    BY <1>0, <2>2, <2>3, <2>4, <2>6 DEF Types
  <2> QED BY <2>1, <2>5, <2>6 DEF Received
<1>8. CASE AcceptToSend BY <1>8, HeadAndTail DEF AcceptToSend, clientVars, Types
<1>9. ASSUME UNCHANGED <<backlog, rx>>, aliveAge' = 0 \/ aliveAge' = aliveAge,
             \/ UNCHANGED <<clientVars, fd>>
             \/ fd # NoClient /\ Close(fd) /\ fd' = NoClient
      PROVE  Types'
  <2>1. aliveAge' \in 0..Timeout BY <1>0, <1>9 DEF Types
  <2>2. CASE UNCHANGED <<clientVars, fd>> BY <1>9, <2>1, <2>2 DEF clientVars, Types
  <2>3. CASE fd # NoClient /\ Close(fd) /\ fd' = NoClient
    <3>1. fd \in Clients BY <2>3 DEF Types
    <3> QED BY <1>9, <2>1, <2>3, <3>1, CloseTypes DEF Types
  <2> QED BY <1>9, <2>2, <2>3
<1>10. CASE Answer \/ SendDue
  <2>1. \A result \in Results : result = "broken" => fd # NoClient BY DEF Results
  <2> QED BY <1>9, <1>10, <2>1 DEF Answer, SendDue, SendBreaks
<1>11. CASE Status \/ NothingDue BY <1>9, <1>11 DEF Status, NothingDue
<1>12. CASE Check BY <1>9, <1>12 DEF Check
<1> QED BY <1>1, <1>2, <1>3, <1>4, <1>5, <1>6, <1>7, <1>8, <1>10, <1>11, <1>12 DEF Next, Main

\* Closing the client that is served leaves those that wait.
LEMMA CloseWaits ==
  ASSUME Types, Waits, fd # NoClient, Close(fd), fd' = NoClient, UNCHANGED backlog
  PROVE  Waits'
<1>1. fd \in Clients BY DEF Types
<1>2. ASSUME NEW i \in 1..Len(backlog)
      PROVE  backlog[i] \in Clients /\ conn'[backlog[i]] # "away" /\ backlog[i] # fd'
  <2>1. backlog[i] \in Clients BY ElementOfSeq DEF Types
  <2>2. conn'[backlog[i]] = conn[backlog[i]] BY <1>1, <2>1, CloseTypes DEF Waits
  <2> QED BY <2>1, <2>2, NoClientIsNoClient DEF Waits
<1> QED BY <1>2 DEF Waits

\* ... the connections that wait, ...
LEMMA WaitsStep == IInv /\ [Next]_vars => Waits'
<1> SUFFICES ASSUME IInv, [Next]_vars PROVE Waits'
  OBVIOUS
<1> USE DEF IInv
<1>0. \A i \in 1..Len(backlog) : backlog[i] \in Clients BY ElementOfSeq DEF Types
<1>1. ASSUME UNCHANGED <<backlog, fd>>,
             \A c \in Clients : conn[c] # "away" => conn'[c] # "away"
      PROVE  Waits'
  BY <1>0, <1>1 DEF Waits, Types
<1>2. ASSUME NEW c \in Clients, Connect(c) PROVE Waits'
  <2>1. /\ conn[c] = "away" /\ conn' = [conn EXCEPT ![c] = "up"] /\ fd' = fd
        /\ backlog' = Append(backlog, c) /\ backlog \in Seq(Clients)
    BY <1>2 DEF Connect, mainVars, Types
  <2>2. /\ Len(backlog') = Len(backlog) + 1 /\ Len(backlog) \in Nat
        /\ backlog'[Len(backlog) + 1] = c
        /\ \A i \in 1..Len(backlog) : backlog'[i] = backlog[i]
    BY <2>1, AppendProperties, LenProperties
  <2>3. c # fd /\ \A i \in 1..Len(backlog) : backlog[i] # c
    BY <2>1, NoClientIsNoClient DEF Waits
  <2>4. \A d \in Clients : conn'[d] = IF d = c THEN "up" ELSE conn[d]
    BY <2>1 DEF Types
  <2>5. \A i \in 1..Len(backlog') : i \in 1..Len(backlog) \/ i = Len(backlog) + 1
    BY <2>2
  <2>6. \A i \in 1..Len(backlog') : conn'[backlog'[i]] # "away" /\ backlog'[i] # fd'
    BY <1>0, <2>1, <2>2, <2>3, <2>4, <2>5 DEF Waits
  <2>7. \A i, j \in 1..Len(backlog') : i # j => backlog'[i] # backlog'[j]
    BY <2>2, <2>3, <2>5 DEF Waits
  <2>8. fd' # NoClient => conn'[fd'] # "away" BY <2>1, <2>4 DEF Waits, Types
  <2> QED BY <2>6, <2>7, <2>8 DEF Waits
<1>3. ASSUME NEW c \in Clients,
             SendAlive(c) \/ FallSilent(c) \/ StopReading(c) \/ ReadOn(c) \/ Leave(c)
      PROVE  Waits'
  <2>1. UNCHANGED <<backlog, fd>> /\ (conn' = conn \/ conn' = [conn EXCEPT ![c] = "gone"])
    BY <1>3 DEF SendAlive, FallSilent, StopReading, ReadOn, Leave, mainVars
  <2> QED BY <1>1, <2>1 DEF Types
<1>4. CASE Receive
  <2>1. PICK served \in Clients \cup {NoClient}, arrived \in 0..MaxInbox, held \in 0..MaxInbox :
           Received(served, arrived, held)
    BY <1>4, ReceiveCases
  <2>2. CASE served = fd /\ backlog' = backlog
    BY <1>1, <2>1, <2>2, CloseWaits DEF Received
  <2>3. CASE fd = NoClient /\ backlog # <<>> /\ served = Head(backlog) /\ backlog' = Tail(backlog)
    <3>1. /\ served \in Clients /\ served # NoClient /\ conn[served] # "away"
          /\ \A i \in 1..Len(backlog') :
               /\ backlog'[i] \in Clients /\ backlog'[i] # NoClient
               /\ conn[backlog'[i]] # "away" /\ backlog'[i] # served
          /\ \A i, j \in 1..Len(backlog') : i # j => backlog'[i] # backlog'[j]
      BY <2>3, HeadAndTail, NoClientIsNoClient
    <3>2. CASE fd' = NoClient /\ Close(served)
      <4>1. \A d \in Clients : d # served => conn'[d] = conn[d] BY <3>1, <3>2, CloseTypes
      <4> QED BY <3>1, <3>2, <4>1 DEF Waits
    <3>3. CASE fd' = served /\ UNCHANGED conn BY <3>1, <3>3 DEF Waits
    <3> QED BY <2>1, <3>2, <3>3 DEF Received
  <2> QED BY <2>1, <2>2, <2>3 DEF Received
<1>5. CASE AcceptToSend
  <2>1. /\ backlog # <<>> /\ conn' = conn
        /\ fd' = Head(backlog) /\ backlog' = Tail(backlog)
    BY <1>5 DEF AcceptToSend, clientVars
  <2> QED BY <2>1, HeadAndTail DEF Waits
<1>6. CASE Answer \/ SendDue
  <2>1. /\ UNCHANGED backlog
        /\ \/ UNCHANGED <<conn, fd>>
           \/ fd # NoClient /\ Close(fd) /\ fd' = NoClient
    <3>1. \A result \in Results : result = "broken" => fd # NoClient BY DEF Results
    <3> QED BY <1>6, <3>1 DEF Answer, SendDue, SendBreaks, clientVars
  <2> QED BY <1>1, <2>1, CloseWaits
<1>7. CASE Check
  <2>1. /\ UNCHANGED backlog
        /\ \/ UNCHANGED <<conn, fd>>
           \/ fd # NoClient /\ Close(fd) /\ fd' = NoClient
    BY <1>7 DEF Check, clientVars
  <2> QED BY <1>1, <2>1, CloseWaits
<1>8. CASE Tick \/ Status \/ NothingDue \/ UNCHANGED vars
  BY <1>1, <1>8 DEF Tick, Status, NothingDue, vars, clientVars, mainVars
<1> QED BY <1>2, <1>3, <1>4, <1>5, <1>6, <1>7, <1>8 DEF Next, Main

\* A tick adds one to a time that has not reached its bound.
LEMMA LaterByOne ==
  ASSUME NEW n \in 0..Timeout
  PROVE  /\ n = 0 => Later(n) <= 1
         /\ \A m \in 0..Timeout : m <= n + 1 => Later(m) <= Later(n) + 1
BY TimesAreOrdered DEF Later

\* ... and the timer in time.
LEMMA SilenceStep == IInv /\ [Next]_vars => UnservedFresh' /\ InTime'
<1> SUFFICES ASSUME IInv, [Next]_vars PROVE UnservedFresh' /\ InTime'
  OBVIOUS
<1> USE DEF IInv
<1>0. aliveAge \in Nat /\ 0 <= 1 /\ \A c \in Clients : silent[c] \in Nat /\ inbox[c] \in Nat
  BY TimesAreOrdered, BoundIsNumber DEF Types
<1>1. CASE UNCHANGED vars
  BY <1>1 DEF vars, clientVars, mainVars, UnservedFresh, InTime
<1>2. ASSUME NEW c \in Clients, Connect(c) PROVE UnservedFresh' /\ InTime'
  <2>1. /\ UNCHANGED <<silent, inbox, pc, fd, aliveAge, own, late>>
        /\ conn[c] = "away" /\ conn' = [conn EXCEPT ![c] = "up"]
    BY <1>2 DEF Connect, mainVars
  <2>2. fd # c BY <2>1, NoClientIsNoClient DEF Waits
  <2>3. \A d \in Clients : fd = d => conn'[d] = conn[d] BY <2>1, <2>2 DEF Types
  <2> QED BY <2>1, <2>3 DEF UnservedFresh, InTime
<1>3. ASSUME NEW c \in Clients, SendAlive(c) PROVE UnservedFresh' /\ InTime'
  <2>1. /\ UNCHANGED <<conn, pc, fd, aliveAge, own, late>>
        /\ inbox' = [inbox EXCEPT ![c] = Min({inbox[c] + 1, MaxInbox})]
        /\ silent' = [silent EXCEPT ![c] = 0]
    BY <1>3 DEF SendAlive, mainVars
  <2>2. inbox[c] + 1 \in Nat /\ inbox[c] + 1 # 0 BY <1>0
  <2>3. inbox'[c] # 0 BY <2>1, <2>2, Lesser DEF Types
  <2>4. \A d \in Clients : d # c => inbox'[d] = inbox[d] /\ silent'[d] = silent[d]
    BY <2>1 DEF Types
  <2> QED BY <2>1, <2>3, <2>4 DEF UnservedFresh, InTime
<1>4. ASSUME NEW c \in Clients, FallSilent(c) \/ StopReading(c) \/ ReadOn(c)
      PROVE  UnservedFresh' /\ InTime'
  BY <1>4 DEF FallSilent, StopReading, ReadOn, mainVars, UnservedFresh, InTime
<1>5. ASSUME NEW c \in Clients, Leave(c) PROVE UnservedFresh' /\ InTime'
  <2>1. /\ UNCHANGED <<pc, fd, aliveAge, own, late>>
        /\ conn' = [conn EXCEPT ![c] = "gone"] /\ silent' = [silent EXCEPT ![c] = 0]
        /\ inbox' = inbox \/ inbox' = [inbox EXCEPT ![c] = 0]
    BY <1>5 DEF Leave, mainVars
  <2>2. conn'[c] # "up" BY <2>1 DEF Types
  <2>3. \A d \in Clients : d # c =>
          conn'[d] = conn[d] /\ inbox'[d] = inbox[d] /\ silent'[d] = silent[d]
    BY <2>1 DEF Types
  <2> QED BY <2>1, <2>2, <2>3 DEF UnservedFresh, InTime
<1>6. CASE Tick
  <2>1. /\ UNCHANGED <<conn, inbox, pc, fd, own>> /\ aliveAge' = Later(aliveAge)
        /\ silent' = [c \in Clients |-> IF conn[c] = "up" THEN Later(silent[c]) ELSE silent[c]]
    BY <1>6 DEF Tick
  <2>2. CASE Blocked
    <3>1. late' BY <1>6, <2>2 DEF Tick
    <3> QED BY <3>1 DEF UnservedFresh, InTime
  <2>3. CASE Settled
    <3>1. (~late' => ~late) /\ pc = "receive" BY <1>6, <2>3 DEF Tick, Settled
    <3>2. fd = NoClient => aliveAge' <= 1
      BY <2>1, <2>3, LaterByOne DEF Settled, Types
    <3>3. ASSUME NEW c \in Clients, conn[c] = "up", aliveAge <= silent[c] + 1
          PROVE  aliveAge' <= silent'[c] + 1
      BY <2>1, <3>3, LaterByOne DEF Types
    <3> QED BY <2>1, <3>1, <3>2, <3>3 DEF UnservedFresh, InTime
  <2> QED BY <1>6, <2>2, <2>3 DEF Tick
<1>7. CASE Receive
  <2>1. PICK served \in Clients \cup {NoClient}, arrived \in 0..MaxInbox, held \in 0..MaxInbox :
           Received(served, arrived, held)
    BY <1>7, ReceiveCases
  <2>2. pc = "receive" BY <1>7 DEF Receive
  <2>3. CASE own' = FALSE \/ pc' = "answer" BY <2>3 DEF UnservedFresh, InTime
  <2>4. CASE /\ held = 0 /\ fd' = served
             /\ UNCHANGED <<conn, silent, aliveAge, late>> /\ (own' => own)
    <3>1. served # NoClient => inbox[served] = 0 BY <2>1, <2>4 DEF Received
    <3>2. UnservedFresh' BY <2>1, <2>2, <2>4 DEF Received, UnservedFresh
    <3>3. InTime'
      <4> SUFFICES ASSUME own', ~late', NEW c \in Clients, fd' = c, conn'[c] = "up"
                   PROVE  aliveAge' <= silent'[c] + 1
        BY DEF InTime
      <4>1. own /\ ~late /\ served = c /\ c # NoClient /\ inbox[c] = 0 /\ conn[c] = "up"
        BY <2>4, <3>1, NoClientIsNoClient
      <4>2. CASE fd = c BY <2>2, <2>4, <4>1, <4>2 DEF InTime
      <4>3. CASE fd = NoClient
        <5>1. aliveAge <= 1 BY <2>2, <4>1, <4>3 DEF UnservedFresh
        <5> QED BY <1>0, <2>4, <5>1
      <4> QED BY <2>1, <4>1, <4>2, <4>3 DEF Received
    <3> QED BY <3>2, <3>3
  <2> QED BY <2>1, <2>3, <2>4 DEF Received
<1>8. CASE AcceptToSend
  <2>1. /\ fd = NoClient /\ fd' = Head(backlog) /\ fd' # NoClient
        /\ UNCHANGED <<conn, silent, inbox, pc, aliveAge, own, late>>
    BY <1>8, HeadAndTail, NoClientIsNoClient DEF AcceptToSend, clientVars
  <2>2. own /\ ~late /\ pc # "answer" =>
          aliveAge <= 1 /\ \A c \in Clients : aliveAge <= silent[c] + 1
    BY <1>0, <2>1 DEF UnservedFresh
  <2> QED BY <2>1, <2>2 DEF UnservedFresh, InTime
<1>9. CASE Answer
  <2>1. aliveAge' = 0 BY <1>9 DEF Answer
  <2>2. \A c \in Clients : silent'[c] \in Nat
    <3>1. Types' BY TypesStep
    <3> QED BY <3>1, TimesAreOrdered DEF Types
  <2> QED BY <2>1, <2>2 DEF UnservedFresh, InTime
<1>10. CASE Status
  <2>1. UNCHANGED <<conn, inbox, silent, fd>> BY <1>10 DEF Status, clientVars
  <2>2. CASE fd = NoClient
    BY <1>10, <2>1, <2>2, NoClientIsNoClient DEF Status, UnservedFresh, InTime
  <2>3. CASE fd # NoClient
    <3>1. UNCHANGED <<aliveAge, own, late>> /\ pc = "status" BY <1>10, <2>3 DEF Status
    <3> QED BY <2>1, <3>1 DEF UnservedFresh, InTime
  <2> QED BY <2>2, <2>3
<1>11. CASE SendDue \/ NothingDue
  <2>1. /\ pc # "answer" /\ UNCHANGED <<aliveAge, late>>
        /\ (own' => own)
        /\ own' = FALSE \/ UNCHANGED <<conn, inbox, silent, fd>>
    <3>1. CASE NothingDue BY <1>11, <3>1 DEF NothingDue, clientVars
    <3>2. CASE SendDue
      <4>1. \/ SendBreaks /\ fd # NoClient
            \/ UNCHANGED <<conn, inbox, silent, fd>>
        BY <3>2 DEF SendDue, Results, clientVars
      <4>2. own' = (own /\ fd' = fd) BY <3>2 DEF SendDue
      <4>3. SendBreaks /\ fd # NoClient => fd' # fd BY DEF SendBreaks
      <4> QED BY <3>2, <4>1, <4>2, <4>3 DEF SendDue
    <3> QED BY <1>11, <3>1, <3>2
  <2>2. CASE own' = FALSE BY <2>2 DEF UnservedFresh, InTime
  <2>3. CASE UNCHANGED <<conn, inbox, silent, fd>>
    BY <2>1, <2>3 DEF UnservedFresh, InTime
  <2> QED BY <2>1, <2>2, <2>3
<1>12. CASE Check
  <2>1. /\ pc = "check" /\ UNCHANGED <<aliveAge, late>>
        /\ own' = FALSE \/ UNCHANGED <<conn, inbox, silent, fd, own>>
    BY <1>12 DEF Check, clientVars
  <2>2. CASE own' = FALSE BY <2>2 DEF UnservedFresh, InTime
  <2>3. CASE UNCHANGED <<conn, inbox, silent, fd, own>>
    BY <2>1, <2>3 DEF UnservedFresh, InTime
  <2> QED BY <2>1, <2>2, <2>3
<1> QED BY <1>1, <1>2, <1>3, <1>4, <1>5, <1>6, <1>7, <1>8, <1>9, <1>10, <1>11, <1>12
        DEF Next, Main

\* The invariant of the timer and the connections: whatever the clients do and
\* wherever main is blocked, the timer that drops a client is never more than a
\* tick ahead of that client's silence.
THEOREM TimerInvariant == Spec => []IInv
<1>1. Init => IInv
  <2> SUFFICES ASSUME Init PROVE IInv
    OBVIOUS
  <2>1. Types
    BY TimesAreOrdered, BoundIsNumber, EmptySeq DEF Init, Types
  <2>2. Waits
    <3>1. Len(backlog) = 0 BY EmptySeq DEF Init
    <3> QED BY <3>1 DEF Init, Waits
  <2> QED BY <2>1, <2>2 DEF Init, IInv, UnservedFresh, InTime
<1>2. IInv /\ [Next]_vars => IInv' BY TypesStep, WaitsStep, SilenceStep DEF IInv
<1> QED BY <1>1, <1>2, PTL DEF Spec

\* A client that is there is dropped only for its own silence: no interleaving
\* of other clients' messages, of their coming and going, or of main's sends
\* makes alive_receive_usec run out on a client that spoke, but for the three
\* cases that the property names.
THEOREM DroppedOnlyForSilence == Spec => DroppedForSilence
<1> DEFINE Fair == \A c \in Clients :
       fd = c /\ conn[c] = "up" /\ pc = "check" /\ fd' = NoClient =>
            silent[c] >= Timeout - 1 \/ inbox[c] > 0 \/ ~own \/ late
<1>1. IInv /\ [Next]_vars => [Fair]_vars
  <2> SUFFICES ASSUME IInv, Next,
                      NEW c \in Clients, fd = c, conn[c] = "up", pc = "check", fd' = NoClient,
                      own, ~late, ~(inbox[c] > 0)
               PROVE  silent[c] >= Timeout - 1
    OBVIOUS
  <2>1. fd' # fd BY NoClientIsNoClient
  <2>2. Check
    BY <2>1 DEF Next, Main, Tick, Connect, FallSilent, StopReading, ReadOn, Leave, SendAlive,
                Receive, AcceptToSend, Sending, Answer, Status, SendDue, NothingDue, mainVars
  <2>3. aliveAge >= Timeout BY <2>1, <2>2 DEF Check, clientVars
  <2>4. inbox[c] = 0 /\ silent[c] \in Nat /\ aliveAge \in Nat /\ Timeout \in Nat
    BY TimesAreOrdered, BoundIsNumber DEF IInv, Types
  <2>5. aliveAge <= silent[c] + 1 BY <2>4 DEF IInv, InTime
  <2> QED BY <2>3, <2>4, <2>5
<1>2. DroppedForSilence <=> [][Fair]_vars BY DEF DroppedForSilence
<1> QED BY <1>1, <1>2, TimerInvariant, PTL DEF Spec
=============================================================================
