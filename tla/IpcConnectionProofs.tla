------------------------- MODULE IpcConnectionProofs -------------------------
(* Theorems about IpcConnection, for every backlog, every room and any number *)
(* of controllers, commands and restarts.                                     *)
EXTENDS IpcConnection, SequenceTheorems, TLAPS

\* What is in a sequence is at a place of it.
LEMMA InRange ==
  ASSUME NEW S, NEW s \in Seq(S), NEW x
  PROVE  x \in Range(s) <=> \E i \in 1..Len(s) : x = s[i]
<1>1. DOMAIN s = 1..Len(s) BY LenProperties
<1>2. Range(s) = {s[i] : i \in 1..Len(s)} BY <1>1 DEF Range
<1> QED BY <1>2

LEMMA InAppend ==
  ASSUME NEW S, NEW s \in Seq(S), NEW e \in S
  PROVE  /\ Append(s, e) \in Seq(S) /\ Len(Append(s, e)) = Len(s) + 1
         /\ \A i \in 1..Len(s) : Append(s, e)[i] = s[i]
         /\ Append(s, e)[Len(s) + 1] = e
         /\ Range(Append(s, e)) = Range(s) \cup {e}
<1> DEFINE t == Append(s, e)
<1>1. Len(s) \in Nat BY LenProperties
<1>2. /\ t \in Seq(S) /\ Len(t) = Len(s) + 1
      /\ \A i \in 1..Len(s) : t[i] = s[i]
      /\ t[Len(s) + 1] = e
  OBVIOUS
<1> HIDE DEF t
<1>3. ASSUME NEW x PROVE x \in Range(t) <=> x \in Range(s) \cup {e}
  <2>1. x \in Range(s) <=> \E i \in 1..Len(s) : x = s[i] BY InRange
  <2>2. x \in Range(t) <=> \E i \in 1..Len(t) : x = t[i] BY <1>2, InRange
  <2>3. (\E i \in 1..Len(t) : x = t[i]) <=> (\E i \in 1..Len(s) : x = s[i]) \/ x = e
    BY <1>1, <1>2
  <2> QED BY <2>1, <2>2, <2>3
<1> QED BY <1>2, <1>3 DEF t

LEMMA RangeAppend ==
  ASSUME NEW S, NEW s \in Seq(S), NEW e \in S
  PROVE  Range(Append(s, e)) = Range(s) \cup {e}
BY InAppend

LEMMA InTail ==
  ASSUME NEW S, NEW s \in Seq(S), s # <<>>
  PROVE  /\ Head(s) \in S /\ Tail(s) \in Seq(S) /\ Len(s) \in Nat \ {0}
         /\ Head(s) = s[1] /\ Len(Tail(s)) = Len(s) - 1
         /\ \A i \in 1..(Len(s) - 1) : Tail(s)[i] = s[i + 1]
         /\ Range(s) = Range(Tail(s)) \cup {Head(s)}
<1> DEFINE t == Tail(s)
<1>1. /\ Head(s) \in S /\ t \in Seq(S) /\ Len(s) \in Nat \ {0}
      /\ Head(s) = s[1] /\ Len(t) = Len(s) - 1
      /\ \A i \in 1..(Len(s) - 1) : t[i] = s[i + 1]
  BY HeadTailProperties, EmptySeq
<1> HIDE DEF t
<1>2. ASSUME NEW x PROVE x \in Range(s) <=> x \in Range(t) \cup {Head(s)}
  <2>1. x \in Range(s) <=> \E i \in 1..Len(s) : x = s[i] BY InRange
  <2>2. x \in Range(t) <=> \E i \in 1..(Len(s) - 1) : x = t[i] BY <1>1, InRange
  <2>3. ASSUME NEW i \in 1..Len(s), x = s[i]
        PROVE  x = Head(s) \/ \E j \in 1..(Len(s) - 1) : x = t[j]
    <3>1. CASE i = 1 BY <1>1, <2>3, <3>1
    <3>2. CASE i # 1
      <4>1. i - 1 \in 1..(Len(s) - 1) /\ t[i - 1] = s[i] BY <1>1, <3>2
      <4> QED BY <2>3, <4>1
    <3> QED BY <3>1, <3>2
  <2>4. ASSUME NEW j \in 1..(Len(s) - 1), x = t[j] PROVE \E i \in 1..Len(s) : x = s[i]
    <3>1. j + 1 \in 1..Len(s) /\ x = s[j + 1] BY <1>1, <2>4
    <3> QED BY <3>1
  <2>5. 1 \in 1..Len(s) BY <1>1
  <2> QED BY <1>1, <2>1, <2>2, <2>3, <2>4, <2>5
<1> QED BY <1>1, <1>2 DEF t

\* The increasing sequences stay so when their first is taken, and its first is
\* below the others.
LEMMA IncreasingTail ==
  ASSUME NEW s \in Seq(Nat), s # <<>>, Increasing(s)
  PROVE  Increasing(Tail(s)) /\ \A i \in 1..Len(Tail(s)) : Head(s) < Tail(s)[i]
<1>1. DOMAIN s = 1..Len(s) BY LenProperties
<1> DEFINE t == Tail(s)
<1>2. /\ t \in Seq(Nat) /\ Len(t) = Len(s) - 1 /\ Len(s) \in Nat \ {0} /\ Head(s) = s[1]
      /\ \A i \in 1..(Len(s) - 1) : t[i] = s[i + 1]
  BY InTail
<1> HIDE DEF t
<1>3. DOMAIN t = 1..(Len(s) - 1) BY <1>2, LenProperties
<1>4. \A i \in DOMAIN t : i \in Nat /\ i + 1 \in DOMAIN s /\ 1 < i + 1 /\ t[i] = s[i + 1]
  BY <1>1, <1>2, <1>3
<1>5. 1 \in DOMAIN s BY <1>1, <1>2
<1>6. Increasing(t)
  <2>1. SUFFICES ASSUME NEW i \in DOMAIN t, NEW j \in DOMAIN t, i < j PROVE t[i] < t[j]
    BY DEF Increasing
  <2>2. i + 1 < j + 1 BY <1>4, <2>1
  <2> QED BY <1>4, <2>2 DEF Increasing
<1>7. \A i \in DOMAIN t : Head(s) < t[i] BY <1>2, <1>4, <1>5 DEF Increasing
<1> QED BY <1>2, <1>3, <1>6, <1>7 DEF t

LEMMA IncreasingAppend ==
  ASSUME NEW s \in Seq(Nat), NEW e \in Nat, Increasing(s), \A i \in 1..Len(s) : s[i] < e
  PROVE  Increasing(Append(s, e))
<1>1. DOMAIN s = 1..Len(s) /\ Len(s) \in Nat BY LenProperties
<1>2. DOMAIN Append(s, e) = 1..(Len(s) + 1) BY InAppend, LenProperties
<1> QED BY <1>1, <1>2, InAppend DEF Increasing

-----------------------------------------------------------------------------
(* Types, and which connection is served.                                     *)

\* After a connection was accepted, or was there, it is older than those left.
LEMMA AcceptType ==
  ASSUME TypeOK, OldestServed
  PROVE  /\ Accepted.fd \in 0..MaxRuns /\ Accepted.rest \in Seq(Runs)
         /\ Len(Accepted.rest) <= Backlog + 1
         /\ linked = Range(Accepted.rest) \cup ({Accepted.fd} \ {0})
         /\ Increasing(Accepted.rest)
         /\ \A i \in 1..Len(Accepted.rest) : Accepted.fd < Accepted.rest[i]
<1> USE LimitsAreNumbers DEF TypeOK, OldestServed, Runs
<1>0. pending \in Seq(Nat) /\ DOMAIN pending = 1..Len(pending) BY SeqMonotonic, LenProperties
<1>1. CASE clientFd = 0 /\ pending # <<>>
  <2>1. Accepted = [fd |-> Head(pending), rest |-> Tail(pending)] BY <1>1 DEF Accepted
  <2>2. /\ Head(pending) \in Runs /\ Tail(pending) \in Seq(Runs)
        /\ Len(Tail(pending)) = Len(pending) - 1 /\ Len(pending) \in Nat
        /\ Range(pending) = Range(Tail(pending)) \cup {Head(pending)}
    BY <1>1, InTail
  <2>3. Increasing(Tail(pending)) /\ \A i \in 1..Len(Tail(pending)) : Head(pending) < Tail(pending)[i]
    BY <1>0, <1>1, IncreasingTail
  <2>4. Len(Tail(pending)) <= Backlog + 1 BY <2>2
  <2>5. linked = Range(Tail(pending)) \cup ({Head(pending)} \ {0}) BY <1>1, <2>2
  <2> QED BY <2>1, <2>2, <2>3, <2>4, <2>5
<1>2. CASE ~(clientFd = 0 /\ pending # <<>>)
  <2>1. Accepted = [fd |-> clientFd, rest |-> pending] BY <1>2 DEF Accepted
  <2> QED BY <1>0, <2>1
<1> QED BY <1>1, <1>2

\* Every step keeps every variable in its type, and what is linked is what is
\* served or waits, oldest first (the descriptors of monitor/ipc.c).
LEMMA TypeStep == TypeOK /\ OldestServed /\ [Next]_vars => TypeOK' /\ OldestServed'
<1> SUFFICES ASSUME TypeOK, OldestServed, [Next]_vars PROVE TypeOK' /\ OldestServed'
  OBVIOUS
<1> USE LimitsAreNumbers DEF TypeOK, OldestServed, Runs, controllerVars, monitorVars
<1>0. /\ DOMAIN pending = 1..Len(pending) /\ Len(pending) \in Nat /\ pending \in Seq(Nat)
      /\ \A i \in 1..Len(pending) : pending[i] \in linked
  <2>1. \A i \in 1..Len(pending) : pending[i] \in Range(pending) BY InRange
  <2> QED BY <2>1, LenProperties, SeqMonotonic
<1>1. CASE Start
  <2>1. runs + 1 \in Runs BY <1>1 DEF Start
  <2>2. /\ pending' \in Seq(Runs) /\ Len(pending') = Len(pending) + 1
        /\ \A i \in 1..Len(pending) : pending'[i] = pending[i]
        /\ pending'[Len(pending) + 1] = runs + 1
        /\ Range(pending') = Range(pending) \cup {runs + 1}
    BY <1>1, <2>1, InAppend DEF Start
  <2>3. Increasing(pending')
    <3>1. \A x \in linked : x \in Nat /\ x < runs + 1 OBVIOUS
    <3>2. \A i \in 1..Len(pending) : pending[i] < runs + 1 BY <1>0, <3>1
    <3>3. runs + 1 \in Nat /\ pending' = Append(pending, runs + 1) BY <1>1 DEF Start
    <3> QED BY <1>0, <3>2, <3>3, IncreasingAppend
  <2>4. clientFd < runs + 1
    <3>1. clientFd = 0 \/ clientFd \in 1..runs OBVIOUS
    <3> QED BY <3>1
  <2>5. DOMAIN pending' = 1..(Len(pending) + 1) BY <2>2, LenProperties
  <2>6. OldestServed' BY <1>0, <1>1, <2>2, <2>3, <2>4, <2>5 DEF Start
  <2>7. Len(pending') <= Backlog + 1 BY <1>0, <1>1, <2>2 DEF Start
  <2>8. linked' = Range(pending') \cup ({clientFd'} \ {0}) /\ linked' \subseteq 1..runs'
    BY <1>1, <2>1, <2>2 DEF Start
  <2>9. \A k \in Runs : Len(toMonitor'[k]) <= Room /\ (k \notin linked' => toMonitor'[k] = <<>>)
    BY <1>1 DEF Start
  <2>10. /\ runs' \in 0..MaxRuns /\ controller' \in {0, runs'} /\ clientFd' \in 0..MaxRuns
         /\ commands' \in 0..MaxCommands /\ reboots' \in 0..MaxReboots
         /\ toMonitor' \in [Runs -> Seq(1..MaxCommands)] /\ toController' \in 0..Room
         /\ executed' \in Seq(1..MaxCommands)
    BY <1>1, <2>1 DEF Start
  <2> QED BY <2>2, <2>6, <2>7, <2>8, <2>9, <2>10
<1>2. CASE Stop BY <1>2 DEF Stop
<1>3. CASE Command
  <2>1. controller \in Runs BY <1>3 DEF Command
  <2>0. commands + 1 \in 1..MaxCommands BY <1>3 DEF Command
  <2>2. /\ Append(toMonitor[controller], commands + 1) \in Seq(1..MaxCommands)
        /\ Len(Append(toMonitor[controller], commands + 1)) = Len(toMonitor[controller]) + 1
        /\ Len(toMonitor[controller]) \in Nat
    <3> DEFINE q == toMonitor[controller]
    <3>1. q \in Seq(1..MaxCommands) BY <2>1
    <3> HIDE DEF q
    <3>2. /\ Append(q, commands + 1) \in Seq(1..MaxCommands)
          /\ Len(Append(q, commands + 1)) = Len(q) + 1 /\ Len(q) \in Nat
      BY <2>0, <3>1, InAppend, LenProperties
    <3> QED BY <3>2 DEF q
  <2>3. toMonitor' \in [Runs -> Seq(1..MaxCommands)] BY <1>3, <2>1, <2>2 DEF Command
  <2>4. \A k \in Runs : Len(toMonitor'[k]) <= Room /\ (k \notin linked' => toMonitor'[k] = <<>>)
    BY <1>3, <2>1, <2>2 DEF Command
  <2> QED BY <1>3, <2>3, <2>4 DEF Command
<1>4. CASE TakeReport BY <1>4 DEF TakeReport
<1>5. CASE Receive
  <2>1. /\ clientFd' \in 0..MaxRuns /\ pending' \in Seq(Runs) /\ Len(pending') <= Backlog + 1
        /\ linked' = Range(pending') \cup ({clientFd'} \ {0})
        /\ OldestServed'
    BY <1>5, AcceptType, LenProperties DEF Receive
  <2>2. CASE clientFd' # 0 /\ toMonitor[clientFd'] # <<>>
    <3> DEFINE q == toMonitor[clientFd']
    <3>0. clientFd' \in Runs /\ q \in Seq(1..MaxCommands) BY <2>1, <2>2
    <3>1. /\ Head(q) \in 1..MaxCommands /\ Tail(q) \in Seq(1..MaxCommands)
          /\ Len(Tail(q)) = Len(q) - 1 /\ Len(q) \in Nat
      BY <2>2, <3>0, InTail
    <3>2. clientFd' \in linked BY <1>5, <2>1, <2>2 DEF Receive
    <3>3. executed' \in Seq(1..MaxCommands)
      <4> HIDE DEF q
      <4>1. executed' = Append(executed, Head(q)) BY <1>5, <2>2 DEF Receive, q
      <4> QED BY <3>1, <4>1, InAppend
    <3>4. toMonitor' = [toMonitor EXCEPT ![clientFd'] = Tail(q)] BY <1>5, <2>2 DEF Receive
    <3>5. toMonitor' \in [Runs -> Seq(1..MaxCommands)] BY <3>0, <3>1, <3>4
    <3>6. linked' = linked BY <1>5 DEF Receive
    <3>7. ASSUME NEW k \in Runs
          PROVE  Len(toMonitor'[k]) <= Room /\ (k \notin linked' => toMonitor'[k] = <<>>)
      <4>1. CASE k = clientFd'
        <5>1. toMonitor'[k] = Tail(q) /\ Len(q) <= Room BY <3>0, <3>4, <4>1
        <5> HIDE DEF q
        <5>2. Len(Tail(q)) <= Room BY <3>1, <5>1
        <5> QED BY <3>2, <3>6, <4>1, <5>1, <5>2
      <4>2. CASE k # clientFd' BY <3>4, <3>6, <4>2
      <4> QED BY <4>1, <4>2
    <3> QED BY <1>5, <2>1, <3>7, <3>3, <3>5, <3>6 DEF Receive
  <2>3. CASE ~(clientFd' # 0 /\ toMonitor[clientFd'] # <<>>)
    BY <1>5, <2>1, <2>3 DEF Receive
  <2> QED BY <2>2, <2>3
<1>6. CASE Report
  <2>1. toController' \in 0..Room BY <1>6 DEF Report, ReportTo
  <2>2. pending' = Accepted.rest BY <1>6 DEF Report, ReportTo
  <2>3. DOMAIN pending' = 1..Len(pending') BY <2>2, AcceptType, LenProperties
  <2>4. CASE Accepted.fd # 0 /\ Accepted.fd # controller
    <3>1. CloseClient(Accepted.fd) BY <1>6, <2>4 DEF Report, ReportTo
    <3>2. Accepted.fd \notin Range(Accepted.rest)
      <4> DEFINE fd == Accepted.fd  rest == Accepted.rest
      <4>1. /\ fd \in 0..MaxRuns /\ rest \in Seq(Runs)
            /\ \A i \in 1..Len(rest) : fd < rest[i]
        BY AcceptType
      <4> HIDE DEF fd, rest
      <4>2. \A i \in 1..Len(rest) : rest[i] # fd BY <4>1
      <4>3. fd \in Range(rest) <=> \E i \in 1..Len(rest) : fd = rest[i] BY <4>1, InRange
      <4>4. fd \notin Range(rest) BY <4>2, <4>3
      <4> QED BY <4>4 DEF fd, rest
    <3>3. linked' = Range(pending') \cup ({clientFd'} \ {0})
      BY <2>2, <3>1, <3>2, AcceptType DEF CloseClient
    <3>4. OldestServed'
      <4>1. pending' \in Seq(Runs) /\ Increasing(pending') BY <2>2, AcceptType
      <4>2. \A i \in 1..Len(pending') : pending'[i] \in Runs BY <4>1, ElementOfSeq
      <4>3. \A i \in DOMAIN pending' : 0 < pending'[i] BY <2>3, <4>2
      <4>4. clientFd' = 0 BY <3>1 DEF CloseClient
      <4>5. \A i \in DOMAIN pending' : clientFd' < pending'[i] BY <4>3, <4>4
      <4> QED BY <4>1, <4>5
    <3>5. \A k \in Runs : Len(toMonitor'[k]) <= Room /\ (k \notin linked' => toMonitor'[k] = <<>>)
      BY <3>1, EmptySeq DEF CloseClient
    <3>6. toMonitor' \in [Runs -> Seq(1..MaxCommands)] BY <3>1, EmptySeq DEF CloseClient
    <3>7. clientFd' \in 0..MaxRuns /\ linked' \subseteq 1..runs BY <3>1 DEF CloseClient
    <3> QED BY <1>6, <2>1, <2>2, <3>3, <3>4, <3>5, <3>6, <3>7, AcceptType DEF Report, ReportTo
  <2>5. CASE ~(Accepted.fd # 0 /\ Accepted.fd # controller)
    BY <1>6, <2>1, <2>2, <2>3, <2>5, AcceptType DEF Report, ReportTo
  <2> QED BY <2>4, <2>5
<1>7. CASE Reboot
  <2>1. Range(<<>>) = {} BY DEF Range
  <2>2. OldestServed' BY <1>7 DEF Reboot, Increasing
  <2>3. linked' = Range(pending') \cup ({clientFd'} \ {0}) BY <1>7, <2>1 DEF Reboot
  <2>4. toMonitor' \in [Runs -> Seq(1..MaxCommands)] /\ pending' \in Seq(Runs) /\ Len(pending') <= Backlog + 1
    BY <1>7, EmptySeq DEF Reboot
  <2>5. \A k \in Runs : Len(toMonitor'[k]) <= Room /\ (k \notin linked' => toMonitor'[k] = <<>>)
    BY <1>7, EmptySeq DEF Reboot
  <2>6. /\ runs' \in 0..MaxRuns /\ controller' \in {0, runs'} /\ clientFd' \in 0..MaxRuns
        /\ commands' \in 0..MaxCommands /\ reboots' \in 0..MaxReboots
        /\ toController' \in 0..Room /\ executed' \in Seq(1..MaxCommands) /\ linked' \subseteq 1..runs'
    BY <1>7 DEF Reboot
  <2> QED BY <2>2, <2>3, <2>4, <2>5, <2>6
<1>8. CASE UNCHANGED vars BY <1>8 DEF vars
<1> QED BY <1>1, <1>2, <1>3, <1>4, <1>5, <1>6, <1>7, <1>8 DEF Next

-----------------------------------------------------------------------------
(* The order of the commands.                                                 *)

\* No controller older than the one served is linked, so none has a command left.
LEMMA OlderGone ==
  ASSUME TypeOK, OldestServed, NEW j \in Runs, j < Accepted.fd
  PROVE  toMonitor[j] = <<>>
<1> DEFINE fd == Accepted.fd  rest == Accepted.rest
<1>1. /\ fd \in 0..MaxRuns /\ rest \in Seq(Runs)
      /\ linked = Range(rest) \cup ({fd} \ {0})
      /\ \A i \in 1..Len(rest) : fd < rest[i]
  BY AcceptType
<1>2. j < fd OBVIOUS
<1> HIDE DEF fd, rest
<1>3. j \in Nat /\ fd \in Nat /\ j # fd BY <1>1, <1>2, LimitsAreNumbers DEF Runs
<1>4. \A i \in 1..Len(rest) : rest[i] \in Nat BY <1>1, ElementOfSeq, LimitsAreNumbers DEF Runs
<1>5. \A i \in 1..Len(rest) : j # rest[i] BY <1>1, <1>2, <1>3, <1>4
<1>6. j \in Range(rest) <=> \E i \in 1..Len(rest) : j = rest[i] BY <1>1, InRange
<1>7. j \notin linked BY <1>1, <1>3, <1>5, <1>6
<1> QED BY <1>7 DEF TypeOK

\* Every step keeps the commands in the order they were sent, in each connection,
\* from an older connection to a newer one, and in what was executed.
LEMMA QueueStep ==
  TypeOK /\ OldestServed /\ QueueInv /\ InOrder /\ [Next]_vars => QueueInv' /\ InOrder'
<1> SUFFICES ASSUME TypeOK, OldestServed, QueueInv, InOrder, [Next]_vars
             PROVE  QueueInv' /\ InOrder'
  OBVIOUS
<1> USE LimitsAreNumbers DEF controllerVars, monitorVars
<1>0. /\ executed \in Seq(Nat) /\ DOMAIN executed = 1..Len(executed) /\ Len(executed) \in Nat
      /\ commands \in Nat
      /\ \A k \in Runs : /\ toMonitor[k] \in Seq(Nat) /\ Len(toMonitor[k]) \in Nat
                         /\ DOMAIN toMonitor[k] = 1..Len(toMonitor[k])
  <2>1. 1..MaxCommands \subseteq Nat OBVIOUS
  <2> QED BY <2>1, LenProperties, SeqMonotonic DEF TypeOK
<1>1. CASE Start BY <1>1 DEF Start, QueueInv, InOrder
<1>2. CASE Stop BY <1>2 DEF Stop, QueueInv, InOrder
<1>3. CASE Command
  <2> DEFINE c == controller  q == toMonitor[c]  n == commands + 1  t == Append(q, n)
  <2>1. c \in Runs /\ c = runs BY <1>3 DEF Command, TypeOK, Runs
  <2>2. /\ toMonitor'[c] = t /\ commands' = n /\ UNCHANGED executed
        /\ \A k \in Runs : k # c => toMonitor'[k] = toMonitor[k]
    BY <1>3, <2>1 DEF Command, TypeOK
  <2>3. q \in Seq(Nat) /\ DOMAIN q = 1..Len(q) /\ Len(q) \in Nat /\ Increasing(q)
        /\ \A b \in DOMAIN q : q[b] <= commands /\ q[b] \in Nat
    BY <1>0, <2>1, ElementOfSeq DEF QueueInv
  <2>4. \A k \in Runs : c < k => toMonitor[k] = <<>>
    <3>1. \A k \in Runs : c < k => k \notin 1..runs BY <2>1 DEF Runs
    <3>2. \A k \in Runs : k \notin linked => toMonitor[k] = <<>> BY DEF TypeOK
    <3>3. linked \subseteq 1..runs BY DEF TypeOK
    <3> QED BY <3>1, <3>2, <3>3
  <2>5. n \in Nat /\ commands < n BY <1>0
  <2>6. \A k \in Runs : \A b \in DOMAIN toMonitor[k] : toMonitor[k][b] <= commands /\ toMonitor[k][b] \in Nat
    BY <1>0, ElementOfSeq DEF QueueInv
  <2>7. \A a \in DOMAIN executed : executed[a] <= commands /\ executed[a] \in Nat
    BY <1>0, ElementOfSeq DEF QueueInv
  <2> HIDE DEF c, q, n, t
  <2>8. /\ t \in Seq(Nat) /\ Len(t) = Len(q) + 1 /\ t[Len(q) + 1] = n
        /\ \A b \in 1..Len(q) : t[b] = q[b]
    BY <2>3, <2>5, InAppend DEF t
  <2>9. Increasing(t)
    <3>1. \A b \in 1..Len(q) : q[b] < n BY <1>0, <2>3, <2>5
    <3> QED BY <2>3, <2>5, <3>1, IncreasingAppend DEF t
  <2>10. \A b \in DOMAIN t : (b \in DOMAIN q /\ t[b] = q[b]) \/ t[b] = n
    <3>1. DOMAIN t = 1..(Len(q) + 1) BY <2>8, LenProperties
    <3> QED BY <2>3, <2>8, <3>1
  <2>11. \A k \in Runs : \A b \in DOMAIN toMonitor'[k] :
           \/ b \in DOMAIN toMonitor[k] /\ toMonitor'[k][b] = toMonitor[k][b]
           \/ k = c /\ toMonitor'[k][b] = n
    BY <2>2, <2>10 DEF q
  <2>12. \A k \in Runs : Increasing(toMonitor'[k]) BY <2>2, <2>9 DEF QueueInv
  <2>13. ASSUME NEW k \in Runs, NEW b \in DOMAIN toMonitor'[k] PROVE toMonitor'[k][b] <= n
    <3>1. CASE toMonitor'[k][b] = n BY <2>5, <3>1
    <3>2. CASE b \in DOMAIN toMonitor[k] /\ toMonitor'[k][b] = toMonitor[k][b]
      BY <1>0, <2>5, <2>6, <3>2
    <3> QED BY <2>11, <3>1, <3>2
  <2>14. ASSUME NEW j \in Runs, NEW k \in Runs, j < k,
                NEW a \in DOMAIN toMonitor'[j], NEW b \in DOMAIN toMonitor'[k]
         PROVE  toMonitor'[j][a] < toMonitor'[k][b]
    <3>1. CASE j = c
      <4>1. toMonitor'[k] = <<>> BY <2>1, <2>2, <2>4, <2>14, <3>1 DEF Runs
      <4> QED BY <2>14, <4>1
    <3>2. CASE j # c
      <4>1. a \in DOMAIN toMonitor[j] /\ toMonitor'[j][a] = toMonitor[j][a] BY <2>11, <2>14, <3>2
      <4>2. CASE toMonitor'[k][b] = n BY <1>0, <2>5, <2>6, <4>1, <4>2
      <4>3. CASE b \in DOMAIN toMonitor[k] /\ toMonitor'[k][b] = toMonitor[k][b]
        BY <2>14, <4>1, <4>3 DEF QueueInv
      <4> QED BY <2>11, <2>14, <4>2, <4>3
    <3> QED BY <3>1, <3>2
  <2>15. \A a \in DOMAIN executed : executed[a] <= n BY <1>0, <2>5, <2>7
  <2>16. ASSUME NEW a \in DOMAIN executed, NEW k \in Runs, NEW b \in DOMAIN toMonitor'[k]
         PROVE  executed[a] < toMonitor'[k][b]
    <3>1. CASE toMonitor'[k][b] = n BY <1>0, <2>5, <2>7, <3>1
    <3>2. CASE b \in DOMAIN toMonitor[k] /\ toMonitor'[k][b] = toMonitor[k][b]
      BY <3>2 DEF QueueInv
    <3> QED BY <2>11, <3>1, <3>2
  <2>17. InOrder' BY <2>2 DEF InOrder
  <2>18. QueueInv' BY <2>2, <2>12, <2>13, <2>14, <2>15, <2>16 DEF QueueInv
  <2> QED BY <2>17, <2>18
<1>4. CASE TakeReport BY <1>4 DEF TakeReport, QueueInv, InOrder
<1>5. CASE Receive
  <2>1. CASE clientFd' # 0 /\ toMonitor[clientFd'] # <<>>
    <3> DEFINE fd == clientFd'  q == toMonitor[fd]  t == Tail(q)  e == executed'
    <3>1. fd \in Runs /\ fd = Accepted.fd
      <4>1. fd = Accepted.fd BY <1>5 DEF Receive
      <4>2. Accepted.fd \in 0..MaxRuns BY AcceptType
      <4> QED BY <2>1, <4>1, <4>2 DEF Runs
    <3>2. /\ toMonitor'[fd] = t /\ e = Append(executed, Head(q)) /\ commands' = commands
          /\ \A k \in Runs : k # fd => toMonitor'[k] = toMonitor[k]
      BY <1>5, <2>1, <3>1 DEF Receive, TypeOK
    <3>3. /\ q \in Seq(Nat) /\ q # <<>> /\ Increasing(q) /\ DOMAIN q = 1..Len(q)
          /\ \A b \in DOMAIN q : q[b] <= commands
          /\ \A a \in DOMAIN executed, b \in DOMAIN q : executed[a] < q[b]
      BY <1>0, <2>1, <3>1 DEF QueueInv
    <3>4. \A k \in Runs : k < fd => toMonitor[k] = <<>> BY <3>1, OlderGone
    <3>5. \A k \in Runs : fd < k => \A a \in DOMAIN q, b \in DOMAIN toMonitor[k] : q[a] < toMonitor[k][b]
      BY <3>1 DEF QueueInv
    <3> HIDE DEF fd, q, t, e
    <3>6. /\ t \in Seq(Nat) /\ Len(q) \in Nat \ {0} /\ Head(q) = q[1] /\ Len(t) = Len(q) - 1
          /\ \A b \in 1..(Len(q) - 1) : t[b] = q[b + 1]
          /\ Increasing(t) /\ \A b \in 1..Len(t) : Head(q) < t[b]
      BY <3>3, InTail, IncreasingTail DEF t
    <3>7. DOMAIN t = 1..Len(t) BY <3>6, LenProperties
    <3>8. 1 \in DOMAIN q /\ \A b \in DOMAIN t : b + 1 \in DOMAIN q /\ t[b] = q[b + 1] BY <3>3, <3>6, <3>7
    <3>9. Head(q) \in Nat BY <3>3, InTail
    <3>10. /\ e \in Seq(Nat) /\ Len(e) = Len(executed) + 1
           /\ \A a \in 1..Len(executed) : e[a] = executed[a]
           /\ e[Len(executed) + 1] = Head(q) /\ Increasing(e)
      <4>1. Increasing(executed) BY DEF InOrder, Increasing
      <4>2. \A a \in 1..Len(executed) : executed[a] < Head(q)
        <5>1. \A a \in DOMAIN executed : executed[a] < q[1] BY <3>3, <3>8
        <5> QED BY <1>0, <3>6, <5>1
      <4> QED BY <1>0, <3>2, <3>9, <4>1, <4>2, InAppend, IncreasingAppend
    <3>11. \A a \in DOMAIN e : (a \in DOMAIN executed /\ e[a] = executed[a]) \/ e[a] = Head(q)
      <4>1. DOMAIN e = 1..(Len(executed) + 1) BY <3>10, LenProperties
      <4> QED BY <1>0, <3>10, <4>1
    <3>12. \A k \in Runs : Increasing(toMonitor'[k]) BY <3>2, <3>6 DEF QueueInv
    <3>13. \A k \in Runs : \A b \in DOMAIN toMonitor'[k] : toMonitor'[k][b] <= commands'
      BY <3>2, <3>3, <3>8 DEF QueueInv
    <3>14. ASSUME NEW j \in Runs, NEW k \in Runs, j < k,
                  NEW a \in DOMAIN toMonitor'[j], NEW b \in DOMAIN toMonitor'[k]
           PROVE  toMonitor'[j][a] < toMonitor'[k][b]
      <4>1. CASE j = fd
        <5>1. k # fd BY <3>14, <4>1 DEF Runs
        <5> QED BY <3>2, <3>5, <3>8, <3>14, <4>1, <5>1
      <4>2. CASE j # fd /\ k = fd BY <3>2, <3>4, <3>14, <4>2
      <4>3. CASE j # fd /\ k # fd BY <3>2, <3>14, <4>3 DEF QueueInv
      <4> QED BY <4>1, <4>2, <4>3
    <3>15. \A a \in DOMAIN e : e[a] <= commands' BY <3>2, <3>3, <3>6, <3>8, <3>11 DEF QueueInv
    <3>16. ASSUME NEW a \in DOMAIN e, NEW k \in Runs, NEW b \in DOMAIN toMonitor'[k]
           PROVE  e[a] < toMonitor'[k][b]
      <4>1. CASE k = fd BY <3>2, <3>3, <3>6, <3>7, <3>8, <3>11, <3>16, <4>1
      <4>2. CASE k # fd
        <5>1. toMonitor'[k] = toMonitor[k] BY <3>2, <4>2
        <5>2. CASE a \in DOMAIN executed /\ e[a] = executed[a] BY <3>16, <5>1, <5>2 DEF QueueInv
        <5>3. CASE e[a] = q[1]
          <6>1. k < fd \/ fd < k BY <3>1, <4>2 DEF Runs, fd
          <6>2. ~(k < fd) BY <3>4, <3>16, <5>1
          <6> QED BY <3>5, <3>8, <3>16, <5>1, <5>3, <6>1, <6>2
        <5> QED BY <3>6, <3>11, <3>16, <5>2, <5>3
      <4> QED BY <4>1, <4>2
    <3>17. InOrder' BY <3>10 DEF InOrder, Increasing, e
    <3>18. QueueInv' BY <3>12, <3>13, <3>14, <3>15, <3>16 DEF QueueInv, e
    <3> QED BY <3>17, <3>18
  <2>2. CASE ~(clientFd' # 0 /\ toMonitor[clientFd'] # <<>>)
    BY <1>5, <2>2 DEF Receive, QueueInv, InOrder
  <2> QED BY <2>1, <2>2
<1>6. CASE Report
  <2>1. \A k \in Runs : toMonitor'[k] = toMonitor[k] \/ toMonitor'[k] = <<>>
    BY <1>6 DEF Report, ReportTo, CloseClient, TypeOK
  <2>2. UNCHANGED <<commands, executed>> BY <1>6 DEF Report, ReportTo
  <2>3. \A k \in Runs : \A b \in DOMAIN toMonitor'[k] :
          b \in DOMAIN toMonitor[k] /\ toMonitor'[k][b] = toMonitor[k][b]
    BY <2>1
  <2>4. \A k \in Runs : Increasing(toMonitor'[k]) BY <2>3 DEF QueueInv, Increasing
  <2> QED BY <2>2, <2>3, <2>4 DEF QueueInv, InOrder
<1>7. CASE Reboot BY <1>7 DEF Reboot, QueueInv, InOrder, Increasing
<1>8. CASE UNCHANGED vars BY <1>8 DEF vars, QueueInv, InOrder
<1> QED BY <1>1, <1>2, <1>3, <1>4, <1>5, <1>6, <1>7, <1>8 DEF Next

-----------------------------------------------------------------------------
(* The theorems.                                                              *)

LEMMA InitInv == Init => IInv
<1> SUFFICES ASSUME Init PROVE IInv
  OBVIOUS
<1> USE LimitsAreNumbers DEF Init, Runs
<1>1. Range(<<>>) = {} BY DEF Range
<1>2. toMonitor \in [Runs -> Seq(1..MaxCommands)] /\ pending \in Seq(Runs) /\ executed \in Seq(1..MaxCommands)
  BY EmptySeq
<1>3. \A k \in Runs : Len(toMonitor[k]) <= Room /\ (k \notin linked => toMonitor[k] = <<>>)
  BY EmptySeq
<1>4. linked = Range(pending) \cup ({clientFd} \ {0}) /\ Len(pending) <= Backlog + 1
  BY <1>1, EmptySeq
<1>5. TypeOK BY <1>2, <1>3, <1>4 DEF TypeOK
<1>6. OldestServed BY DEF OldestServed, Increasing
<1>7. QueueInv /\ InOrder BY DEF QueueInv, InOrder, Increasing
<1> QED BY <1>5, <1>6, <1>7 DEF IInv

\* The invariant holds in every state the monitor and its controllers reach.
THEOREM Invariance == Spec => []IInv
<1>1. IInv /\ [Next]_vars => IInv' BY TypeStep, QueueStep DEF IInv
<1> QED BY <1>1, InitInv, PTL DEF Spec

\* Every variable of the connection keeps its type; the connections the kernel
\* holds are the one served and those in the backlog (client_fd, listen_fd).
THEOREM TypeCorrect == Spec => []TypeOK
<1>1. IInv => TypeOK BY DEF IInv
<1> QED BY <1>1, Invariance, PTL

\* Whatever controllers and monitors die, commands reach the monitor in the
\* order they were sent, and none twice (ipc_receive_message).
THEOREM InOrderAlways == Spec => []InOrder
<1>1. IInv => InOrder BY DEF IInv
<1> QED BY <1>1, Invariance, PTL

\* No step but a restart loses a command of the running controller.
LEMMA KeptStep ==
  ASSUME TypeOK, OldestServed, [Next]_vars,
         NEW k \in Runs, NEW n, controller = k, reboots' = reboots, n \in Range(toMonitor[k])
  PROVE  n \in Range(toMonitor'[k]) \cup Range(executed')
<1> USE DEF controllerVars, monitorVars
<1>0. toMonitor[k] \in Seq(1..MaxCommands) /\ executed \in Seq(1..MaxCommands) BY DEF TypeOK
<1>1. CASE Start \/ Stop \/ TakeReport \/ UNCHANGED vars BY <1>1 DEF Start, Stop, TakeReport, vars
<1>2. CASE Command
  <2> DEFINE q == toMonitor[k]  e == commands + 1  t == toMonitor'[k]  C == 1..MaxCommands
  <2>1. t = Append(q, e) BY <1>2 DEF Command, TypeOK
  <2>2. q \in Seq(C) /\ e \in C
    BY <1>0, <1>2, LimitsAreNumbers DEF Command, TypeOK
  <2> HIDE DEF q, e, t, C
  <2>3. Range(Append(q, e)) = Range(q) \cup {e} BY <2>2, RangeAppend
  <2>4. Range(t) = Range(q) \cup {e} BY <2>1, <2>3
  <2> QED BY <2>4 DEF q, t
<1>3. CASE Receive
  <2>1. CASE clientFd' = k /\ toMonitor[k] # <<>>
    <3> DEFINE q == toMonitor[k]
    <3>1. k # 0 BY DEF Runs
    <3>2. executed' = Append(executed, Head(q)) /\ toMonitor'[k] = Tail(q)
      BY <1>3, <2>1, <3>1 DEF Receive, TypeOK
    <3>3. q \in Seq(1..MaxCommands) /\ q # <<>> /\ n \in Range(q) BY <1>0, <2>1
    <3> HIDE DEF q
    <3>4. Head(q) \in 1..MaxCommands /\ Range(q) = Range(Tail(q)) \cup {Head(q)} BY <3>3, InTail
    <3>5. Range(Append(executed, Head(q))) = Range(executed) \cup {Head(q)}
      <4> DEFINE C == 1..MaxCommands  h == Head(q)
      <4>1. executed \in Seq(C) /\ h \in C BY <1>0, <3>4
      <4> HIDE DEF C, h
      <4>2. Range(Append(executed, h)) = Range(executed) \cup {h} BY <4>1, RangeAppend
      <4> QED BY <4>2 DEF h
    <3> QED BY <3>2, <3>3, <3>4, <3>5
  <2>2. CASE ~(clientFd' = k /\ toMonitor[k] # <<>>)
    <3>1. toMonitor'[k] = toMonitor[k] BY <1>3, <2>2 DEF Receive, TypeOK
    <3> QED BY <3>1
  <2> QED BY <2>1, <2>2
<1>4. CASE Report
  <2>1. toMonitor'[k] = toMonitor[k] BY <1>4 DEF Report, ReportTo, CloseClient, TypeOK
  <2> QED BY <2>1
<1>5. CASE Reboot BY <1>5 DEF Reboot, TypeOK
<1> QED BY <1>1, <1>2, <1>3, <1>4, <1>5 DEF Next

\* A command the socket took is executed unless its controller or a monitor
\* restarts: accepting, receiving and closing never drop it (monitor/ipc.c).
THEOREM Kept == Spec => CommandsKept
<1>1. IInv /\ [Next]_vars =>
        [\A k \in Runs, n \in 1..commands :
           controller = k /\ reboots' = reboots /\ n \in Range(toMonitor[k])
             => n \in Range(toMonitor'[k]) \cup Range(executed')]_vars
  BY KeptStep DEF IInv
<1> QED BY <1>1, Invariance, PTL DEF Spec, CommandsKept

=============================================================================
