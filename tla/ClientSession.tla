--------------------------- MODULE ClientSession ---------------------------
(* The controller and the clients of its TCP port: one client is served at a  *)
(* time, the others wait to be accepted.  The main loop receives one message  *)
(* per pass, acknowledges it, sends what is due, and drops a client whose     *)
(* ALIVE messages stopped; every send repeats until the client took it all.   *)
(* Messages are whole here (Framing cuts them from the stream), and ALIVE is  *)
(* the only one: the others are acknowledged alike and leave the timer alone. *)
EXTENDS Naturals, Sequences, SequencesExt, FiniteSetsExt

CONSTANTS
  Clients,
  NoClient,    \* client_fd is -1
  Timeout,     \* ALIVE_TIMEOUT_SEC, in ticks
  Period,      \* a client that is well sends ALIVE at least so often, in ticks
  MaxInbox     \* bound: ALIVE messages of one client that are still on their way

ASSUME NoClientIsNoClient == NoClient \notin Clients
ASSUME TimesAreOrdered == Period \in Nat \ {0} /\ Timeout \in Nat /\ Period < Timeout
ASSUME BoundIsNumber == MaxInbox \in Nat \ {0}

VARIABLES
  (* the clients *)
  conn,      \* away; up: connected; gone: closed, and the controller does not know
  well,      \* the clients that are still sending ALIVE messages
  reading,   \* the clients that are reading what is sent to them
  silent,    \* ticks since a client last sent ALIVE, or connected
  inbox,     \* how many messages a client sent and the controller has not received
  backlog,   \* the connections not accepted yet
  (* the controller *)
  pc,        \* where main is in its pass
  fd,        \* client_fd
  rx,        \* how many whole messages are in rx_buffer
  aliveAge,  \* ticks since alive_receive_usec
  (* history *)
  own,       \* the timer was set for the client that is served, or for none
  late       \* main was blocked for a tick since the timer was set

clientVars == <<conn, well, reading, silent, inbox>>
mainVars == <<pc, fd, rx, aliveAge>>
vars == <<clientVars, backlog, mainVars, own, late>>

TypeOK ==
  /\ conn \in [Clients -> {"away", "up", "gone"}]
  /\ well \subseteq Clients /\ reading \subseteq Clients
  /\ silent \in [Clients -> 0..Timeout]
  /\ inbox \in [Clients -> 0..MaxInbox]
  /\ backlog \in Seq(Clients) /\ IsInjective(backlog)
  /\ pc \in {"receive", "answer", "status", "send", "sendMore", "check"}
  /\ fd \in Clients \cup {NoClient} /\ fd \notin Range(backlog)
  /\ \A c \in Clients : conn[c] = "away" <=> c \notin Range(backlog) \cup {fd}
  /\ rx \in 0..MaxInbox
  /\ aliveAge \in 0..Timeout
  /\ {own, late} \subseteq BOOLEAN

Init ==
  /\ conn = [c \in Clients |-> "away"]
  /\ well = {} /\ reading = {}
  /\ silent = [c \in Clients |-> 0]
  /\ inbox = [c \in Clients |-> 0]
  /\ backlog = <<>>
  /\ pc = "receive" /\ fd = NoClient /\ rx = 0
  /\ aliveAge = Timeout  \* alive_receive_usec starts at 0, long ago
  /\ own = FALSE /\ late = FALSE

-----------------------------------------------------------------------------
(* The clients, and time.                                                     *)

Connect(c) ==
  /\ conn[c] = "away"
  /\ conn' = [conn EXCEPT ![c] = "up"]
  /\ well' = well \cup {c} /\ reading' = reading \cup {c}
  /\ backlog' = Append(backlog, c)
  /\ UNCHANGED <<silent, inbox, mainVars, own, late>>

SendAlive(c) ==
  /\ conn[c] = "up" /\ c \in well
  /\ inbox' = [inbox EXCEPT ![c] = Min({@ + 1, MaxInbox})]
  /\ silent' = [silent EXCEPT ![c] = 0]
  /\ UNCHANGED <<conn, well, reading, backlog, mainVars, own, late>>

(* It hangs, or the network does, ... *)
FallSilent(c) ==
  /\ conn[c] = "up" /\ c \in well
  /\ well' = well \ {c}
  /\ UNCHANGED <<conn, reading, silent, inbox, backlog, mainVars, own, late>>

(* ... or it no longer reads, ... *)
StopReading(c) ==
  /\ conn[c] = "up" /\ c \in reading
  /\ reading' = reading \ {c}
  /\ UNCHANGED <<conn, well, silent, inbox, backlog, mainVars, own, late>>

ReadOn(c) ==
  /\ conn[c] = "up" /\ c \notin reading
  /\ reading' = reading \cup {c}
  /\ UNCHANGED <<conn, well, silent, inbox, backlog, mainVars, own, late>>

(* ... or it closes the connection. *)
Leave(c) ==
  /\ conn[c] = "up"
  /\ conn' = [conn EXCEPT ![c] = "gone"]
  /\ well' = well \ {c} /\ reading' = reading \ {c}
  /\ silent' = [silent EXCEPT ![c] = 0]
  /\ inbox' \in {inbox, [inbox EXCEPT ![c] = 0]}  \* a reset loses what is on its way
  /\ UNCHANGED <<backlog, mainVars, own, late>>

(* A send fails without a client, succeeds or meets EPIPE with one that is    *)
(* gone, and goes on until one that is there has read everything.  In the     *)
(* first form EPIPE is tried again like any other error.                      *)
ResultsRetrying ==
  IF fd = NoClient THEN {"failed"} ELSE IF conn[fd] = "gone" THEN {}
  ELSE IF fd \in reading THEN {"sent"} ELSE {}
Results ==
  IF fd = NoClient THEN {"failed"} ELSE IF conn[fd] = "gone" THEN {"sent", "broken"}
  ELSE IF fd \in reading THEN {"sent"} ELSE {}

(* A tick is much longer than a pass: it comes when passes find nothing more  *)
(* to do, or while main is blocked in a send.  Who is well has sent in time.  *)
Sending == pc \in {"answer", "send", "sendMore"}
Blocked == Sending /\ Results = {}
Settled ==
  /\ pc = "receive" /\ rx = 0
  /\ fd = NoClient => backlog = <<>> /\ aliveAge = 0
  /\ fd # NoClient => inbox[fd] = 0 /\ conn[fd] = "up" /\ aliveAge < Timeout

Later(n) == IF n < Timeout THEN n + 1 ELSE Timeout
Tick ==
  /\ Blocked \/ Settled
  /\ \A c \in well : conn[c] = "up" => silent[c] < Period
  /\ silent' = [c \in Clients |-> IF conn[c] = "up" THEN Later(silent[c]) ELSE silent[c]]
  /\ aliveAge' = Later(aliveAge)
  /\ late' = (late \/ Blocked)
  /\ UNCHANGED <<conn, well, reading, inbox, backlog, pc, fd, rx, own>>

-----------------------------------------------------------------------------
(* The controller's pass.                                                     *)

Close(c) ==
  /\ conn' = [conn EXCEPT ![c] = "away"]
  /\ well' = well \ {c} /\ reading' = reading \ {c}
  /\ silent' = [silent EXCEPT ![c] = 0]
  /\ inbox' = [inbox EXCEPT ![c] = 0]

(* messenger_receive_message: a waiting client is accepted, what it sent is   *)
(* received, and the first message in the buffer, whoever sent it, handed on. *)
Receive ==
  /\ pc = "receive"
  /\ LET accepts == fd = NoClient /\ backlog # <<>>
         served == IF accepts THEN Head(backlog) ELSE fd
         arrived == IF served = NoClient THEN 0 ELSE inbox[served]
         closed == served # NoClient /\ conn[served] = "gone" /\ arrived = 0
         held == Min({rx + arrived, MaxInbox})
     IN /\ backlog' = IF accepts THEN Tail(backlog) ELSE backlog
        /\ fd' = IF closed THEN NoClient ELSE served
        /\ IF closed THEN Close(served)
           ELSE /\ inbox' = [c \in Clients |-> IF c = served THEN 0 ELSE inbox[c]]
                /\ UNCHANGED <<conn, well, reading, silent>>
        /\ own' = (own /\ ~closed)
        /\ IF held = 0 THEN pc' = "status" /\ rx' = 0
                       ELSE pc' = "answer" /\ rx' = held - 1
  /\ UNCHANGED <<aliveAge, late>>

(* messenger_send_message accepts a client too when there is none. *)
AcceptToSend ==
  /\ Sending
  /\ fd = NoClient /\ backlog # <<>>
  /\ fd' = Head(backlog) /\ backlog' = Tail(backlog)
  /\ UNCHANGED <<clientVars, pc, rx, aliveAge, own, late>>

SendBreaks == Close(fd) /\ fd' = NoClient

(* send_ack_message, and what main makes of an ALIVE message, whoever sent it. *)
Answer ==
  /\ pc = "answer"
  /\ fd = NoClient => backlog = <<>>
  /\ \E result \in Results :
       IF result = "broken" THEN SendBreaks ELSE UNCHANGED <<clientVars, fd>>
  /\ aliveAge' = 0 /\ own' = TRUE /\ late' = FALSE
  /\ pc' = "status"
  /\ UNCHANGED <<backlog, rx>>

(* Without a client the timer is set, with one the sends that are due follow. *)
(* In the first form it is not; in the second it is always.                   *)
StatusKeeping ==
  /\ pc = "status"
  /\ IF fd = NoClient THEN pc' = "receive" /\ own' = TRUE /\ late' = FALSE
                      ELSE pc' = "send" /\ UNCHANGED <<own, late>>
  /\ UNCHANGED <<clientVars, backlog, fd, rx, aliveAge>>
StatusAlways ==
  /\ pc = "status"
  /\ aliveAge' = 0 /\ own' = TRUE /\ late' = FALSE
  /\ pc' = IF fd = NoClient THEN "receive" ELSE "send"
  /\ UNCHANGED <<clientVars, backlog, fd, rx>>
Status ==
  /\ pc = "status"
  /\ IF fd = NoClient
     THEN pc' = "receive" /\ aliveAge' = 0 /\ own' = TRUE /\ late' = FALSE
     ELSE pc' = "send" /\ UNCHANGED <<aliveAge, own, late>>
  /\ UNCHANGED <<clientVars, backlog, fd, rx>>

(* Loudness, the slots' states and ALIVE, each when it is due.  Two sends are *)
(* enough to stand for the three: one that may break, and one after it.       *)
AfterSend == pc' = IF pc = "send" THEN "sendMore" ELSE "check"

SendDue ==
  /\ pc \in {"send", "sendMore"}
  /\ fd = NoClient => backlog = <<>>
  /\ \E result \in Results :
       IF result = "broken" THEN SendBreaks ELSE UNCHANGED <<clientVars, fd>>
  /\ AfterSend
  /\ own' = (own /\ fd' = fd)
  /\ UNCHANGED <<backlog, rx, aliveAge, late>>

NothingDue ==
  /\ pc \in {"send", "sendMore"}
  /\ AfterSend
  /\ UNCHANGED <<clientVars, backlog, fd, rx, aliveAge, own, late>>

(* The client is dropped for its silence. *)
Check ==
  /\ pc = "check"
  /\ IF fd # NoClient /\ aliveAge >= Timeout
     THEN Close(fd) /\ fd' = NoClient /\ own' = FALSE
     ELSE UNCHANGED <<clientVars, fd, own>>
  /\ pc' = "receive"
  /\ UNCHANGED <<backlog, rx, aliveAge, late>>

Main == Receive \/ AcceptToSend \/ Answer \/ Status \/ SendDue \/ NothingDue \/ Check

Next ==
  \/ Main \/ Tick
  \/ \E c \in Clients :
       \/ Connect(c) \/ FallSilent(c) \/ StopReading(c) \/ ReadOn(c) \/ Leave(c)
       \/ SendAlive(c)

Spec == Init /\ [][Next]_vars

(* Main runs whenever it is not blocked in a send; time passes; who is well   *)
(* sends in time, so that it can.  Nothing makes a client read, or leave: TCP *)
(* does not give one up that acknowledges the probes of its full window.      *)
FairSpec ==
  /\ Spec
  /\ SF_vars(Main) /\ SF_vars(Tick)
  /\ \A c \in Clients : SF_vars(SendAlive(c))

-----------------------------------------------------------------------------
(* Properties.                                                                *)

(* A client that is there is dropped only for its own silence of the whole     *)
(* timeout (less the tick that was passing when it connected), unless its     *)
(* next ALIVE came in this very pass, the timer was set for another client    *)
(* and no pass without one has set it since, or main was blocked in a send    *)
(* and has not come to the client's messages.                                 *)
DroppedForSilence ==
  [][\A c \in Clients :
       fd = c /\ conn[c] = "up" /\ pc = "check" /\ fd' = NoClient =>
            silent[c] >= Timeout - 1 \/ inbox[c] > 0 \/ ~own \/ late]_vars

(* A client whose ALIVE messages stopped is dropped in the end, unless it     *)
(* stays connected and from some time on never reads: then main may be        *)
(* blocked in a send to it and does not come to look at the timer.            *)
Served(c) == fd = c /\ conn[c] = "up"
SilentIsDropped ==
  \A c \in Clients :
    (fd = c /\ c \notin well) ~> (fd # c \/ [](Served(c) /\ c \notin reading))

(* Who waits at the port is accepted in the end, whatever the clients before  *)
(* it do (hang, close, come again and queue up anew, also in the middle of a  *)
(* send), unless one of them keeps the port for ever: by being well, or by    *)
(* staying connected without reading, which blocks main and not only the port. *)
KeepsPort(d) == Served(d) /\ (d \in well \/ d \notin reading)
WaitingIsAccepted ==
  \A c \in Clients :
    (c \in Range(backlog)) ~> (c \notin Range(backlog) \/ \E d \in Clients : []KeepsPort(d))

=============================================================================
