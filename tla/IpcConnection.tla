--------------------------- MODULE IpcConnection ---------------------------
(* The UNIX socket between a monitor and the controllers that come and go.    *)
(* The monitor listens and serves one connection; it accepts the next when it *)
(* wants to receive or send and has none, and gives one up only when a send   *)
(* meets EPIPE.  A controller connects when it starts and never again.        *)
(* Messages are as small as the kernel takes or leaves whole.                 *)
EXTENDS Naturals, Sequences, SequencesExt

CONSTANTS
  Backlog,     \* the argument of listen
  Room,        \* messages a direction of a connection holds
  MaxRuns,     \* bound: controllers that started
  MaxCommands, \* bound: commands they sent
  MaxReboots   \* bound: restarts of the monitor

ASSUME LimitsAreNumbers ==
  /\ {Backlog, MaxRuns, MaxCommands, MaxReboots} \subseteq Nat
  /\ Room \in Nat \ {0}

VARIABLES
  controller,    \* the controller that is running, by its number, or 0
  runs,          \* the number of controllers so far
  commands,      \* the number of commands sent so far
  linked,        \* the controllers whose connection the monitor's side still has
  toMonitor,     \* by controller, the commands in its connection
  toController,  \* how many reports are in the running controller's connection
  pending,       \* the connections not accepted yet
  clientFd,      \* client_fd of the monitor: a controller's number, or 0
  reboots,       \* restarts of the monitor
  executed       \* history: the commands the monitor received, in order

controllerVars == <<controller, runs, commands>>
monitorVars == <<pending, clientFd, reboots, executed>>
vars == <<controllerVars, linked, toMonitor, toController, monitorVars>>

Runs == 1..MaxRuns

TypeOK ==
  /\ runs \in 0..MaxRuns /\ controller \in {0, runs}
  /\ commands \in 0..MaxCommands /\ reboots \in 0..MaxReboots
  /\ toMonitor \in [Runs -> Seq(1..MaxCommands)]
  /\ toController \in 0..Room
  /\ pending \in Seq(Runs) /\ Len(pending) <= Backlog + 1
  /\ linked = Range(pending) \cup ({clientFd} \ {0})
  /\ clientFd \in 0..MaxRuns /\ linked \subseteq 1..runs
  /\ \A k \in Runs : Len(toMonitor[k]) <= Room /\ (k \notin linked => toMonitor[k] = <<>>)
  /\ executed \in Seq(1..MaxCommands)

Init ==
  /\ controller = 0 /\ runs = 0 /\ commands = 0
  /\ linked = {} /\ toMonitor = [k \in Runs |-> <<>>] /\ toController = 0
  /\ pending = <<>> /\ clientFd = 0 /\ reboots = 0 /\ executed = <<>>

-----------------------------------------------------------------------------
(* The controller.                                                            *)

(* connect; it fails, and the controller with it, when the backlog is full. *)
Start ==
  /\ controller = 0 /\ runs < MaxRuns
  /\ Len(pending) <= Backlog
  /\ runs' = runs + 1 /\ controller' = runs + 1
  /\ pending' = Append(pending, runs + 1)
  /\ linked' = linked \cup {runs + 1}
  /\ UNCHANGED <<commands, toMonitor, toController, clientFd, reboots, executed>>

(* A crash, or the end: what it has not received is gone. *)
Stop ==
  /\ controller # 0
  /\ controller' = 0 /\ toController' = 0
  /\ UNCHANGED <<runs, commands, linked, toMonitor, monitorVars>>

(* A command the socket takes.  It refuses it when it is full and when the    *)
(* other side is closed, which the controller only notes.                     *)
Command ==
  /\ controller \in linked /\ commands < MaxCommands
  /\ Len(toMonitor[controller]) < Room
  /\ commands' = commands + 1
  /\ toMonitor' = [toMonitor EXCEPT ![controller] = Append(@, commands + 1)]
  /\ UNCHANGED <<controller, runs, linked, toController, monitorVars>>

TakeReport ==
  /\ controller # 0 /\ toController > 0
  /\ toController' = toController - 1
  /\ UNCHANGED <<controllerVars, linked, toMonitor, monitorVars>>

-----------------------------------------------------------------------------
(* The monitor.                                                               *)

(* The connection served, accepted if there was none.                         *)
Accepted ==
  IF clientFd = 0 /\ pending # <<>> THEN [fd |-> Head(pending), rest |-> Tail(pending)]
                                    ELSE [fd |-> clientFd, rest |-> pending]

(* ipc_receive_message; that there is nothing, or never will be, only means   *)
(* that nothing was received.  In the first form the message stays.           *)
ReceiveLeaving ==
  /\ clientFd' = Accepted.fd /\ pending' = Accepted.rest
  /\ IF clientFd' # 0 /\ toMonitor[clientFd'] # <<>>
     THEN executed' = Append(executed, Head(toMonitor[clientFd']))
     ELSE UNCHANGED executed
  /\ Len(executed') <= MaxCommands
  /\ UNCHANGED <<controllerVars, linked, toMonitor, toController, reboots>>
Receive ==
  /\ clientFd' = Accepted.fd /\ pending' = Accepted.rest
  /\ IF clientFd' # 0 /\ toMonitor[clientFd'] # <<>>
     THEN /\ executed' = Append(executed, Head(toMonitor[clientFd']))
          /\ toMonitor' = [toMonitor EXCEPT ![clientFd'] = Tail(@)]
     ELSE UNCHANGED <<executed, toMonitor>>
  /\ UNCHANGED <<controllerVars, linked, toController, reboots>>

(* ipc_send_message: with EPIPE the connection is closed, and the commands in *)
(* it are gone; a full one refuses the report.  In the first form it is given *)
(* up on that too, in the second on neither.                                  *)
CloseClient(fd) ==
  /\ clientFd' = 0
  /\ linked' = linked \ {fd}
  /\ toMonitor' = [toMonitor EXCEPT ![fd] = <<>>]

ReportTo(fd, giveUp) ==
  /\ pending' = Accepted.rest
  /\ IF giveUp THEN CloseClient(fd)
               ELSE clientFd' = fd /\ UNCHANGED <<linked, toMonitor>>
  /\ toController' = IF fd # 0 /\ fd = controller /\ toController < Room
                     THEN toController + 1 ELSE toController
  /\ UNCHANGED <<controllerVars, reboots, executed>>

ReportGivingUp ==
  ReportTo(Accepted.fd, Accepted.fd # 0 /\ (Accepted.fd # controller \/ toController = Room))
ReportKeeping == ReportTo(Accepted.fd, FALSE)
Report == ReportTo(Accepted.fd, Accepted.fd # 0 /\ Accepted.fd # controller)

(* The monitor restarts: every connection is closed, and the socket is made   *)
(* anew.  The controller is not told and does not connect again.              *)
Reboot ==
  /\ reboots < MaxReboots
  /\ reboots' = reboots + 1
  /\ linked' = {} /\ pending' = <<>> /\ clientFd' = 0
  /\ toMonitor' = [k \in Runs |-> <<>>]
  /\ UNCHANGED <<controllerVars, toController, executed>>

Next == Start \/ Stop \/ Command \/ TakeReport \/ Receive \/ Report \/ Reboot

Spec == Init /\ [][Next]_vars

(* The monitor's loop receives in every pass and reports every 100 ms. *)
FairSpec == Spec /\ WF_vars(Receive) /\ WF_vars(Report)

-----------------------------------------------------------------------------
(* Properties.                                                                *)

(* The monitor executes commands in the order they were sent, over restarts   *)
(* of the controller too, and none twice.                                     *)
InOrder == \A i, j \in DOMAIN executed : i < j => executed[i] < executed[j]

(* A command the socket took is lost only with its controller or a monitor.   *)
CommandsKept ==
  [][\A k \in Runs, n \in 1..commands :
       controller = k /\ reboots' = reboots /\ n \in Range(toMonitor[k])
         => n \in Range(toMonitor'[k]) \cup Range(executed')]_vars

(* While neither restarts, the monitor comes to serve the controller that is  *)
(* running, whatever died in the backlog before it.                           *)
Served ==
  \A k \in Runs : controller = k /\ k \in linked ~> clientFd = k \/ controller # k \/ k \notin linked

-----------------------------------------------------------------------------
(* The inductive invariant behind InOrder: commands queue up by controller,   *)
(* and the monitor serves the oldest controller that is still linked.         *)

Increasing(seq) == \A i, j \in DOMAIN seq : i < j => seq[i] < seq[j]

OldestServed ==
  /\ Increasing(pending)
  /\ \A i \in DOMAIN pending : clientFd < pending[i]

QueueInv ==
  /\ \A k \in Runs : Increasing(toMonitor[k])
  /\ \A k \in Runs : \A i \in DOMAIN toMonitor[k] : toMonitor[k][i] <= commands
  /\ \A j, k \in Runs : j < k =>
       \A a \in DOMAIN toMonitor[j], b \in DOMAIN toMonitor[k] : toMonitor[j][a] < toMonitor[k][b]
  /\ \A a \in DOMAIN executed : executed[a] <= commands
  /\ \A a \in DOMAIN executed, k \in Runs :
       \A b \in DOMAIN toMonitor[k] : executed[a] < toMonitor[k][b]

IInv == TypeOK /\ OldestServed /\ QueueInv /\ InOrder

=============================================================================
