------------------------------ MODULE Framing ------------------------------
(* How the controller cuts the messages of its clients from the TCP stream:   *)
(* messenger_receive_message, called once per pass of the main loop, over the *)
(* clients that connect one after the other.                                  *)
(*                                                                            *)
(* A message on the wire is five units: the XML header in two parts (a piece  *)
(* of the stream may end inside it), the body, its end tag, and the newline   *)
(* the XML writer puts at the end.  A unit knows which message it is of; the  *)
(* code only sees its part.                                                   *)
EXTENDS Naturals, Sequences, SequencesExt, FiniteSets

CONSTANTS
  Connections,   \* what clients send: each connection a sequence of kinds of messages
  BufferSize,    \* the buffer's first size, in units
  Growth         \* how many times that it may have (16 in the code)

(* good: one the controller understands; odd: XML it does not understand;     *)
(* broken: no well-formed XML.                                                *)
Kinds == {"good", "odd", "broken"}

ASSUME SizesArePositive ==
  {BufferSize, Growth} \subseteq Nat \ {0} /\ \E k \in 0..Growth : Growth = 2 ^ k
ASSUME ConnectionsAreMessages == Connections \subseteq Seq(Seq(Kinds))

VARIABLES
  clients,   \* the connections of this behaviour
  client,    \* the one being served, or served last
  unsent,    \* its units that have not arrived yet
  socket,    \* its units that have arrived and were not received
  open,      \* the client has not closed the connection
  connected, \* client_fd: the controller has accepted it and not closed it
  buffer,    \* rx_buffer up to rx_buffer_index
  size,      \* buffer_size
  received,  \* history: the units that were received
  delivered, \* history: what was handed to the main loop, as units
  overflowed \* history: the buffer was full at its largest size

peer == <<clients, unsent, open>>
vars == <<clients, client, unsent, socket, open, connected, buffer, size,
          received, delivered, overflowed>>

MaxSize == BufferSize * Growth

Unit(c, m, part) == [client |-> c, message |-> m, part |-> part]
Body(kind) == CASE kind = "good" -> "body" [] kind = "odd" -> "oddity" [] OTHER -> "junk"

MessageUnits(c, m, kind) ==
  <<Unit(c, m, "head1"), Unit(c, m, "head2"), Unit(c, m, Body(kind)),
    Unit(c, m, "end"), Unit(c, m, "newline")>>
Stream(c) ==
  [i \in 1..(5 * Len(clients[c])) |->
     LET m == ((i - 1) \div 5) + 1
     IN MessageUnits(c, m, clients[c][m])[((i - 1) % 5) + 1]]

Init ==
  /\ clients \in Connections
  /\ client = 0
  /\ unsent = <<>> /\ socket = <<>> /\ open = FALSE /\ connected = FALSE
  /\ buffer = <<>> /\ size = BufferSize
  /\ received = {} /\ delivered = <<>> /\ overflowed = FALSE

-----------------------------------------------------------------------------
(* The client.                                                                *)

(* A piece of any length arrives. *)
Arrive ==
  /\ open
  /\ \E n \in 1..Len(unsent) :
       /\ socket' = socket \o SubSeq(unsent, 1, n)
       /\ unsent' = SubSeq(unsent, n + 1, Len(unsent))
  /\ UNCHANGED <<clients, client, open, connected, buffer, size, received, delivered, overflowed>>

(* The client closes the connection, perhaps in the middle of a message; a    *)
(* reset takes with it what was not received.                                 *)
Close ==
  /\ open
  /\ open' = FALSE
  /\ socket' \in {socket, <<>>}
  /\ unsent' = <<>>
  /\ UNCHANGED <<clients, client, connected, buffer, size, received, delivered, overflowed>>

-----------------------------------------------------------------------------
(* The framing of the buffer.                                                 *)

IsHeader(units, i) ==
  i + 1 \in DOMAIN units /\ units[i].part = "head1" /\ units[i + 1].part = "head2"
Headers(units) == {i \in DOMAIN units : IsHeader(units, i)}

Parts(units) == [i \in DOMAIN units |-> units[i].part]

(* check_xml: one document, and nothing after it but whitespace. *)
CheckXml(units) ==
  \E body \in {"body", "oddity"} :
    IsPrefix(Parts(units), <<"head1", "head2", body, "end", "newline">>)
      /\ Len(units) >= 4

(* parse_xml: none of the parsers knows the root element otherwise. *)
ParseXml(units) == units[3].part = "body"

-----------------------------------------------------------------------------
(* messenger_receive_message.                                                 *)

(* The recv loop: the buffer doubles whenever it is full, and is emptied when *)
(* it is full and has its largest size.  What arrives between two recv calls  *)
(* of the loop might as well have arrived before the first or after the last. *)
(* When there is no memory to double it the program ends at the next search   *)
(* of the buffer, in the null pointer: behaviours merely stop there.          *)
Sizes == {BufferSize * 2 ^ k : k \in 0..Growth} \cap 1..MaxSize
Taken == Min({Len(socket), MaxSize - Len(buffer)})
Filled == buffer \o SubSeq(socket, 1, Taken)
Overflow == Len(Filled) = MaxSize

Grown == Min({s \in Sizes : size <= s /\ Len(Filled) < s} \cup {MaxSize})

(* recv returns 0 or an error: in the loop's first call, or in the one after  *)
(* the buffer was doubled for what filled it exactly.                         *)
SeesClose ==
  /\ ~open
  /\ Taken = Len(socket) /\ ~Overflow
  /\ socket = <<>> \/ \E s \in Sizes : size <= s /\ Len(Filled) = s

Nothing == <<>>
Frame(message, rest) == [message |-> message, rest |-> rest]

(* What a pass makes of the buffer: the message for the main loop, if any,    *)
(* and what stays.  What is before the first header is dropped with it.       *)
Split(units) ==
  LET first == Min(Headers(units))
      later == Headers(units) \ {first}
      end == IF later = {} THEN Len(units) ELSE Min(later) - 1
      candidate == SubSeq(units, first, end)
      rest == SubSeq(units, end + 1, Len(units))
  IN CASE Headers(units) = {} -> Frame(Nothing, units)
       [] Headers(units) # {} /\ ~CheckXml(candidate) ->
            Frame(Nothing, IF later = {} THEN units ELSE rest)
       [] OTHER ->
            Frame(IF ParseXml(candidate) THEN candidate ELSE Nothing, rest)

(* The index stays when the last message of the buffer was handed on; it is   *)
(* set to 0 although more than one was there; a message that is not           *)
(* well-formed stays although another follows it.                             *)
PassAgain(units) ==
  \E frame \in {Split(units)} :
    /\ buffer' = IF frame.rest = <<>> THEN units ELSE frame.rest
    /\ delivered' = IF frame.message = Nothing THEN delivered
                    ELSE Append(delivered, frame.message)
PassEmptying(units) ==
  \E frame \in {Split(units)} :
    /\ buffer' = IF frame.message = Nothing THEN frame.rest ELSE <<>>
    /\ delivered' = IF frame.message = Nothing THEN delivered
                    ELSE Append(delivered, frame.message)
PassStuck(units) ==
  \E frame \in {Split(units)} :
    /\ buffer' = IF frame.message = Nothing THEN units ELSE frame.rest
    /\ delivered' = IF frame.message = Nothing THEN delivered
                    ELSE Append(delivered, frame.message)

(* One pass over `units`: every variable of the messenger that a pass sets,   *)
(* but for the connection.                                                    *)
Pass(units) ==
  \E frame \in {Split(units)} :
    /\ buffer' = frame.rest
    /\ delivered' = IF frame.message = Nothing THEN delivered
                    ELSE Append(delivered, frame.message)

NextConnects ==
  /\ ~connected
  /\ client < Len(clients)
  /\ client' = client + 1
  /\ unsent' = Stream(client')
  /\ socket' = <<>>
  /\ open' = TRUE /\ connected' = TRUE
  /\ UNCHANGED <<clients, size, received, overflowed>>

Accept == NextConnects /\ Pass(buffer)

(* messenger_send_message accepts a client too, and looks at no buffer. *)
AcceptToSend == NextConnects /\ UNCHANGED <<buffer, delivered>>

Receive ==
  /\ connected
  /\ socket' = SubSeq(socket, Taken + 1, Len(socket))
  /\ received' = received \cup Range(SubSeq(socket, 1, Taken))
  /\ size' = Grown
  /\ overflowed' = (overflowed \/ Overflow)
  /\ connected' = ~SeesClose
  /\ \E units \in {IF Overflow THEN <<>> ELSE Filled} : Pass(units)
  /\ UNCHANGED <<peer, client>>

(* A pass without a client still looks at what the last one left. *)
LookAgain ==
  /\ ~connected
  /\ Pass(buffer)
  /\ UNCHANGED <<peer, client, socket, connected, size, received, overflowed>>

(* The main loop drops the client: its alive messages stopped, or an answer   *)
(* could not be sent.  What it sent and was not received is gone.             *)
Disconnect ==
  /\ connected
  /\ connected' = FALSE /\ open' = FALSE
  /\ unsent' = <<>> /\ socket' = <<>>
  /\ UNCHANGED <<clients, client, buffer, size, received, delivered, overflowed>>

Next == Arrive \/ Close \/ Accept \/ AcceptToSend \/ Receive \/ LookAgain \/ Disconnect

Spec == Init /\ [][Next]_vars

(* The main loop goes round; what is sent arrives. *)
FairSpec == Spec /\ WF_vars(Accept) /\ WF_vars(Receive) /\ WF_vars(LookAgain) /\ WF_vars(Arrive)

-----------------------------------------------------------------------------
(* Properties.                                                                *)

Units == [client : 1..Len(clients), message : Nat,
          part : {"head1", "head2", "body", "oddity", "junk", "end", "newline"}]

TypeOK ==
  /\ client \in 0..Len(clients)
  /\ {unsent, socket, buffer} \subseteq Seq(Units)
  /\ {open, connected, overflowed} \subseteq BOOLEAN
  /\ size \in Sizes
  /\ Len(buffer) < size
  /\ received \subseteq Units
  /\ delivered \in Seq(Seq(Units))

Good == UNION {{<<c, m>> : m \in {i \in DOMAIN clients[c] : clients[c][i] = "good"}} :
                 c \in DOMAIN clients}
Id(u) == <<u.client, u.message>>
Ids(units) == {Id(u) : u \in Range(units)}
WholeIn(units, id) == \E i \in Headers(units) :
  i + 3 \in DOMAIN units /\ Ids(SubSeq(units, i, i + 3)) = {id}

(* Whatever pieces the stream arrives in, and whatever a client that went     *)
(* left behind: a delivered message is one message, as sent, a good one, and  *)
(* the messages come in the order they were sent, none twice.                 *)
Before(a, b) == a[1] < b[1] \/ (a[1] = b[1] /\ a[2] < b[2])
DeliveredAsSent ==
  \A k \in 1..Len(delivered) :
    \E id \in Good :
      /\ Ids(delivered[k]) = {id}
      /\ Len(delivered[k]) >= 4
      /\ k > 1 => Before(Id(delivered[k - 1][1]), id)

(* A good message that was received whole is delivered, or still whole in the *)
(* buffer: neither a broken message before it nor what an earlier connection  *)
(* left costs it.  Two things do: a buffer that is full at its largest size,  *)
(* and a connection that is cut inside the header of the next message there   *)
(* is, of this client or of a later one: what came of that header is taken    *)
(* for a part of this message.                                                *)
Received(id, part) == Unit(id[1], id[2], part) \in received
CutInNextHeader(id) ==
  \E u \in received :
    /\ u.part = "head1" /\ Before(id, Id(u))
    /\ ~Received(Id(u), "head2")
    /\ \A v \in received : ~(Before(id, Id(v)) /\ Before(Id(v), Id(u)))
NoneLost ==
  ~overflowed =>
    \A id \in Good : Received(id, "end") =>
      \/ WholeIn(buffer, id)
      \/ \E k \in 1..Len(delivered) : Ids(delivered[k]) = {id}
      \/ CutInNextHeader(id)

(* No message stays in the buffer for ever, unless the stream stops inside    *)
(* the header of the next one.                                                *)
Drains ==
  <>[](\A id \in Good : WholeIn(buffer, id) => CutInNextHeader(id))

=============================================================================
