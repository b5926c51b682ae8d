----------------------------- MODULE MCRequests -----------------------------
(* Instances of Requests for TLC: the documents clients send.               *)
EXTENDS Requests, TLC

CONSTANTS n1, n2, r1, r2

Root(type) == W!Element(type, [ip |-> "", number |-> 7])
Doc(type, body) ==
  IF body = <<>> THEN <<Root(type)>> ELSE <<Root(type)>> \o body \o <<W!End(type)>>

\* Bodies of up to n pieces.
Bodies(pieces, n) ==
  UNION {{FlattenSeq(b) : b \in [1..k -> pieces]} : k \in 0..n}

\* A piece between two of the same.
Around(pieces, same) == {same \o p \o same : p \in pieces}

CardOf(i, c) == W!Element("card", [index |-> i, channel |-> c])
CardPieces ==
  { <<CardOf(0, 7)>>, <<CardOf(0, 12), W!End("card")>>, <<CardOf(1, 7)>>,
    <<W!Element("card", [index |-> 0])>>, <<W!Element("schedule_request", [number |-> 3])>>,
    <<W!Element("section", [index |-> 0])>>, <<W!Blank>>, <<W!Other>> }

Section(l) == W!Element("section", [start |-> "s", end |-> "e", loudness |-> l, comment |-> "c"])
FileOf(n, r) == W!Element("file", [name |-> n, record_name |-> r])
Closed(n, r, sections) == <<FileOf(n, r)>> \o sections \o <<W!End("file")>>
FilePieces ==
  { Closed(n1, r1, <<Section(-2304), W!Blank, Section(-2298)>>), Closed(n2, r1, <<>>),
    <<FileOf(n1, r2)>>, Closed(n2, r2, <<Section(-2304), W!Other>>),
    <<Section(-2304)>>, <<W!Blank>>, <<W!Other>> }

Asking(names) ==
  Doc("user_loudness_request", [i \in DOMAIN names |-> W!Element("file", [name |-> names[i]])])

EntryOf(s) ==
  W!Element("card", [index |-> 0, start |-> s, end |-> s + 1, channel |-> 7])

Saves ==
  { Doc("user_loudness", Closed(n1, r1, <<Section(-2304), Section(-2298)>>)),
    Doc("user_loudness", Closed(n1, r2, <<Section(-2304)>>) \o Closed(n2, r1, <<Section(-2298)>>)),
    Doc("user_loudness", Closed(n2, r2, <<>>)) }

Requested == {Asking(names) : names \in {<<n1>>, <<n2>>, <<n1, n2>>, <<n2, n1>>, <<>>}}

ProperDocuments ==
  Saves \cup Requested
    \cup {Doc("schedule", [i \in DOMAIN s |-> EntryOf(s[i])]) : s \in {<<>>, <<3, 1>>, <<1, 4, 3>>}}
    \cup {Doc(t, <<>>) : t \in {"schedule_request", "playback_list_request", "channel_list_request"}}
    \cup {Doc("channel_change", b) : b \in
            {<<CardOf(0, 7)>>, <<CardOf(0, 12)>>, <<CardOf(0, 7), CardOf(0, 12)>>}}

AllDocuments ==
  ProperDocuments
    \cup {Doc("channel_change", b) : b \in Bodies(CardPieces, 2) \cup Around(CardPieces, <<CardOf(0, 7)>>)}
    \cup {Doc("user_loudness", b) :
             b \in Bodies(FilePieces, 2)
                     \cup Around(FilePieces, Closed(n1, r1, <<Section(-2304)>>))}
    \cup {Doc(t, b) : t \in W!MessageTypes \cup {"status", "unknown"},
                      b \in {<<>>, <<W!Element("none", [number |-> 3])>>}}
    \cup {<<W!Blank>> \o Doc("alive", <<>>), <<W!Other>> \o Doc("alive", <<>>)}
    \cup {Doc(t, b) : t \in {"stream_stop", "loudness_reset"},
                      b \in {<<W!Element("card", [index |-> i])>> : i \in 0..2}}

Logs == <<[a \in W!LogListOut.fields |-> IF a = "channel" THEN 7 ELSE "text"]>>

Numbers == <<[num |-> 7, name |-> "seven"], [num |-> 1205, name |-> "long"]>>
=============================================================================
