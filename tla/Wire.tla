-------------------------------- MODULE Wire --------------------------------
(* The XML of the messages (messenger.c): what generate_xml writes for each   *)
(* type of message and how parse_xml reads one.                               *)
(*                                                                            *)
(* A document is the sequence of nodes libxml2's reader stops at.  Comments   *)
(* and white space are "blank" nodes, text and everything else "other" ones;  *)
(* an element that is closed in its own tag has no end node.  Attributes are  *)
(* a function from the names that are there to their values; numbers stand    *)
(* for their text, a loudness in hundredths of a LUFS.                        *)
EXTENDS Integers, Sequences, FiniteSets, SequencesExt

Element(name, attrs) == [node |-> "element", name |-> name, attrs |-> attrs]
End(name) == [node |-> "end", name |-> name]
Blank == [node |-> "blank"]
Other == [node |-> "other"]

-----------------------------------------------------------------------------
(* The types of message that are read: the element of each, the child it may  *)
(* have any number of, the attributes a child must have, and those of the     *)
(* sections inside it.  An attribute missing in a child makes the message     *)
(* unreadable; ip and number of the element itself may be missing.            *)

Bare(type) == [type |-> type, child |-> "none", fields |-> {}, section |-> {}]
ListOf(type, child, fields) == [Bare(type) EXCEPT !.child = child, !.fields = fields]

Ack == Bare("ack")
Alive == Bare("alive")
StreamStartCard == {"index", "port"}
StreamStart == ListOf("stream_start", "card", StreamStartCard)
StreamStopCard == {"index"}
StreamStop == ListOf("stream_stop", "card", StreamStopCard)
LoudnessStart == Bare("loudness_start")
LoudnessStop == Bare("loudness_stop")
StatusStart == Bare("status_start")
StatusStop == Bare("status_stop")
ChannelChangeCard == {"index", "channel"}
ChannelChange == ListOf("channel_change", "card", ChannelChangeCard)
LoudnessResetCard == {"index"}
LoudnessReset == ListOf("loudness_reset", "card", LoudnessResetCard)
ScheduleCard == {"index", "start", "end", "channel"}
Schedule == ListOf("schedule", "card", ScheduleCard)
ScheduleRequest == Bare("schedule_request")
PlaybackListRequest == Bare("playback_list_request")
LogListRequest == Bare("log_list_request")
UserLoudnessFile == {"name", "record_name"}
UserLoudnessSection == {"start", "end", "loudness", "comment"}
UserLoudness ==
  [ListOf("user_loudness", "file", UserLoudnessFile) EXCEPT !.section = UserLoudnessSection]
UserLoudnessRequestFile == {"name"}
UserLoudnessRequest == ListOf("user_loudness_request", "file", UserLoudnessRequestFile)
ChannelListRequest == Bare("channel_list_request")

\* In the order parse_xml tries them.
Parsers ==
  << Ack, Alive, StreamStart, StreamStop, LoudnessStart, LoudnessStop,
     StatusStart, StatusStop, ChannelChange, LoudnessReset, Schedule,
     ScheduleRequest, PlaybackListRequest, LogListRequest, UserLoudness,
     UserLoudnessRequest, ChannelListRequest >>

-----------------------------------------------------------------------------
(* Reading                                                                    *)

\* Comments and white space are left in the reader's way.
SkipNothing(doc, p) == p

\* Where the reader is after the blanks from p on; Len(doc) + 1 is the end.
SkipBlanks(doc, p) ==
  LET rest == {q \in p..Len(doc) : doc[q].node # "blank"}
  IN IF rest = {} THEN Len(doc) + 1 ELSE Min(rest)

Is(doc, p, kind) == p <= Len(doc) /\ doc[p].node = kind
Has(node, fields) == fields \subseteq DOMAIN node.attrs
Fields(node, fields) == [a \in fields |-> node.attrs[a]]

Stopped(ok, p) == [ok |-> ok, at |-> p, items |-> <<>>]

Elements(doc, name) == {q \in DOMAIN doc : Is(doc, q, "element") /\ doc[q].name = name}

(* A loop over children: it ends, content with what it has, at the first node *)
(* that is no element, be it the parent's end or a text or a child's end tag. *)
(* item[q] is what is read of a child at q.                                   *)
Taken(doc, child, item, from, p) ==
  LET q == SkipBlanks(doc, p)
      rest == from[item[q].at]
  IN IF ~Is(doc, q, "element") THEN Stopped(TRUE, q)
     ELSE IF q \notin Elements(doc, child) THEN Stopped(FALSE, q)
     ELSE IF ~item[q].ok THEN Stopped(FALSE, item[q].at)
     ELSE [ok |-> rest.ok, at |-> rest.at, items |-> <<item[q].item>> \o rest.items]

Children(doc, child, item) ==
  LET from[p \in 1..Len(doc) + 1] == Taken(doc, child, item, from, p) IN from

Leaf(doc, fields, q) ==
  IF Has(doc[q], fields)
  THEN [ok |-> TRUE, at |-> q + 1, item |-> Fields(doc[q], fields)]
  ELSE Stopped(FALSE, q)

Card(doc, f, q) ==
  IF Has(doc[q], f.fields)
  THEN [ok |-> TRUE, at |-> q + 1, item |-> [of |-> Fields(doc[q], f.fields), sections |-> <<>>]]
  ELSE Stopped(FALSE, q)

Sections(doc, f) ==
  Children(doc, "section", [q \in Elements(doc, "section") |-> Leaf(doc, f.section, q)])

\* A child with sections, which must have an end tag of its own.
File(doc, f, q) ==
  LET sections == Sections(doc, f)[q + 1]
      end == sections.at
  IN IF ~Has(doc[q], f.fields) THEN Stopped(FALSE, q)
     ELSE IF sections.ok /\ Is(doc, end, "end") /\ doc[end].name = f.child
     THEN [ok |-> TRUE, at |-> end + 1,
           item |-> [of |-> Fields(doc[q], f.fields), sections |-> sections.items]]
     ELSE Stopped(FALSE, end)

Items(doc, f) ==
  Children(doc, f.child, [q \in Elements(doc, f.child) |->
                            IF f.section = {} THEN Card(doc, f, q) ELSE File(doc, f, q)])

Attribute(node, a, default) == IF a \in DOMAIN node.attrs THEN node.attrs[a] ELSE default

Message(root, items) ==
  [type |-> root.name, ip |-> Attribute(root, "ip", ""),
   number |-> Attribute(root, "number", 0), items |-> items]

\* One parser, from where the one before it left the reader.
Try(doc, f, p) ==
  LET root == SkipBlanks(doc, p)
      read == Items(doc, f)[root + 1]
  IN IF ~Is(doc, root, "element") \/ doc[root].name # f.type THEN Stopped(FALSE, root)
     ELSE IF f.child = "none" THEN [ok |-> TRUE, message |-> Message(doc[root], <<>>)]
     ELSE IF read.ok THEN [ok |-> TRUE, message |-> Message(doc[root], read.items)]
     ELSE Stopped(FALSE, read.at)

Refused == [type |-> "refused"]

\* Each parser is tried until one reads the document.
OrTry(last, doc, f) == IF last.ok THEN last ELSE Try(doc, f, last.at)

Tried(doc) ==
  LET tried[i \in 0..Len(Parsers)] ==
        IF i = 0 THEN Stopped(FALSE, 1) ELSE OrTry(tried[i - 1], doc, Parsers[i])
  IN tried

Parse(doc) ==
  LET last == Tried(doc)[Len(Parsers)]
  IN IF last.ok THEN last.message ELSE Refused

-----------------------------------------------------------------------------
(* Writing                                                                    *)

AckOut == Ack
AliveOut == Alive
LoudnessOut ==
  ListOf("loudness", "card", {"index", "reference", "momentary", "short-term", "integrated"})
StatusOut == ListOf("status", "card", {"index", "channel", "recording"})
ScheduleOut == Schedule
PlaybackListOut ==
  ListOf("playback_list", "file",
         {"name", "start", "end", "channel", "channel_name", "program_name",
          "program_start", "program_end", "loudness", "loudness_offset", "type"})
LogListOut ==
  ListOf("log_list", "file", {"name", "start", "end", "channel", "channel_name", "record_name"})
UserLoudnessOut == UserLoudness
ChannelListOut == ListOf("channel_list", "channel", {"num", "name"})

Writers ==
  { AckOut, AliveOut, LoudnessOut, StatusOut, ScheduleOut, PlaybackListOut,
    LogListOut, UserLoudnessOut, ChannelListOut }

\* "%2.1f": a loudness is written to a tenth, half away from nought.
Tenths(v) == 10 * (IF v < 0 THEN -((5 - v) \div 10) ELSE (v + 5) \div 10)

Measured ==
  {"loudness", "loudness_offset", "reference", "momentary", "short-term", "integrated"}

Written(fields, values) ==
  [a \in fields |-> IF a \in Measured THEN Tenths(values[a]) ELSE values[a]]

Numbered(f) == f.type \notin {"loudness", "status"}

\* An element nothing was written into is closed in its own tag.
WrittenItem(f, item) ==
  LET sections == [i \in DOMAIN item.sections |->
                     Element("section", Written(f.section, item.sections[i]))]
  IN <<Element(f.child, Written(f.fields, item.of))>>
       \o (IF sections = <<>> THEN <<>> ELSE sections \o <<End(f.child)>>)

Generate(message) ==
  LET f == CHOOSE w \in Writers : w.type = message.type
      root == IF Numbered(f) THEN [ip |-> message.ip, number |-> message.number]
              ELSE [ip |-> message.ip]
      items == FlattenSeq([i \in DOMAIN message.items |-> WrittenItem(f, message.items[i])])
  IN <<Element(f.type, root)>>
       \o (IF items = <<>> THEN <<>> ELSE items \o <<End(f.type)>>)

-----------------------------------------------------------------------------
(* What a document means, told without walking through it: its items are the  *)
(* complete children, in order, and a child's sections are those before its   *)
(* end or the next child.                                                     *)

Complete(doc, name, fields) == {p \in Elements(doc, name) : Has(doc[p], fields)}
Place(places, p) == Cardinality({q \in places : q <= p})

Named(doc, p, name) == doc[p].node \in {"element", "end"} /\ doc[p].name = name

ChildrenOf(doc, f) ==
  IF f.child = "none" THEN {}
  ELSE {p \in Complete(doc, f.child, f.fields) : p > SkipBlanks(doc, 1)}

SectionsOf(doc, f, p) ==
  IF f.section = {} THEN {}
  ELSE {q \in Complete(doc, "section", f.section) :
          q > p /\ \A r \in p + 1..q : ~Named(doc, r, f.child)}

Says(doc, f, p, item) ==
  LET own == SectionsOf(doc, f, p)
  IN /\ item.of = Fields(doc[p], f.fields)
     /\ Len(item.sections) = Cardinality(own)
     /\ \A q \in own : item.sections[Place(own, q)] = Fields(doc[q], f.section)

\* The items are the first ones the document has, or all of them.
Tells(doc, f, items) ==
  LET all == ChildrenOf(doc, f)
  IN /\ Len(items) <= Cardinality(all)
     /\ \A p \in all : Place(all, p) <= Len(items) => Says(doc, f, p, items[Place(all, p)])

Means(doc, f, items) == Tells(doc, f, items) /\ Len(items) = Cardinality(ChildrenOf(doc, f))

\* A document as the format has it: nothing but blanks, complete children that
\* are closed in their own tags or, where they have sections, hold those and are
\* ended, and the end of the message itself if it is not closed in its own tag.
Plain(doc, f) ==
  LET root == SkipBlanks(doc, 1)
      Child1(p) == p \in Complete(doc, f.child, f.fields)
      Section1(p) == p \in Complete(doc, "section", f.section)
      End1(p) == Is(doc, p, "end") /\ doc[p].name = f.child
      Inside(p) == f.section # {} /\ \E c \in root + 1..p - 1 :
                     Child1(c) /\ \A q \in c + 1..p - 1 : Is(doc, q, "blank") \/ Section1(q)
  IN /\ Is(doc, root, "element") /\ doc[root].name = f.type
     /\ f.child # "none" /\ root < Len(doc) =>
          /\ \A p \in root + 1..Len(doc) - 1 :
               \/ Is(doc, p, "blank")
               \/ Inside(p) /\ (Section1(p) \/ End1(p))
               \/ ~Inside(p) /\ Child1(p)
          /\ Is(doc, Len(doc), "end") /\ ~Inside(Len(doc))

MessageTypes == {Parsers[i].type : i \in DOMAIN Parsers}
Nests(doc) ==
  \E p \in DOMAIN doc : /\ p > SkipBlanks(doc, 1)
                        /\ Is(doc, p, "element") /\ doc[p].name \in MessageTypes
=============================================================================
