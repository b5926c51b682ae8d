------------------------------ MODULE Requests ------------------------------
(* The controller's handling of a client's message, from the document to what *)
(* it leaves behind (controller/main.c).  Main reads the document (Wire),     *)
(* acknowledges it and carries it out: channel changes by key threads         *)
(* (ChannelKeys), user loudness in the database (UserLoudness), commands to   *)
(* the monitors; or it answers from what it has.  Main is one thread: while   *)
(* it carries one message out it reads no other, but key threads go on.       *)
EXTENDS UserLoudness, ChannelKeys, SequencesExt

CONSTANTS
  Documents,    \* what clients may send first ...
  Proper,       \* ... and then (bound: after the first, only what the format has)
  MaxMessages,  \* bound: messages and entries of the schedule that begin
  Monitors,     \* the controller has monitors 0..Monitors-1; the first has the box
  Oldest,       \* 90 days ago: older entries of the schedule are not told
  ChannelList,  \* the channel table: what epg_get_channel_data returns
  LogList       \* the table LOG_LIST, which Controller writes

ASSUME RequestBounds == {MaxMessages, Monitors, Oldest} \subseteq Nat

W == INSTANCE Wire

\* What the documents hold: channels and cards are numbers that are not negative,
\* files name names and recordings there may be.
Cards == Seq([of : [W!ChannelChangeCard -> Nat], sections : {<<>>}])
Files == Seq([of : [name : Names, record_name : Recordings], sections : Seq(Sections)])

ASSUME DocumentsAreSequences == \A d \in Documents \cup Proper : d \in Seq(Range(d))
ASSUME DocumentsHold ==
  \A d \in Documents \cup Proper :
    LET message == W!Parse(d)
    IN /\ message.type = "channel_change" => message.items \in Cards
       /\ message.type = "user_loudness" => message.items \in Files
       /\ message.type = "user_loudness_request" =>
            message.items \in Seq([of : [W!UserLoudnessRequestFile -> Names], sections : {<<>>}])
       /\ message.type = "schedule" =>
            message.items \in Seq([of : [W!ScheduleCard -> Nat], sections : {<<>>}])

ASSUME ListsAreSequences ==
  ChannelList \in Seq(Range(ChannelList)) /\ LogList \in Seq(Range(LogList))

VARIABLES
  doc,        \* the document received and not yet handled ...
  received,   \* ... and the message main has read it as
  did,        \* what main sent when it took one, in the step before
  cards,      \* the cards of the message at hand main has yet to see to
  schedule,   \* the schedule in memory
  messages    \* messages and entries so far

vars == <<userVars, keyVars, doc, received, did, cards, schedule, messages>>

Silence == [ack |-> {}, commands |-> <<>>, answer |-> W!Refused]

Init ==
  /\ UserInit /\ KeyInit
  /\ doc = <<>> /\ received = W!Refused /\ did = Silence /\ cards = <<>> /\ schedule = <<>> /\ messages = 0

ClientSends ==
  /\ pc = "loop" /\ doc = <<>> /\ messages < MaxMessages
  /\ doc' \in IF messages = 0 THEN Documents ELSE Proper
  /\ received' = W!Parse(doc')
  /\ messages' = messages + 1
  /\ did' = Silence
  /\ UNCHANGED <<userVars, keyVars, cards, schedule>>

Takes(types) == pc = "loop" /\ doc # <<>> /\ received.type \in types

\* The message is out of main's hands.
Taken == doc' = <<>> /\ received' = W!Refused /\ UNCHANGED messages
Acknowledged == [Silence EXCEPT !.ack = {received.number}]
Answer(type, items) ==
  [Silence EXCEPT !.answer =
     [type |-> type, ip |-> "", number |-> received.number, items |-> items]]

-----------------------------------------------------------------------------
(* Messages that are carried out                                              *)

\* What no parser reads is neither acknowledged nor answered.
Drop ==
  /\ Takes({"refused"})
  /\ did' = Silence /\ Taken
  /\ UNCHANGED <<userVars, keyVars, cards, schedule>>

\* ALIVE, and the flags of what is to be sent, which ClientSession has.
AcknowledgeOnly ==
  /\ Takes({"alive", "loudness_start", "loudness_stop", "status_start", "status_stop"})
  /\ did' = Acknowledged
  /\ Taken /\ UNCHANGED <<userVars, keyVars, cards, schedule>>

\* An acknowledgement from the client is taken and ignored, like any message
\* main has no case for.
Ignore ==
  /\ Takes({"ack"})
  /\ did' = Silence /\ Taken
  /\ UNCHANGED <<userVars, keyVars, cards, schedule>>

\* A command for the monitor of each card there is.
Commands ==
  LET there == SelectSeq(received.items, LAMBDA i : i.of["index"] < Monitors)
  IN [i \in DOMAIN there |-> [to |-> there[i].of["index"], command |-> received.type]]

StreamCommand ==
  /\ Takes({"stream_start", "stream_stop"})
  /\ did' = [Acknowledged EXCEPT !.commands = Commands]
  /\ Taken /\ UNCHANGED <<userVars, keyVars, cards, schedule>>

ResetCommand ==
  /\ Takes({"loudness_reset"})
  /\ did' = [Acknowledged EXCEPT !.commands = Commands]
  /\ Taken /\ UNCHANGED <<userVars, keyVars, cards, schedule>>

\* The entries replace the schedule.  (Controller has what becomes of them.)  A
\* time is a number here; a text that is none is one more that says 0.
TakeSchedule ==
  /\ Takes({"schedule"})
  /\ schedule' = [i \in DOMAIN received.items |-> received.items[i].of]
  /\ did' = Acknowledged
  /\ Taken /\ UNCHANGED <<userVars, keyVars, cards>>

\* No memory for them: the ones there were are gone already, and the message
\* has been acknowledged.
TakeNoSchedule ==
  /\ Takes({"schedule"})
  /\ Fails("call")
  /\ schedule' = <<>>
  /\ did' = Acknowledged
  /\ Taken /\ UNCHANGED <<pc, cursor, tables, keyVars, cards>>

ChangeChannel ==
  /\ Takes({"channel_change"})
  /\ cards' = [i \in DOMAIN received.items |-> received.items[i].of]
  /\ pc' = "change"
  /\ did' = Acknowledged
  /\ Taken /\ UNCHANGED <<cursor, tables, faults, expected, keyVars, schedule>>

\* An entry of the schedule begins: main changes the channel in the same way.
EntryBegins ==
  /\ pc = "loop" /\ doc = <<>> /\ messages < MaxMessages
  /\ messages' = messages + 1
  /\ \E c \in Channels \ {channel} : cards' = <<[index |-> 0, channel |-> c]>>
  /\ pc' = "change"
  /\ did' = Silence
  /\ UNCHANGED <<cursor, tables, faults, expected, keyVars, doc, received, schedule>>

ChangeNext ==
  /\ pc = "change" /\ cards # <<>>
  /\ LET card == Head(cards)
     IN IF card["index"] = 0 THEN Change(card["channel"]) \/ NoChange(card["channel"])
        ELSE UNCHANGED keyVars
  /\ cards' = Tail(cards)
  /\ did' = Silence
  /\ UNCHANGED <<userVars, doc, received, schedule, messages>>

Changed ==
  /\ pc = "change" /\ cards = <<>>
  /\ SaveChannel
  /\ pc' = "loop"
  /\ did' = Silence
  /\ UNCHANGED <<cursor, tables, faults, expected, doc, received, cards, schedule, messages>>

TakeUserLoudness ==
  /\ Takes({"user_loudness"})
  /\ Save(received.items)
  /\ did' = Acknowledged
  /\ Taken /\ UNCHANGED <<keyVars, cards, schedule>>

-----------------------------------------------------------------------------
(* Messages that are answered                                                 *)

\* Entries that began too long ago are left out.
IsRecent(i) == schedule[i]["start"] >= Oldest
Recent ==
  LET upto[i \in 0..Len(schedule)] ==
        IF i = 0 THEN <<>> ELSE upto[i - 1] \o (IF IsRecent(i) THEN <<schedule[i]>> ELSE <<>>)
  IN upto[Len(schedule)]

TellSchedule ==
  /\ Takes({"schedule_request"})
  /\ did' = Answer("schedule", [i \in DOMAIN Recent |-> [of |-> Recent[i], sections |-> <<>>]])
  /\ Taken /\ UNCHANGED <<userVars, keyVars, cards, schedule>>

TellChannels ==
  /\ Takes({"channel_list_request"})
  /\ did' = Answer("channel_list",
                   [i \in DOMAIN ChannelList |-> [of |-> ChannelList[i], sections |-> <<>>]])
  /\ Taken /\ UNCHANGED <<userVars, keyVars, cards, schedule>>

\* Every entry of the table, with what this model knows of it.
EntryFields(n) ==
  LET entry == playback_list[n]
  IN [a \in W!PlaybackListOut.fields |->
        CASE a = "name" -> n
          [] a = "type" -> entry.type
          [] a \in {"loudness", "loudness_offset", "channel"} -> 0
          [] OTHER -> "text"]

PlaybackItems ==
  LET listed == SetToSeq({n \in DOMAIN playback_list : playback_list[n] # None})
  IN [i \in DOMAIN listed |-> [of |-> EntryFields(listed[i]), sections |-> <<>>]]

TellPlaybackList ==
  /\ Takes({"playback_list_request"})
  /\ did' = Answer("playback_list", PlaybackItems)
  /\ Taken /\ UNCHANGED <<userVars, keyVars, cards, schedule>>

LogItems == [i \in DOMAIN LogList |-> [of |-> LogList[i], sections |-> <<>>]]

TellLogList ==
  /\ Takes({"log_list_request"})
  /\ did' = Answer("log_list", LogItems)
  /\ Taken /\ UNCHANGED <<userVars, keyVars, cards, schedule>>

Asked == [i \in DOMAIN received.items |-> received.items[i].of["name"]]

Items(loaded) ==
  [i \in DOMAIN loaded |->
     [of |-> [name |-> loaded[i].of.name, record_name |-> loaded[i].of.record_name],
      sections |-> loaded[i].sections]]

\* A request without a file in it is not answered.
TellUserLoudness ==
  /\ Takes({"user_loudness_request"})
  /\ IF Asked = <<>> THEN did' = Silence
     ELSE \E loaded \in Loaded(Asked) : did' = Answer("user_loudness", Items(loaded))
  /\ Taken /\ UNCHANGED <<userVars, keyVars, cards, schedule>>

\* A query fails, or a file has no sections: no answer at all.
CannotTell ==
  /\ Takes({"user_loudness_request", "playback_list_request", "log_list_request"})
  /\ \/ /\ received.type = "user_loudness_request" /\ LoadFails(Asked)
        /\ UNCHANGED <<faults, expected>>
     \/ Fails("call")
  /\ did' = Silence
  /\ Taken /\ UNCHANGED <<pc, cursor, tables, keyVars, cards, schedule>>

\* No memory for the entries of the schedule or the channels.
CannotList ==
  /\ Takes({"schedule_request", "channel_list_request"})
  /\ received.type = "schedule_request" => schedule # <<>>
  /\ Fails("call")
  /\ did' = Silence
  /\ Taken /\ UNCHANGED <<pc, cursor, tables, keyVars, cards, schedule>>

-----------------------------------------------------------------------------

\* (Here a restart finds the entries main had; Controller has the table they
\* are loaded from.)
Kill ==
  /\ Crash /\ KeysRestart
  /\ doc' = <<>> /\ received' = W!Refused /\ did' = Silence /\ cards' = <<>> /\ schedule' = schedule
  /\ UNCHANGED messages

Carries ==
  \/ Drop \/ AcknowledgeOnly \/ Ignore \/ StreamCommand \/ ResetCommand
  \/ TakeSchedule \/ TakeNoSchedule \/ ChangeChannel
  \/ ChangeNext \/ Changed \/ TakeUserLoudness
Tells ==
  \/ TellSchedule \/ TellChannels \/ TellPlaybackList \/ TellLogList \/ TellUserLoudness
  \/ CannotTell \/ CannotList

Rest == did' = Silence /\ UNCHANGED <<doc, received, cards, schedule, messages>>

Next ==
  \/ ClientSends \/ Carries \/ Tells \/ EntryBegins \/ Kill
  \/ (SaveStep \/ \E r \in Recordings : RecordingEnds(r)) /\ UNCHANGED keyVars /\ Rest
  \/ KeyStep /\ UNCHANGED userVars /\ Rest

Spec == Init /\ [][Next]_vars

-----------------------------------------------------------------------------
(* Properties                                                                 *)

\* A document the format has is read as it is meant; from any other, parse_xml
\* reads some of the first complete children or nothing, unless a child has the
\* name of a message and a parser later in the row takes it for one.
ReadAsMeant ==
  doc # <<>> =>
    LET root == W!SkipBlanks(doc, 1)
        formats == {f \in Range(W!Parsers) : W!Is(doc, root, "element") /\ doc[root].name = f.type}
    IN \A f \in formats :
         /\ W!Plain(doc, f) =>
              /\ received = W!Message(doc[root], received.items)
              /\ W!Means(doc, f, received.items)
         /\ received.type # "refused" /\ ~W!Nests(doc) =>
              received.type = f.type /\ W!Tells(doc, f, received.items)

\* What main answers is what it has, under the number it was asked with: the
\* schedule but for old entries, and the files asked for in their order with
\* the sections saved for them.  A request is answered unless a query fails;
\* the code's exceptions are a file asked for after one that has no row, and
\* one that has no sections, which spoil the answer.
Orderly(names) ==
  \A i \in DOMAIN names :
    Listed(names[i]) => /\ user_loudness_section[names[i]] # <<>>
                        /\ \A j \in 1..i : Listed(names[j])

\* The entries are the ones of the schedule that are not old, in their order.
AreRecent(entries) ==
  LET recent == {i \in DOMAIN schedule : IsRecent(i)}
  IN /\ Len(entries) = Cardinality(recent)
     /\ \A i \in recent : entries[W!Place(recent, i)] = schedule[i]

Rounded(values) == W!Written(W!UserLoudnessSection, values)
FilesOf(names) ==
  [i \in 1..CountOf(names) |->
     [of |-> [name |-> names[i], record_name |-> user_loudness[names[i]]],
      sections |-> [j \in DOMAIN user_loudness_section[names[i]] |->
                      Rounded(user_loudness_section[names[i]][j])]]]

ToldAsKept ==
  [][doc # <<>> /\ doc' = <<>> /\ faults' = faults =>
       LET answer == did'.answer
           told == W!Generate(answer)
       IN /\ answer # W!Refused => told[1].attrs["number"] = received.number
          /\ received.type = "schedule_request" =>
               /\ AreRecent(Recent)
               /\ W!Means(told, W!Schedule,
                          [i \in DOMAIN Recent |-> [of |-> Recent[i], sections |-> <<>>]])
          /\ received.type = "user_loudness_request" /\ Asked # <<>> /\ Orderly(Asked) =>
               answer # W!Refused /\ W!Means(told, W!UserLoudness, FilesOf(Asked))]_vars
=============================================================================
