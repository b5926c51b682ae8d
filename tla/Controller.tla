----------------------------- MODULE Controller -----------------------------
(***************************************************************************)
(* apollo_controller (src/controller/main.c) for one monitor: what it has  *)
(* the monitor record, and what it keeps of that in its database.          *)
(*                                                                         *)
(* The controller is one loop, but it can crash between any two database   *)
(* calls or IPC sends, so each of those is a step.  Around it, time        *)
(* passes, users send schedules and channel changes, the EPG threads bring *)
(* the guide of one channel or another, and the monitor reports the        *)
(* loudness of the recordings it ends.  A database call or an IPC send may *)
(* fail; the code carries on.                                              *)
(***************************************************************************)
EXTENDS Integers, Sequences, FiniteSets

CONSTANTS
  Channel,      \* channel numbers
  Tables,       \* the schedules users send
  Guide,        \* the programs broadcast, of every channel
  HasRemote,    \* the slot has a lircd socket: channel changes are sent
  MaxTime,      \* bound: the clock
  MaxMessages,  \* bound: messages and commands of the users
  MaxFaults     \* bound: crashes, failed database calls and failed sends

\* A schedule entry or a program: from start up to end, on a channel.
Span == [start : Nat, end : Nat, channel : Nat]
NoSpan == [start |-> 0, end |-> 0, channel |-> 0]

\* A file is named for the second and the channel it is started for, and for
\* the channel tuned, whose name it carries.
FileName == [at : Nat, channel : Nat, tuned : Nat]
NoFile == [at |-> 0, channel |-> 0, tuned |-> 0]

ASSUME ControllerAssumption ==
  /\ Channel \subseteq Nat \ {0}
  /\ Tables \subseteq Seq(Span)
  /\ Guide \subseteq {p \in Span : p.channel \in Channel}
  /\ HasRemote \in BOOLEAN
  /\ MaxTime \in Nat /\ MaxMessages \in Nat /\ MaxFaults \in Nat

Fault == {"crash", "db", "send", "edit"}
Task == {"idle", "boot", "message", "entry", "end", "update", "split"}

VARIABLES
  pc,           \* the next database call or send, "loop" at the loop head
  task,         \* what it is for
  ret,          \* ret_schedule or ret_epg, or the channel a message asks for
  list,         \* log_list or playback_list: the row about to be saved
  status,       \* status[i]
  schedule,     \* schedule, in order
  current,      \* current_schedule[i]
  program,      \* current_epg[i]
  dbStatus,     \* the STATUS table
  dbSchedule,   \* the SCHEDULE table
  playback,     \* the PLAYBACK_LIST table, by name
  logs,         \* the LOG_LIST table, by name
  told,         \* the sessions the monitor has last been told to run
  reports,      \* AV recordings whose loudness report is on its way
  epg,          \* channel whose guide is loaded, 0 for none
  now,          \* time(NULL)
  messages,     \* messages handled
  faults,       \* faults so far, by kind (history)
  withdrawn,    \* the last entry was taken from the table, or changed when over (history)
  astray        \* sessions of the monitor nobody here knows of (history)

control == <<pc, task, ret, list>>
memory == <<status, schedule, current, program>>
disk == <<dbStatus, dbSchedule, playback, logs>>
world == <<told, reports, epg, now, astray>>
vars == <<control, memory, disk, world, messages, faults, withdrawn>>

NoStatus ==
  [channel |-> 0, recording |-> FALSE, av |-> NoFile, log |-> NoFile, updated |-> FALSE]

NoList == [name |-> NoFile, audio |-> NoFile, again |-> FALSE]

\* A machine that ran before: a saved schedule, and nothing being recorded.
Init ==
  /\ pc = "down" /\ task = "idle" /\ ret = NoSpan /\ list = NoList
  /\ status = NoStatus /\ schedule = <<>>
  /\ current = NoSpan /\ program = NoSpan
  /\ dbStatus \in {[NoStatus EXCEPT !.channel = c] : c \in Channel \cup {0}}
  /\ dbSchedule \in Tables
  /\ playback = <<>> /\ logs = <<>>
  /\ told = [av |-> NoFile, log |-> NoFile, audio |-> NoFile]
  /\ reports = {} /\ epg = 0 /\ now = 1
  /\ messages = 0 /\ faults = [f \in Fault |-> 0] /\ astray = {}
  /\ withdrawn = FALSE

-----------------------------------------------------------------------------
(* Faults, sends and database calls *)

TotalFaults == faults["crash"] + faults["db"] + faults["send"] + faults["edit"]

Occurs(f) ==
  /\ TotalFaults < MaxFaults
  /\ faults' = [faults EXCEPT ![f] = @ + 1]

\* A database call that changes table to value, or fails and leaves it.
Write(table, value) ==
  \/ table' = value /\ UNCHANGED faults
  \/ UNCHANGED table /\ Occurs("db")

\* UPDATE touches the row if there is one; INSERT OR REPLACE puts it there.
Update(table, n, row(_)) ==
  [m \in DOMAIN table |-> IF m = n THEN row(table[m]) ELSE table[m]]
Put(table, n, row) ==
  [m \in DOMAIN table \cup {n} |-> IF m = n THEN row ELSE table[m]]

Close(row) == [row EXCEPT !.open = FALSE]

Goto(p) == pc' = p /\ UNCHANGED <<task, ret, list>>
Begin(p, t, r) == pc' = p /\ task' = t /\ ret' = r /\ list' = NoList
Idle(p) == Begin(p, "idle", NoSpan)

NameNow(c) == [at |-> now, channel |-> c, tuned |-> status.channel]

-----------------------------------------------------------------------------
(* The log session: ended and started again whenever the channel changes *)

EndAudio ==
  /\ pc = "end_audio"
  /\ \/ told' = [told EXCEPT !.audio = NoFile] /\ UNCHANGED <<faults, astray>>
     \/ Occurs("send") /\ astray' = astray \cup {"log"} /\ UNCHANGED told
  /\ Goto("end_log")
  /\ UNCHANGED <<memory, disk, reports, epg, now, messages, withdrawn>>

EndLog ==
  /\ pc = "end_log"
  /\ \/ told' = [told EXCEPT !.log = NoFile] /\ UNCHANGED <<faults, astray>>
     \/ Occurs("send") /\ astray' = astray \cup {"log"} /\ UNCHANGED told
  /\ Goto("close_log")
  /\ UNCHANGED <<memory, disk, reports, epg, now, messages, withdrawn>>

CloseLog ==
  /\ pc = "close_log"
  /\ IF status.log = NoFile THEN UNCHANGED <<logs, faults>>
     ELSE Write(logs, Update(logs, status.log, Close))
  /\ status' = [status EXCEPT !.log = NoFile]
  /\ Goto("start_log")
  /\ UNCHANGED <<schedule, current, program, dbStatus, dbSchedule, playback, world,
                 messages, withdrawn>>

AfterLog == IF task = "entry" THEN "close_av" ELSE "save_status"

\* loudness_log_start; without it there is no audio recording and no row.
StartLog ==
  /\ pc = "start_log"
  /\ \/ /\ told' = [told EXCEPT !.log = NameNow(status.channel)]
        /\ list' = [NoList EXCEPT !.name = NameNow(status.channel)]
        /\ pc' = "start_audio"
        /\ UNCHANGED <<faults, astray, task, ret>>
     \/ /\ Occurs("send") /\ astray' = astray \cup {"log"}
        /\ Goto(AfterLog)
        /\ UNCHANGED told
  /\ UNCHANGED <<memory, disk, reports, epg, now, messages, withdrawn>>

\* The row's record_name is only set by a send that succeeds: otherwise it is
\* what the stack holds there, nothing or the name of an earlier row.
Leftover == {NoFile} \cup {logs[n].audio : n \in DOMAIN logs}

StartAudio ==
  /\ pc = "start_audio"
  /\ \/ /\ told' = [told EXCEPT !.audio = NameNow(status.channel)]
        /\ list' = [list EXCEPT !.audio = NameNow(status.channel)]
        /\ astray' = astray \ {"log"}
        /\ UNCHANGED faults
     \/ /\ Occurs("send") /\ astray' = astray \cup {"log"}
        /\ \E n \in Leftover : list' = [list EXCEPT !.audio = n]
        /\ UNCHANGED told
  /\ pc' = "save_log"
  /\ UNCHANGED <<task, ret, memory, disk, reports, epg, now, messages, withdrawn>>

SaveLog ==
  /\ pc = "save_log"
  /\ Write(logs, Put(logs, list.name, [open |-> TRUE, audio |-> list.audio]))
  /\ status' = [status EXCEPT !.log = list.name]
  /\ Goto(AfterLog)
  /\ UNCHANGED <<schedule, current, program, dbStatus, dbSchedule, playback, world,
                 messages, withdrawn>>

-----------------------------------------------------------------------------
(* The AV recording *)

AfterCloseAv == IF task = "end" THEN "save_status" ELSE "start_av"

\* Mutant: the row is closed only while recording.
CloseAvForgetting ==
  /\ pc = "close_av"
  /\ status' = [status EXCEPT !.av = NoFile,
                              !.recording = @ /\ task # "end",
                              !.updated = @ \/ task = "end"]
  /\ Goto(AfterCloseAv)
  /\ UNCHANGED <<schedule, current, program, disk, world, messages, faults, withdrawn>>

\* The row under way is closed; at the end of an entry recording is over.
CloseAv ==
  /\ pc = "close_av"
  /\ IF status.av = NoFile THEN UNCHANGED <<playback, faults>>
     ELSE Write(playback, Update(playback, status.av, Close))
  /\ status' = [status EXCEPT !.av = NoFile,
                              !.recording = @ /\ task # "end",
                              !.updated = @ \/ task = "end"]
  /\ Goto(AfterCloseAv)
  /\ UNCHANGED <<schedule, current, program, dbStatus, dbSchedule, logs, world,
                 messages, withdrawn>>

\* What the monitor was recording it ends, and reports.
Ended == reports \cup ({told.av} \ {NoFile})

AvChannel == IF task = "entry" THEN ret.channel ELSE current.channel

\* Mutant: a failed send leaves the status recording.
StartAvOptimistic ==
  /\ pc = "start_av"
  /\ \/ /\ told' = [told EXCEPT !.av = NameNow(AvChannel)]
        /\ list' = [NoList EXCEPT !.name = NameNow(AvChannel),
                                  !.again = NameNow(AvChannel) \in Ended]
        /\ reports' = Ended
        /\ astray' = astray \ {"av"}
        /\ pc' = "save_av"
        /\ UNCHANGED <<status, faults, task, ret>>
     \/ /\ Occurs("send") /\ astray' = astray \cup {"av"}
        /\ status' = [status EXCEPT !.av = NoFile, !.updated = TRUE]
        /\ Goto("save_status")
        /\ UNCHANGED <<told, reports>>
  /\ UNCHANGED <<schedule, current, program, disk, epg, now, messages, withdrawn>>

\* Mutant: the report of the recording that ends carries the new name.
StartAvReportsNew ==
  /\ pc = "start_av"
  /\ told' = [told EXCEPT !.av = NameNow(AvChannel)]
  /\ list' = [NoList EXCEPT !.name = NameNow(AvChannel),
                            !.again = NameNow(AvChannel) \in Ended]
  /\ reports' = reports \cup (IF told.av = NoFile THEN {} ELSE {NameNow(AvChannel)})
  /\ astray' = astray \ {"av"}
  /\ pc' = "save_av"
  /\ UNCHANGED <<status, faults, task, ret, schedule, current, program, disk, epg, now,
                 messages, withdrawn>>

StartAv ==
  /\ pc = "start_av"
  /\ \/ /\ told' = [told EXCEPT !.av = NameNow(AvChannel)]
        /\ list' = [NoList EXCEPT !.name = NameNow(AvChannel),
                                  !.again = NameNow(AvChannel) \in Ended]
        /\ reports' = Ended
        /\ astray' = astray \ {"av"}
        /\ pc' = "save_av"
        /\ UNCHANGED <<status, faults, task, ret>>
     \/ /\ Occurs("send") /\ astray' = astray \cup {"av"}
        /\ status' = [status EXCEPT !.recording = FALSE, !.av = NoFile, !.updated = TRUE]
        /\ Goto("save_status")
        /\ UNCHANGED <<told, reports>>
  /\ UNCHANGED <<schedule, current, program, disk, epg, now, messages, withdrawn>>

\* Mutant: program_data_updated is not reset.
SaveAvDescribed ==
  /\ pc = "save_av"
  /\ Write(playback, Put(playback, list.name,
       [open |-> TRUE, program |-> NoSpan, loud |-> FALSE, again |-> list.again]))
  /\ status' = [status EXCEPT !.recording = TRUE, !.av = list.name]
  /\ Goto(IF task = "split" THEN "set_program" ELSE "save_status")
  /\ UNCHANGED <<schedule, current, program, dbStatus, dbSchedule, logs, world, messages,
                 withdrawn>>

SaveAv ==
  /\ pc = "save_av"
  /\ Write(playback, Put(playback, list.name,
       [open |-> TRUE, program |-> NoSpan, loud |-> FALSE, again |-> list.again]))
  /\ status' = [status EXCEPT !.recording = TRUE, !.av = list.name, !.updated = FALSE]
  /\ Goto(IF task = "split" THEN "set_program" ELSE "save_status")
  /\ UNCHANGED <<schedule, current, program, dbStatus, dbSchedule, logs, world,
                 messages, withdrawn>>

SetProgram ==
  /\ pc = "set_program"
  /\ LET Describe(row) == [row EXCEPT !.program = ret]
     IN  Write(playback, Update(playback, status.av, Describe))
  /\ status' = [status EXCEPT !.updated = TRUE]
  /\ Goto("save_status")
  /\ UNCHANGED <<schedule, current, program, dbStatus, dbSchedule, logs, world,
                 messages, withdrawn>>

EndAv ==
  /\ pc = "end_av"
  /\ \/ /\ told' = [told EXCEPT !.av = NoFile] /\ reports' = Ended
        /\ astray' = astray \ {"av"} /\ UNCHANGED faults
     \/ Occurs("send") /\ astray' = astray \cup {"av"} /\ UNCHANGED <<told, reports>>
  /\ Goto("close_av")
  /\ UNCHANGED <<memory, disk, epg, now, messages, withdrawn>>

-----------------------------------------------------------------------------
(* What every task ends with: the status is saved, and the loop goes on *)

\* Mutant: the status is not saved when a program was put to the row.
SaveStatusSkipping ==
  /\ pc = "save_status"
  /\ IF task = "update" THEN UNCHANGED <<dbStatus, faults>> ELSE Write(dbStatus, status)
  /\ current' = IF task = "entry" THEN ret ELSE current
  /\ program' = IF task = "split" THEN ret ELSE program
  /\ CASE task = "update" -> Begin("split?", "update", ret)
       [] task \in {"entry", "end"} -> Idle("epg")
       [] OTHER -> Idle("loop")
  /\ UNCHANGED <<status, schedule, dbSchedule, playback, logs, world, messages, withdrawn>>

SaveStatus ==
  /\ pc = "save_status"
  /\ Write(dbStatus, status)
  /\ current' = IF task = "entry" THEN ret ELSE current
  /\ program' = IF task = "split" THEN ret ELSE program
  /\ CASE task = "update" -> Begin("split?", "update", ret)
       [] task \in {"entry", "end"} -> Idle("epg")
       [] OTHER -> Idle("loop")
  /\ UNCHANGED <<status, schedule, dbSchedule, playback, logs, world, messages, withdrawn>>

-----------------------------------------------------------------------------
(* The loop: a report of the monitor, a message, a command on stdin *)

\* UPDATE ... SET LOUDNESS by name.
ReceiveReport ==
  /\ pc = "loop"
  /\ \E n \in reports :
       LET Measure(row) == [row EXCEPT !.loud = TRUE]
       IN  /\ reports' = reports \ {n}
           /\ Write(playback, Update(playback, n, Measure))
  /\ UNCHANGED <<control, memory, dbStatus, dbSchedule, logs, told, epg, now, astray,
                 messages, withdrawn>>

SameEntry(e, f) == e.start = f.start /\ e.channel = f.channel

Message == messages < MaxMessages /\ messages' = messages + 1

\* The channel is taken over if there is a remote to change it with.
Tuned(c) == IF HasRemote THEN [status EXCEPT !.channel = c] ELSE status

ChannelChange(c) ==
  /\ pc = "loop" /\ Message
  /\ IF c = status.channel
     THEN Begin("save_status", "message", NoSpan) /\ UNCHANGED status
     ELSE Begin("end_audio", "message", NoSpan) /\ status' = Tuned(c)
  /\ UNCHANGED <<schedule, current, program, disk, world, faults, withdrawn>>

\* The entry under way is no more in the table, or was sent again when over.
Withdraw ==
  LET kept == \E i \in DOMAIN schedule' : SameEntry(schedule'[i], current)
  IN  withdrawn' = (withdrawn \/ (current # NoSpan /\ ~(kept /\ status.recording)))

\* The table is deleted and then inserted row by row.
ReceiveSchedule(table) ==
  /\ pc = "loop" /\ Message
  /\ schedule' = table
  /\ Withdraw
  /\ \/ dbSchedule' = <<>> /\ UNCHANGED faults /\ Begin("save_schedule", "message", NoSpan)
     \/ Occurs("db") /\ UNCHANGED <<dbSchedule, control>>
  /\ UNCHANGED <<status, current, program, dbStatus, playback, logs, world>>

SaveEntry ==
  /\ pc = "save_schedule"
  /\ \/ /\ Len(dbSchedule) < Len(schedule)
        /\ dbSchedule' = Append(dbSchedule, schedule[Len(dbSchedule) + 1])
        /\ UNCHANGED <<control, faults>>
     \/ /\ Len(dbSchedule) = Len(schedule)
        /\ Idle("loop") /\ UNCHANGED <<dbSchedule, faults>>
     \/ /\ Len(dbSchedule) < Len(schedule)
        /\ Occurs("db") /\ Idle("loop") /\ UNCHANGED dbSchedule
  /\ UNCHANGED <<memory, dbStatus, playback, logs, world, messages, withdrawn>>

\* The entries that are not e, in their order.
Without(e) ==
  LET others == {i \in DOMAIN schedule : schedule[i] # e}
      places == 1..Cardinality(others)
      Ordered(at) == \A m, n \in places : m < n => at[m] < at[n]
  IN {[n \in places |-> schedule[at[n]]] : at \in {a \in [places -> others] : Ordered(a)}}

\* schedule_add, schedule_del and schedule_reset change the table in memory.
EditSchedule(e) ==
  /\ pc = "loop" /\ Occurs("edit")
  /\ schedule' \in {Append(schedule, e), <<>>} \cup Without(e)
  /\ Withdraw
  /\ UNCHANGED <<control, status, current, program, disk, world, messages>>

-----------------------------------------------------------------------------
(* The loop: the schedule, then the EPG *)

Covers(s) == s.start <= now /\ now < s.end

Covering == {i \in DOMAIN schedule : Covers(schedule[i])}

\* get_current_schedule: the first entry that covers the time.
Found == schedule[CHOOSE i \in Covering : \A j \in Covering : i <= j]

\* Mutant: the entry's channel being tuned counts as its being recorded.
StartEntryTuned ==
  /\ Covering # {} /\ ~SameEntry(current, Found)
  /\ IF Found.channel = status.channel
     THEN Begin("save_status", "entry", Found) /\ UNCHANGED status
     ELSE Begin("end_audio", "entry", Found) /\ status' = Tuned(Found.channel)
  /\ withdrawn' = FALSE

StartEntry ==
  /\ Covering # {} /\ ~SameEntry(current, Found)
  /\ IF Found.channel = status.channel
     THEN Begin("close_av", "entry", Found) /\ UNCHANGED status
     ELSE Begin("end_audio", "entry", Found) /\ status' = Tuned(Found.channel)
  /\ withdrawn' = FALSE

\* Mutant: the monitor is not told.
EndEntrySilent ==
  /\ Covering = {} /\ status.recording
  /\ Begin("close_av", "end", NoSpan) /\ UNCHANGED <<status, withdrawn>>

\* Mutant: the end is seen only in the second the entry ends.
EndEntryOnTheSecond ==
  /\ Covering = {} /\ status.recording /\ now = current.end
  /\ Begin("end_av", "end", NoSpan) /\ UNCHANGED <<status, withdrawn>>

EndEntry ==
  /\ Covering = {} /\ status.recording
  /\ Begin("end_av", "end", NoSpan) /\ UNCHANGED <<status, withdrawn>>

NothingNew ==
  /\ IF Covering = {} THEN ~status.recording ELSE SameEntry(current, Found)
  /\ Goto("epg") /\ UNCHANGED <<status, withdrawn>>

CheckSchedule ==
  /\ pc = "loop"
  /\ StartEntry \/ EndEntry \/ NothingNew
  /\ UNCHANGED <<schedule, current, program, disk, world, messages, faults>>

\* get_current_epg, and only for the channel tuned.
OnAir == {p \in Guide : p.channel = epg /\ epg = status.channel /\ Covers(p)}

CheckEpg ==
  /\ pc = "epg"
  /\ \/ OnAir = {} /\ Idle("loop")
     \/ \E p \in OnAir :
          IF status.recording /\ status.av # NoFile /\ ~status.updated
          THEN Begin("set_program", "update", p)
          ELSE Begin("split?", "update", p)
  /\ UNCHANGED <<memory, disk, world, messages, faults, withdrawn>>

\* A program that starts with the entry, or the first one of a channel, is the
\* one under way; any other begins a recording of its own.
CheckSplit ==
  /\ pc = "split?"
  /\ IF ret.channel # program.channel \/ ret.start = current.start
     THEN program' = ret /\ Idle("loop")
     ELSE /\ UNCHANGED program
          /\ IF ret.start = program.start THEN Idle("loop")
             ELSE Begin(IF status.recording THEN "close_av" ELSE "save_status", "split", ret)
  /\ UNCHANGED <<status, schedule, current, disk, world, messages, faults, withdrawn>>

-----------------------------------------------------------------------------
(* Start, stop and crash *)

\* The startup path closes the log it was writing when it stopped, and starts
\* another; the AV recording is left to the first pass of the loop.  What cannot
\* be loaded is empty, and the status is saved so at the end of the path.
Boot ==
  /\ pc = "down"
  /\ \/ status' = dbStatus /\ schedule' = dbSchedule /\ UNCHANGED faults
     \/ /\ Occurs("db")
        /\ status' \in {NoStatus, dbStatus} /\ schedule' \in {<<>>, dbSchedule}
        /\ status' = NoStatus \/ schedule' = <<>>
  /\ current' = NoSpan /\ program' = NoSpan /\ withdrawn' = FALSE
  /\ Begin("close_log", "boot", NoSpan)
  /\ UNCHANGED <<disk, world, messages>>

GoesDown == Idle("down") /\ reports' = {} /\ epg' = 0

\* "end" on stdin: the loop is left at its end, nothing is closed or saved.
Stop ==
  /\ pc = "loop" /\ Message
  /\ GoesDown
  /\ UNCHANGED <<memory, disk, told, now, astray, faults, withdrawn>>

Crash ==
  /\ pc # "down" /\ Occurs("crash")
  /\ GoesDown
  /\ astray' = {"av", "log"}
  /\ UNCHANGED <<memory, disk, told, now, messages, withdrawn>>

-----------------------------------------------------------------------------
(* The world *)

Tick ==
  /\ now < MaxTime
  /\ now' = now + 1
  /\ UNCHANGED <<control, memory, disk, told, reports, epg, astray, messages,
                 faults, withdrawn>>

\* An EPG thread brings the guide of a channel asked for at some time, after
\* it deleted the one that was there.
EpgArrives(c) ==
  /\ pc # "down"
  /\ epg' = c /\ c # epg
  /\ UNCHANGED <<control, memory, disk, told, reports, now, astray, messages,
                 faults, withdrawn>>

LogStep == EndAudio \/ EndLog \/ CloseLog \/ StartLog \/ StartAudio \/ SaveLog
AvStep == CloseAv \/ StartAv \/ SaveAv \/ SetProgram \/ EndAv
LoopStep == ReceiveReport \/ SaveEntry \/ CheckSchedule \/ CheckEpg \/ CheckSplit
Step == LogStep \/ AvStep \/ SaveStatus \/ LoopStep

User ==
  \/ \E c \in Channel : ChannelChange(c)
  \/ \E table \in Tables :
       \/ ReceiveSchedule(table)
       \/ \E i \in DOMAIN table : EditSchedule(table[i])
  \/ Stop

World == Tick \/ \E c \in Channel \cup {0} : EpgArrives(c)

Next == Step \/ User \/ World \/ Boot \/ Crash

Spec == Init /\ [][Next]_vars

\* The controller runs while it is up, and time passes; nothing makes users
\* send, guides arrive or the controller start again.
FairSpec == Spec /\ WF_vars(Step) /\ WF_vars(Tick)

-----------------------------------------------------------------------------
(* Safety *)

Pc == {"down", "loop", "epg", "split?", "save_schedule", "save_status",
       "end_audio", "end_log", "close_log", "start_log", "start_audio", "save_log",
       "close_av", "start_av", "save_av", "set_program", "end_av"}

Status == [channel : Nat, recording : BOOLEAN, av : FileName, log : FileName,
           updated : BOOLEAN]
Row == [open : BOOLEAN, program : Span, loud : BOOLEAN, again : BOOLEAN]
LogRow == [open : BOOLEAN, audio : FileName]

\* Every variable has its type (main's locals in controller/main.c, the tables
\* of database.c), and the tables are keyed by file name.
TypeOK ==
  /\ pc \in Pc /\ task \in Task /\ ret \in Span
  /\ list \in [name : FileName, audio : FileName, again : BOOLEAN]
  /\ status \in Status /\ dbStatus \in Status
  /\ schedule \in Seq(Span) /\ dbSchedule \in Seq(Span)
  /\ current \in Span /\ program \in Span
  /\ DOMAIN playback \subseteq FileName
  /\ \A n \in DOMAIN playback : playback[n] \in Row
  /\ DOMAIN logs \subseteq FileName
  /\ \A n \in DOMAIN logs : logs[n] \in LogRow
  /\ told \in [av : FileName, log : FileName, audio : FileName]
  /\ reports \subseteq FileName \ {NoFile}
  /\ epg \in Channel \cup {0} /\ now \in 1..MaxTime + 1
  /\ messages \in 0..MaxMessages
  /\ faults \in [Fault -> 0..MaxFaults] /\ TotalFaults <= MaxFaults
  /\ astray \subseteq {"av", "log"} /\ withdrawn \in BOOLEAN

Open(table) == {n \in DOMAIN table : table[n].open}

\* A recording or a log whose row is never closed is the trace of a crash or of
\* a failed database call, one row of a table each: no sequence of schedules,
\* channel changes, programs, failed sends, stops and starts leaves one behind.
OrphansAccounted ==
  pc = "loop" =>
    /\ Cardinality(Open(playback) \ {status.av}) <= faults["crash"] + faults["db"]
    /\ Cardinality(Open(logs) \ {status.log}) <= faults["crash"] + faults["db"]

\* Back at the loop head the database knows what the loop knows, so that a stop
\* or a crash there forgets nothing (but schedule edits made on stdin).
Durable ==
  pc = "loop" /\ faults["db"] = 0 =>
    dbStatus = status /\ (faults["edit"] = 0 => dbSchedule = schedule)

\* At the loop head the monitor runs the sessions the controller believes it
\* runs, each with its open row; a failed send or a crash loses this, and the
\* next command that gets through restores it.
MonitorAgrees ==
  pc = "loop" /\ faults["db"] = 0 =>
    /\ "av" \notin astray =>
         told.av = status.av /\ (status.av # NoFile => status.av \in Open(playback))
    /\ "log" \notin astray =>
         /\ told.log = status.log /\ status.log \in Open(logs)
         /\ logs[status.log].audio = told.audio

\* The status says recording exactly when it names a recording, in memory and
\* in the database, which is what a restart relies on to close the row.
RecordingNamed ==
  /\ pc = "loop" => status.recording = (status.av # NoFile)
  /\ dbStatus.recording = (dbStatus.av # NoFile)

\* The row of the recording under way has a program when the status says so,
\* and never one left from before a restart.
ProgramDescribed ==
  pc = "loop" /\ status.recording /\ current # NoSpan /\ faults["db"] = 0 =>
    status.updated = (playback[status.av].program # NoSpan)

\* A loudness report is put to the recording it measured: the row under way has
\* none yet, unless its file replaces another of the same second.
LoudnessOfItsOwn ==
  pc = "loop" /\ status.recording /\ faults["db"] = 0 /\ playback[status.av].loud =>
    playback[status.av].again

\* The entry that covers the time is being recorded once the schedule has been
\* looked at, also when another end was sent for it while it was under way,
\* unless a send failed or the entry was withdrawn.  (One withdrawn and sent
\* again, or prolonged when it was over, is not started again: current_schedule
\* still names it.  Nor is an entry of channel 0 that starts at 0, while
\* current_schedule is as it was cleared at the start.)
EntryRecorded ==
  pc = "epg" /\ Covering # {} /\ current # NoSpan /\ SameEntry(current, Found) =>
    status.recording \/ faults["send"] > 0 \/ withdrawn

-----------------------------------------------------------------------------
(* Liveness, under FairSpec *)

\* When the schedule has run out recording stops, here and in the monitor, but
\* for a controller that is not started again, and for a monitor gone astray or
\* forgotten because the status could not be saved.
RecordingStops ==
  \/ <>[](pc = "down")
  \/ <>[](/\ ~status.recording
          /\ told.av = NoFile \/ "av" \in astray \/ faults["db"] > 0)
=============================================================================
