-------------------------- MODULE ControllerProofs --------------------------
(* Theorems about Controller, for every set of channels, schedules and       *)
(* programs, and every bound on time, messages and faults.                   *)
EXTENDS Controller, FiniteSetTheorems, SequenceTheorems, WellFoundedInduction, TLAPS

\* What the records are made of, as far as the proofs need it.
StatusShape(s) ==
  /\ DOMAIN s = {"channel", "recording", "av", "log", "updated"}
  /\ s.recording \in BOOLEAN /\ s.updated \in BOOLEAN

ListShape(l) == DOMAIN l = {"name", "audio", "again"} /\ l.again \in BOOLEAN
ToldShape(t) == DOMAIN t = {"av", "log", "audio"}
RowShape(r) ==
  DOMAIN r = {"open", "program", "loud", "again"} /\ r.loud \in BOOLEAN /\ r.again \in BOOLEAN
LogShape(r) == DOMAIN r = {"open", "audio"}

Shape ==
  /\ StatusShape(status) /\ StatusShape(dbStatus)
  /\ ListShape(list) /\ ToldShape(told)
  /\ \A n \in DOMAIN playback : RowShape(playback[n])
  /\ \A n \in DOMAIN logs : LogShape(logs[n])
  /\ faults \in [Fault -> Nat]
  /\ now \in Nat \ {0}

-----------------------------------------------------------------------------
(* Each kind of step, once                                                    *)

\* A step of a task at pc, or one of the others.
LEMMA Steps ==
  ASSUME Next
  PROVE  \/ EndAudio \/ EndLog \/ CloseLog \/ StartLog \/ StartAudio \/ SaveLog
         \/ CloseAv \/ StartAv \/ SaveAv \/ SetProgram \/ EndAv
         \/ SaveStatus \/ ReceiveReport \/ SaveEntry \/ CheckSchedule \/ CheckEpg \/ CheckSplit
         \/ \E c \in Channel : ChannelChange(c)
         \/ \E table \in Tables : ReceiveSchedule(table)
         \/ \E e \in Span : EditSchedule(e)
         \/ Stop \/ Tick \/ (\E c \in Channel \cup {0} : EpgArrives(c)) \/ Boot \/ Crash
<1>1. ASSUME NEW table \in Tables, NEW i \in DOMAIN table PROVE table[i] \in Span
  <2>1. table \in Seq(Span) BY ControllerAssumption
  <2> QED BY <2>1
<1>2. (\E table \in Tables : \E i \in DOMAIN table : EditSchedule(table[i]))
        => \E e \in Span : EditSchedule(e)
  BY <1>1
<1> QED BY <1>2 DEF Next, Step, LogStep, AvStep, LoopStep, User, World

\* The records have their fields at the start.
LEMMA ShapeInit == Init => Shape
<1> SUFFICES ASSUME Init PROVE Shape
  OBVIOUS
<1>1. StatusShape(status) /\ StatusShape(dbStatus)
  BY DEF Init, StatusShape, NoStatus
<1>2. ListShape(list) /\ ToldShape(told)
  BY DEF Init, ListShape, ToldShape, NoList
<1>3. DOMAIN playback = {} /\ DOMAIN logs = {}
  BY DEF Init
<1>4. faults \in [Fault -> Nat] /\ now \in Nat \ {0}
  BY DEF Init
<1> QED BY <1>1, <1>2, <1>3, <1>4 DEF Shape

\* A fault is one more of its kind.
LEMMA FaultOccurs ==
  ASSUME faults \in [Fault -> Nat], NEW f \in Fault, Occurs(f)
  PROVE  /\ faults' \in [Fault -> Nat] /\ faults'[f] > 0
         /\ \A g \in Fault : faults'[g] >= faults[g]
BY DEF Occurs

\* What is not loaded when the controller starts is empty, and a failed call.
LEMMA BootLoads ==
  ASSUME faults \in [Fault -> Nat], Boot
  PROVE  /\ pc = "down" /\ pc' = "close_log"
         /\ status' \in {dbStatus, NoStatus} /\ schedule' \in {dbSchedule, <<>>}
         /\ faults' \in [Fault -> Nat] /\ \A g \in Fault : faults'[g] >= faults[g]
         /\ \/ status' = dbStatus /\ schedule' = dbSchedule /\ faults' = faults
            \/ faults'["db"] > 0 /\ Occurs("db")
         /\ UNCHANGED dbStatus /\ UNCHANGED dbSchedule
<1>1. "db" \in Fault
  BY DEF Fault
<1>2. pc = "down" /\ pc' = "close_log" /\ UNCHANGED dbStatus /\ UNCHANGED dbSchedule
  BY DEF Boot, Begin, disk
<1>3. CASE status' = dbStatus /\ schedule' = dbSchedule /\ UNCHANGED faults
  BY <1>2, <1>3 DEF Fault
<1>4. CASE /\ Occurs("db")
           /\ status' \in {NoStatus, dbStatus} /\ schedule' \in {<<>>, dbSchedule}
  BY <1>1, <1>2, <1>4, FaultOccurs
<1> QED BY <1>3, <1>4 DEF Boot

\* A list that is cleared has its fields.
LEMMA NoListShape == ListShape(NoList)
BY DEF ListShape, NoList

\* Where the next call is, and a list that is emptied or kept.
LEMMA Moves ==
  /\ \A p : Goto(p) => UNCHANGED list
  /\ \A p, t, r : Begin(p, t, r) => ListShape(list')
  /\ \A p : Idle(p) => ListShape(list')
BY NoListShape DEF Goto, Begin, Idle

\* A report changes one row, the one of its name.
LEMMA Measured ==
  ASSUME ReceiveReport
  PROVE  \E n \in reports :
           /\ reports' = reports \ {n}
           /\ \/ playback' = [m \in DOMAIN playback |->
                               IF m = n THEN [playback[m] EXCEPT !.loud = TRUE]
                               ELSE playback[m]]
              \/ UNCHANGED playback
BY DEF ReceiveReport, Write, Update

\* No step changes what the records are made of.
LEMMA ShapeKept ==
  ASSUME Shape, Next
  PROVE  Shape'
<1> USE DEF Shape
<1>1. CASE EndAudio \/ EndLog
  BY <1>1 DEF EndAudio, EndLog, memory, disk, Occurs, Goto, ToldShape, Fault
<1>2. CASE CloseLog
  BY <1>2 DEF CloseLog, world, Write, Update, Close, Occurs, Goto, StatusShape, LogShape, Fault
<1>3. CASE StartLog
  <2>1. ListShape(list')
    BY <1>3, NoListShape DEF StartLog, Goto, ListShape
  <2>2. ToldShape(told')
    BY <1>3 DEF StartLog, ToldShape
  <2> QED BY <1>3, <2>1, <2>2 DEF StartLog, memory, disk, Occurs, Fault
<1>4. CASE StartAudio
  BY <1>4 DEF StartAudio, memory, disk, Occurs, ToldShape, ListShape, Fault
<1>5. CASE SaveLog
  BY <1>5 DEF SaveLog, world, Write, Put, Occurs, Goto, StatusShape, LogShape, Fault
<1>6. CASE CloseAv
  BY <1>6 DEF CloseAv, world, Write, Update, Close, Occurs, Goto, StatusShape, RowShape, Fault
<1>7. CASE StartAv
  <2>1. ListShape(list')
    <3>1. CASE list' = [NoList EXCEPT !.name = NameNow(AvChannel),
                                      !.again = NameNow(AvChannel) \in Ended]
      <4>1. DOMAIN list' = {"name", "audio", "again"}
        BY <3>1 DEF NoList
      <4>2. list'.again = (NameNow(AvChannel) \in Ended)
        BY <3>1 DEF NoList
      <4> QED BY <4>1, <4>2 DEF ListShape
    <3>2. CASE UNCHANGED list
      BY <3>2 DEF ListShape
    <3> QED BY <1>7, <3>1, <3>2 DEF StartAv, Goto
  <2>2. ToldShape(told')
    BY <1>7 DEF StartAv, ToldShape
  <2>3. StatusShape(status')
    BY <1>7 DEF StartAv, StatusShape
  <2>4. faults' \in [Fault -> Nat]
    BY <1>7 DEF StartAv, Occurs, Fault
  <2> QED BY <1>7, <2>1, <2>2, <2>3, <2>4 DEF StartAv, disk
<1>8. CASE SaveAv
  <2>1. StatusShape(status')
    BY <1>8 DEF SaveAv, StatusShape
  <2>2. RowShape([open |-> TRUE, program |-> NoSpan, loud |-> FALSE, again |-> list.again])
    BY DEF RowShape, ListShape
  <2>3. \A n \in DOMAIN playback' : RowShape(playback'[n])
    BY <1>8, <2>2, ZenonT(30) DEF SaveAv, Write, Put
  <2>4. faults' \in [Fault -> Nat]
    BY <1>8 DEF SaveAv, Write, Occurs, Fault
  <2> QED BY <1>8, <2>1, <2>3, <2>4 DEF SaveAv, world, Goto
<1>9. CASE SetProgram
  BY <1>9 DEF SetProgram, world, Write, Update, Occurs, Goto, StatusShape, RowShape, Fault
<1>10. CASE EndAv
  BY <1>10 DEF EndAv, memory, disk, Occurs, Goto, ToldShape, Fault
<1>11. CASE SaveStatus
  <2>1. ListShape(list')
    BY <1>11, Moves DEF SaveStatus
  <2>2. StatusShape(dbStatus') /\ faults' \in [Fault -> Nat]
    BY <1>11 DEF SaveStatus, Write, Occurs, Fault
  <2> QED BY <1>11, <2>1, <2>2 DEF SaveStatus, world
<1>12. CASE ReceiveReport
  <2>1. \A n \in DOMAIN playback' : RowShape(playback'[n])
    <3>1. PICK n \in reports :
            \/ playback' = [m \in DOMAIN playback |->
                             IF m = n THEN [playback[m] EXCEPT !.loud = TRUE] ELSE playback[m]]
            \/ UNCHANGED playback
      BY <1>12, Measured
    <3>2. \A m \in DOMAIN playback : RowShape([playback[m] EXCEPT !.loud = TRUE])
      BY DEF RowShape
    <3>3. CASE UNCHANGED playback
      BY <3>3
    <3> QED BY <3>1, <3>2, <3>3
  <2>2. faults' \in [Fault -> Nat]
    BY <1>12 DEF ReceiveReport, Write, Occurs, Fault
  <2> QED BY <1>12, <2>1, <2>2 DEF ReceiveReport, control, memory
<1>13. CASE SaveEntry
  <2>1. ListShape(list')
    BY <1>13, Moves DEF SaveEntry, control
  <2> QED BY <1>13, <2>1 DEF SaveEntry, memory, world, Occurs, Fault
<1>14. CASE CheckSchedule
  <2>1. ListShape(list')
    BY <1>14, Moves DEF CheckSchedule, StartEntry, EndEntry, NothingNew
  <2>2. StatusShape(status')
    BY <1>14 DEF CheckSchedule, StartEntry, EndEntry, NothingNew, Tuned, StatusShape
  <2> QED BY <1>14, <2>1, <2>2 DEF CheckSchedule, disk, world
<1>15. CASE CheckEpg \/ CheckSplit
  <2>1. ListShape(list')
    BY <1>15, Moves DEF CheckEpg, CheckSplit
  <2> QED BY <1>15, <2>1 DEF CheckEpg, CheckSplit, memory, disk, world
<1>16. CASE \E c \in Channel : ChannelChange(c)
  <2>1. ListShape(list')
    BY <1>16, Moves DEF ChannelChange
  <2>2. StatusShape(status')
    BY <1>16 DEF ChannelChange, Tuned, StatusShape
  <2> QED BY <1>16, <2>1, <2>2 DEF ChannelChange, disk, world
<1>17. CASE \E table \in Tables : ReceiveSchedule(table)
  <2>1. ListShape(list')
    BY <1>17, Moves DEF ReceiveSchedule, control
  <2> QED BY <1>17, <2>1 DEF ReceiveSchedule, world, Occurs, Fault
<1>18. CASE \E e \in Span : EditSchedule(e)
  BY <1>18 DEF EditSchedule, control, disk, world, Occurs, Fault
<1>19. CASE Stop \/ Crash
  <2>1. ListShape(list')
    BY <1>19, Moves DEF Stop, Crash, GoesDown
  <2> QED BY <1>19, <2>1 DEF Stop, Crash, memory, disk, Occurs, Fault
<1>20. CASE Tick
  BY <1>20 DEF Tick, control, memory, disk
<1>21. CASE \E c \in Channel \cup {0} : EpgArrives(c)
  BY <1>21 DEF EpgArrives, control, memory, disk
<1>22. CASE Boot
  <2>a. StatusShape(NoStatus)
    BY DEF StatusShape, NoStatus
  <2>1. StatusShape(status') /\ faults' \in [Fault -> Nat]
    BY <1>22, <2>a, BootLoads
  <2>2. ListShape(list') /\ UNCHANGED <<dbStatus, playback, logs, told, now>>
    BY <1>22, Moves DEF Boot, disk, world
  <2> QED BY <2>1, <2>2
<1> QED
  BY <1>1, <1>2, <1>3, <1>4, <1>5, <1>6, <1>7, <1>8, <1>9, <1>10, <1>11, <1>12, <1>13, <1>14,
     <1>15, <1>16, <1>17, <1>18, <1>19, <1>20, <1>21, <1>22, Steps

-----------------------------------------------------------------------------
(* The status names the recording under way                                   *)

Named ==
  /\ pc \notin {"down", "start_av", "save_av"} => status.recording = (status.av # NoFile)
  /\ pc \in {"start_av", "save_av"} => status.av = NoFile /\ task # "end"
  /\ pc = "save_av" => list.name # NoFile
  /\ pc = "end_av" => task = "end"
  /\ dbStatus.recording = (dbStatus.av # NoFile)

\* Nothing is recorded at the start, and nothing is named.
LEMMA NamedInit == Init => Named
BY DEF Init, Named, NoStatus, NoFile

\* A name is set with recording, and cleared with it.
LEMMA NamedKept ==
  ASSUME Shape, Named, Next
  PROVE  Named'
<1> USE DEF Shape, Named
<1>1. CASE EndAudio \/ EndLog
  BY <1>1 DEF EndAudio, EndLog, memory, disk, Goto
<1>2. CASE CloseLog
  BY <1>2 DEF CloseLog, Goto, StatusShape
<1>3. CASE StartLog
  BY <1>3 DEF StartLog, memory, disk, Goto, AfterLog
<1>4. CASE StartAudio
  BY <1>4 DEF StartAudio, memory, disk
<1>5. CASE SaveLog
  BY <1>5 DEF SaveLog, Goto, AfterLog, StatusShape
<1>6. CASE CloseAv
  BY <1>6 DEF CloseAv, Goto, AfterCloseAv, StatusShape
<1>7. CASE StartAv
  <2>1. NameNow(AvChannel).at = now /\ NoFile.at = 0
    BY DEF NameNow, NoFile
  <2>2. NameNow(AvChannel) # NoFile
    BY <2>1
  <2>3. pc' = "save_av" => list'.name # NoFile
    BY <1>7, <2>2 DEF StartAv, NoList, Goto
  <2> QED BY <1>7, <2>3 DEF StartAv, disk, Goto, StatusShape
<1>8. CASE SaveAv
  BY <1>8 DEF SaveAv, Goto, StatusShape
<1>9. CASE SetProgram
  BY <1>9 DEF SetProgram, Goto, StatusShape
<1>10. CASE EndAv
  BY <1>10 DEF EndAv, memory, disk, Goto
<1>11. CASE SaveStatus
  BY <1>11 DEF SaveStatus, Write, Begin, Idle
<1>12. CASE ReceiveReport
  BY <1>12 DEF ReceiveReport, control, memory
<1>13. CASE SaveEntry
  BY <1>13 DEF SaveEntry, memory, Idle, Begin, control
<1>14. CASE CheckSchedule
  BY <1>14 DEF CheckSchedule, disk, StartEntry, EndEntry, NothingNew, Goto, Begin, Tuned, StatusShape
<1>15. CASE CheckEpg \/ CheckSplit
  BY <1>15 DEF CheckEpg, CheckSplit, memory, disk, Begin, Idle
<1>16. CASE \E c \in Channel : ChannelChange(c)
  BY <1>16 DEF ChannelChange, disk, Begin, Tuned, StatusShape
<1>17. CASE \E table \in Tables : ReceiveSchedule(table)
  BY <1>17 DEF ReceiveSchedule, control, Begin
<1>18. CASE \E e \in Span : EditSchedule(e)
  BY <1>18 DEF EditSchedule, control, disk
<1>19. CASE Stop \/ Crash
  BY <1>19 DEF Stop, Crash, GoesDown, memory, disk, Idle, Begin
<1>20. CASE Tick
  BY <1>20 DEF Tick, control, memory, disk
<1>21. CASE \E c \in Channel \cup {0} : EpgArrives(c)
  BY <1>21 DEF EpgArrives, control, memory, disk
<1>22. CASE Boot
  <2>1. NoStatus.recording = (NoStatus.av # NoFile)
    BY DEF NoStatus
  <2>2. status'.recording = (status'.av # NoFile)
    BY <1>22, <2>1, BootLoads
  <2> QED BY <1>22, <2>2, BootLoads
<1> QED
  BY <1>1, <1>2, <1>3, <1>4, <1>5, <1>6, <1>7, <1>8, <1>9, <1>10, <1>11, <1>12, <1>13, <1>14,
     <1>15, <1>16, <1>17, <1>18, <1>19, <1>20, <1>21, <1>22, Steps

-----------------------------------------------------------------------------
(* The database knows what the loop knows                                     *)

Resting == {"loop", "epg", "split?", "save_schedule"}

Remembered ==
  /\ pc \in Resting /\ faults["db"] = 0 => dbStatus = status
  /\ pc \notin {"down", "save_schedule"} /\ faults["db"] = 0 /\ faults["edit"] = 0 =>
       dbSchedule = schedule
  /\ pc = "save_schedule" /\ faults["db"] = 0 =>
       /\ schedule \in Seq(Span) /\ dbSchedule \in Seq(Span)
       /\ Len(dbSchedule) <= Len(schedule)
       /\ \A i \in 1..Len(dbSchedule) : dbSchedule[i] = schedule[i]

\* The controller is down, and remembers nothing.
LEMMA RememberedInit == Init => Remembered
BY DEF Init, Remembered, Resting

\* What a task changes is saved before the loop goes on.
LEMMA RememberedKept ==
  ASSUME Shape, Remembered, Next
  PROVE  Remembered'
<1> USE DEF Shape, Remembered, Resting
<1>0. \A f \in Fault : Occurs(f) => faults'["db"] >= faults["db"] /\ faults'["edit"] >= faults["edit"]
  BY DEF Occurs, Fault
<1>1. CASE EndAudio \/ EndLog \/ StartLog \/ StartAudio \/ EndAv
  BY <1>1 DEF EndAudio, EndLog, StartLog, StartAudio, EndAv, memory, disk, Goto, AfterLog, Occurs, Fault
<1>2. CASE CloseLog \/ SaveLog
  BY <1>2 DEF CloseLog, SaveLog, Goto, AfterLog, Write, Occurs, Fault
<1>3. CASE CloseAv \/ SaveAv \/ SetProgram
  BY <1>3 DEF CloseAv, SaveAv, SetProgram, Goto, AfterCloseAv, Write, Occurs, Fault
<1>4. CASE StartAv
  BY <1>4 DEF StartAv, disk, Goto, Occurs, Fault
<1>5. CASE SaveStatus
  BY <1>5 DEF SaveStatus, Write, Begin, Idle, Occurs, Fault
<1>6. CASE ReceiveReport
  BY <1>6 DEF ReceiveReport, control, memory, Write, Occurs, Fault
<1>7. CASE SaveEntry
  <2>1. /\ pc = "save_schedule" /\ UNCHANGED <<status, schedule, dbStatus>>
        /\ faults'["db"] >= faults["db"] /\ faults'["edit"] >= faults["edit"]
    BY <1>7 DEF SaveEntry, memory, Occurs, Fault
  <2>2. CASE faults'["db"] # 0
    BY <1>7, <2>1, <2>2 DEF SaveEntry, control, Idle, Begin, Occurs, Fault
  <2>3. CASE faults'["db"] = 0
    <3>1. /\ schedule \in Seq(Span) /\ dbSchedule \in Seq(Span)
          /\ Len(dbSchedule) <= Len(schedule)
          /\ \A i \in 1..Len(dbSchedule) : dbSchedule[i] = schedule[i]
      BY <2>1, <2>3 DEF Fault
    <3>2. CASE Len(dbSchedule) < Len(schedule)
      <4>1. UNCHANGED pc /\ dbSchedule' = Append(dbSchedule, schedule[Len(dbSchedule) + 1])
        BY <1>7, <2>3, <3>1, <3>2 DEF SaveEntry, control, Occurs, Fault
      <4>2. schedule[Len(dbSchedule) + 1] \in Span
        BY <3>1, <3>2
      <4>3. /\ dbSchedule' \in Seq(Span) /\ Len(dbSchedule') = Len(dbSchedule) + 1
            /\ \A i \in 1..Len(dbSchedule') : dbSchedule'[i] = schedule[i]
        BY <3>1, <4>1, <4>2
      <4>4. Len(dbSchedule') <= Len(schedule)
        BY <3>1, <3>2, <4>3
      <4>5. pc' = "save_schedule" /\ UNCHANGED schedule
        BY <2>1, <4>1
      <4>6. dbStatus' = status'
        BY <2>1, <2>3 DEF Fault
      <4> QED BY <3>1, <4>3, <4>4, <4>5, <4>6
    <3>3. CASE Len(dbSchedule) = Len(schedule)
      <4>1. pc' = "loop" /\ UNCHANGED dbSchedule
        BY <1>7, <3>1, <3>3 DEF SaveEntry, Idle, Begin
      <4>2. dbSchedule = schedule
        BY <3>1, <3>3, SeqEqual
      <4> QED BY <2>1, <2>3, <4>1, <4>2 DEF Fault
    <3> QED BY <3>1, <3>2, <3>3
  <2> QED BY <2>2, <2>3
<1>8. CASE CheckSchedule
  BY <1>8 DEF CheckSchedule, disk, StartEntry, EndEntry, NothingNew, Goto, Begin
<1>9. CASE CheckEpg \/ CheckSplit
  BY <1>9 DEF CheckEpg, CheckSplit, memory, disk, Begin, Idle
<1>10. CASE \E c \in Channel : ChannelChange(c)
  BY <1>10 DEF ChannelChange, disk, Begin
<1>11. CASE \E table \in Tables : ReceiveSchedule(table)
  <2>1. PICK table \in Tables : ReceiveSchedule(table)
    BY <1>11
  <2>2. pc = "loop" /\ schedule' = table /\ schedule' \in Seq(Span) /\ UNCHANGED <<status, dbStatus>>
    BY <2>1, ControllerAssumption DEF ReceiveSchedule
  <2>3. CASE faults'["db"] # 0
    BY <2>1, <2>2, <2>3 DEF ReceiveSchedule, control, Begin
  <2>4. CASE faults'["db"] = 0
    <3>1. dbSchedule' = <<>> /\ pc' = "save_schedule" /\ UNCHANGED faults
      BY <2>1, <2>4 DEF ReceiveSchedule, Begin, Occurs, Fault
    <3>2. dbSchedule' \in Seq(Span) /\ Len(dbSchedule') = 0
      BY <3>1
    <3>3. Len(schedule') \in Nat
      BY <2>2
    <3> QED BY <2>2, <2>4, <3>1, <3>2, <3>3
  <2> QED BY <2>3, <2>4
<1>12. CASE \E e \in Span : EditSchedule(e)
  BY <1>12 DEF EditSchedule, control, disk, Occurs, Fault
<1>13. CASE Stop \/ Crash
  BY <1>13 DEF Stop, Crash, GoesDown, memory, disk, Idle, Begin, Occurs, Fault
<1>14. CASE Tick
  BY <1>14 DEF Tick, control, memory, disk
<1>15. CASE \E c \in Channel \cup {0} : EpgArrives(c)
  BY <1>15 DEF EpgArrives, control, memory, disk
<1>16. CASE Boot
  <2>1. CASE schedule' = dbSchedule
    BY <1>16, <2>1, BootLoads DEF Resting
  <2>2. CASE faults'["db"] > 0
    BY <1>16, <2>2, BootLoads DEF Resting
  <2> QED BY <1>16, <2>1, <2>2, BootLoads
<1> QED
  BY <1>1, <1>2, <1>3, <1>4, <1>5, <1>6, <1>7, <1>8, <1>9, <1>10, <1>11, <1>12, <1>13, <1>14,
     <1>15, <1>16, Steps

-----------------------------------------------------------------------------
(* The monitor runs the recording and the log the controller believes it runs *)

AgreesAv ==
  faults["db"] = 0 /\ "av" \notin astray =>
    /\ pc \notin {"down", "close_av", "start_av", "save_av"} =>
         told.av = status.av /\ (status.av # NoFile => status.av \in Open(playback))
    /\ pc = "close_av" /\ task = "end" => told.av = NoFile
    /\ pc = "save_av" => told.av = list.name
    /\ pc = "down" =>
         told.av = dbStatus.av /\ (dbStatus.av # NoFile => dbStatus.av \in Open(playback))

\* The monitor runs nothing at the start.
LEMMA AgreesAvInit == Init => AgreesAv
BY DEF Init, AgreesAv, NoStatus

\* The recording told, the one named and the open row stay the same one.
LEMMA AgreesAvKept ==
  ASSUME Shape, Remembered, AgreesAv, Next
  PROVE  AgreesAv'
<1> USE DEF Shape, AgreesAv
<1>1. CASE EndAudio \/ EndLog
  BY <1>1 DEF EndAudio, EndLog, memory, disk, Goto, Occurs, Fault, ToldShape
<1>2. CASE CloseLog \/ SaveLog
  BY <1>2 DEF CloseLog, SaveLog, Goto, AfterLog, Write, Occurs, Fault, StatusShape, world
<1>3. CASE StartLog
  BY <1>3 DEF StartLog, memory, disk, Goto, AfterLog, Occurs, Fault, ToldShape
<1>4. CASE StartAudio
  BY <1>4 DEF StartAudio, memory, disk, Occurs, Fault, ToldShape
<1>5. CASE CloseAv
  BY <1>5 DEF CloseAv, Goto, AfterCloseAv, Write, Occurs, Fault, StatusShape, world
<1>6. CASE StartAv
  BY <1>6 DEF StartAv, disk, Goto, Occurs, Fault, ToldShape, NoList
<1>7. CASE SaveAv
  <2>1. faults'["db"] = 0 => list.name \in Open(playback')
    BY <1>7 DEF SaveAv, Write, Put, Open, Occurs, Fault
  <2>2. status'.av = list.name /\ pc' \in {"set_program", "save_status"}
    BY <1>7 DEF SaveAv, Goto, StatusShape
  <2> QED BY <1>7, <2>1, <2>2 DEF SaveAv, Write, Occurs, Fault, world
<1>8. CASE SetProgram
  <2>1. Open(playback') = Open(playback)
    BY <1>8 DEF SetProgram, Write, Update, Open, RowShape
  <2>2. status'.av = status.av /\ pc = "set_program" /\ pc' = "save_status"
    BY <1>8 DEF SetProgram, Goto, StatusShape
  <2> QED BY <1>8, <2>1, <2>2 DEF SetProgram, Write, Occurs, Fault, world
<1>9. CASE EndAv
  BY <1>9 DEF EndAv, memory, disk, Goto, Occurs, Fault, ToldShape
<1>10. CASE SaveStatus
  BY <1>10 DEF SaveStatus, Write, Begin, Idle, Occurs, Fault, world
<1>11. CASE ReceiveReport
  <2>1. Open(playback') = Open(playback)
    BY <1>11 DEF ReceiveReport, Write, Update, Open, RowShape
  <2> QED BY <1>11, <2>1 DEF ReceiveReport, control, memory, Write, Occurs, Fault
<1>12. CASE SaveEntry
  BY <1>12 DEF SaveEntry, memory, world, Idle, Begin, control, Occurs, Fault
<1>13. CASE CheckSchedule
  BY <1>13 DEF CheckSchedule, disk, world, StartEntry, EndEntry, NothingNew, Goto, Begin, Tuned, StatusShape
<1>14. CASE CheckEpg \/ CheckSplit
  BY <1>14 DEF CheckEpg, CheckSplit, memory, disk, world, Begin, Idle
<1>15. CASE \E c \in Channel : ChannelChange(c)
  BY <1>15 DEF ChannelChange, disk, world, Begin, Tuned, StatusShape
<1>16. CASE \E table \in Tables : ReceiveSchedule(table)
  BY <1>16 DEF ReceiveSchedule, control, Begin, world, Occurs, Fault
<1>17. CASE \E e \in Span : EditSchedule(e)
  BY <1>17 DEF EditSchedule, control, disk, world, Occurs, Fault
<1>18. CASE Stop
  BY <1>18 DEF Stop, GoesDown, memory, disk, Idle, Begin, Remembered, Resting
<1>19. CASE Crash
  BY <1>19 DEF Crash
<1>20. CASE Tick
  BY <1>20 DEF Tick, control, memory, disk
<1>21. CASE \E c \in Channel \cup {0} : EpgArrives(c)
  BY <1>21 DEF EpgArrives, control, memory, disk
<1>22. CASE Boot
  <2>1. CASE faults'["db"] > 0
    BY <1>22, <2>1, BootLoads
  <2>2. CASE status' = dbStatus /\ faults' = faults
    BY <1>22, <2>2 DEF Boot, disk, world, Begin
  <2> QED BY <1>22, <2>1, <2>2, BootLoads
<1> QED
  BY <1>1, <1>2, <1>3, <1>4, <1>5, <1>6, <1>7, <1>8, <1>9, <1>10, <1>11, <1>12, <1>13, <1>14,
     <1>15, <1>16, <1>17, <1>18, <1>19, <1>20, <1>21, <1>22, Steps

ChangesLog ==
  {"down", "end_audio", "end_log", "close_log", "start_log", "start_audio", "save_log"}

AgreesLog ==
  /\ pc = "start_audio" => told.log = list.name
  /\ faults["db"] = 0 /\ "log" \notin astray =>
       /\ pc = "save_log" => told.log = list.name /\ told.audio = list.audio
       /\ pc \notin ChangesLog =>
            /\ told.log = status.log /\ status.log \in Open(logs)
            /\ logs[status.log].audio = told.audio

\* The monitor writes no log at the start.
LEMMA AgreesLogInit == Init => AgreesLog
BY DEF Init, AgreesLog, ChangesLog

\* The log told, the one named and the open row stay the same one.
LEMMA AgreesLogKept ==
  ASSUME Shape, AgreesLog, Next
  PROVE  AgreesLog'
<1> USE DEF Shape, AgreesLog, ChangesLog
<1>1. CASE EndAudio \/ EndLog
  BY <1>1 DEF EndAudio, EndLog, memory, disk, Goto
<1>2. CASE CloseLog
  BY <1>2 DEF CloseLog, Goto
<1>3. CASE StartLog
  BY <1>3 DEF StartLog, memory, disk, Goto, AfterLog, ToldShape, NoList
<1>4. CASE StartAudio
  BY <1>4 DEF StartAudio, memory, disk, ToldShape, ListShape, Occurs, Fault
<1>5. CASE SaveLog
  <2>1. faults'["db"] = 0 => list.name \in Open(logs') /\ logs'[list.name].audio = list.audio
    BY <1>5 DEF SaveLog, Write, Put, Open, Occurs, Fault
  <2>2. pc = "save_log" /\ pc' \notin ChangesLog /\ status'.log = list.name
    BY <1>5 DEF SaveLog, Goto, AfterLog, StatusShape
  <2> QED BY <1>5, <2>1, <2>2 DEF SaveLog, Write, Occurs, Fault, world
<1>6. CASE CloseAv
  BY <1>6 DEF CloseAv, Goto, AfterCloseAv, Write, Occurs, Fault, StatusShape, world
<1>7. CASE StartAv
  BY <1>7 DEF StartAv, disk, Goto, Occurs, Fault, ToldShape, StatusShape
<1>8. CASE SaveAv \/ SetProgram
  <2>1. /\ UNCHANGED <<logs, told, astray>> /\ status'.log = status.log
        /\ pc \notin ChangesLog /\ pc' \notin ChangesLog
    BY <1>8 DEF SaveAv, SetProgram, Goto, StatusShape, world
  <2>2. faults'["db"] >= faults["db"]
    BY <1>8 DEF SaveAv, SetProgram, Write, Occurs, Fault
  <2> QED BY <2>1, <2>2 DEF Fault
<1>9. CASE EndAv
  BY <1>9 DEF EndAv, memory, disk, Goto, Occurs, Fault, ToldShape
<1>10. CASE SaveStatus
  BY <1>10 DEF SaveStatus, Write, Begin, Idle, Occurs, Fault, world
<1>11. CASE ReceiveReport
  BY <1>11 DEF ReceiveReport, control, memory, Write, Occurs, Fault
<1>12. CASE SaveEntry
  BY <1>12 DEF SaveEntry, memory, world, Idle, Begin, control, Occurs, Fault
<1>13. CASE CheckSchedule
  BY <1>13 DEF CheckSchedule, disk, world, StartEntry, EndEntry, NothingNew, Goto, Begin, Tuned, StatusShape
<1>14. CASE CheckEpg \/ CheckSplit
  BY <1>14 DEF CheckEpg, CheckSplit, memory, disk, world, Begin, Idle
<1>15. CASE \E c \in Channel : ChannelChange(c)
  BY <1>15 DEF ChannelChange, disk, world, Begin, Tuned, StatusShape
<1>16. CASE \E table \in Tables : ReceiveSchedule(table)
  BY <1>16 DEF ReceiveSchedule, control, Begin, world, Occurs, Fault
<1>17. CASE \E e \in Span : EditSchedule(e)
  BY <1>17 DEF EditSchedule, control, disk, world, Occurs, Fault
<1>18. CASE Stop \/ Crash
  BY <1>18 DEF Stop, Crash, GoesDown, Idle, Begin
<1>19. CASE Tick
  BY <1>19 DEF Tick, control, memory, disk
<1>20. CASE \E c \in Channel \cup {0} : EpgArrives(c)
  BY <1>20 DEF EpgArrives, control, memory, disk
<1>21. CASE Boot
  BY <1>21 DEF Boot, Begin
<1> QED
  BY <1>1, <1>2, <1>3, <1>4, <1>5, <1>6, <1>7, <1>8, <1>9, <1>10, <1>11, <1>12, <1>13, <1>14,
     <1>15, <1>16, <1>17, <1>18, <1>19, <1>20, <1>21, Steps

-----------------------------------------------------------------------------
(* The program of the recording under way, and its loudness                   *)

Described ==
  /\ task \in {"update", "split"} => ret # NoSpan
  /\ pc \in {"set_program", "split?"} => task \in {"update", "split"}
  /\ pc # "down" /\ faults["db"] = 0 /\ status.av # NoFile
       /\ (current # NoSpan \/ (pc = "save_status" /\ task = "entry")) =>
       /\ status.av \in DOMAIN playback
       /\ status.updated = (playback[status.av].program # NoSpan)

\* There is no row to describe at the start.
LEMMA DescribedInit == Init => Described
BY DEF Init, Described, NoStatus

\* A program is put to the row with the mark that it was.
LEMMA DescribedKept ==
  ASSUME Shape, Named, Described, Next
  PROVE  Described'
<1> USE DEF Shape, Described
<1>1. CASE EndAudio \/ EndLog
  BY <1>1 DEF EndAudio, EndLog, memory, disk, Goto, Occurs, Fault
<1>2. CASE CloseLog \/ SaveLog
  BY <1>2 DEF CloseLog, SaveLog, Goto, AfterLog, Write, Occurs, Fault, StatusShape
<1>3. CASE StartLog
  BY <1>3 DEF StartLog, memory, disk, Goto, AfterLog, Occurs, Fault
<1>4. CASE StartAudio
  BY <1>4 DEF StartAudio, memory, disk, Occurs, Fault
<1>5. CASE CloseAv
  BY <1>5 DEF CloseAv, Goto, AfterCloseAv, StatusShape
<1>6. CASE StartAv
  BY <1>6 DEF StartAv, disk, Goto, StatusShape, Named, Occurs, Fault
<1>7. CASE SaveAv
  <2>1. /\ status'.av = list.name /\ status'.updated = FALSE
        /\ pc' = (IF task = "split" THEN "set_program" ELSE "save_status")
        /\ UNCHANGED <<task, ret>>
    BY <1>7 DEF SaveAv, Goto, StatusShape
  <2>2. faults'["db"] = 0 =>
          /\ list.name \in DOMAIN playback' /\ playback'[list.name].program = NoSpan
    BY <1>7 DEF SaveAv, Write, Put, Occurs, Fault
  <2> QED BY <2>1, <2>2
<1>8. CASE SetProgram
  <2>1. /\ status'.av = status.av /\ status'.updated = TRUE
        /\ pc = "set_program" /\ pc' = "save_status" /\ UNCHANGED <<task, ret, current>>
    BY <1>8 DEF SetProgram, Goto, StatusShape
  <2>2. faults'["db"] = 0 =>
          /\ UNCHANGED faults /\ DOMAIN playback' = DOMAIN playback
          /\ status.av \in DOMAIN playback => playback'[status.av].program = ret
    BY <1>8 DEF SetProgram, Write, Update, Occurs, Fault, RowShape
  <2> QED BY <2>1, <2>2
<1>9. CASE EndAv
  BY <1>9 DEF EndAv, memory, disk, Goto, Occurs, Fault
<1>10. CASE SaveStatus
  <2>1. UNCHANGED <<status, playback>> /\ faults'["db"] >= faults["db"] /\ pc = "save_status"
    BY <1>10 DEF SaveStatus, Write, Occurs, Fault
  <2>2. /\ task \in {"entry", "update", "split"} \/ current' = current
        /\ task # "entry" => current' = current
    BY <1>10 DEF SaveStatus
  <2>3. /\ task' \in {"update", "idle"} /\ pc' \in {"split?", "epg", "loop"}
        /\ task' = "update" => task = "update" /\ ret' = ret
        /\ pc' = "split?" => task' = "update"
    BY <1>10 DEF SaveStatus, Begin, Idle
  <2> QED BY <2>1, <2>2, <2>3 DEF Fault
<1>11. CASE ReceiveReport
  <2>1. /\ DOMAIN playback' = DOMAIN playback
        /\ \A n \in DOMAIN playback : playback'[n].program = playback[n].program
    BY <1>11 DEF ReceiveReport, Write, Update, RowShape
  <2> QED BY <1>11, <2>1 DEF ReceiveReport, control, memory, Write, Occurs, Fault
<1>12. CASE SaveEntry
  BY <1>12 DEF SaveEntry, memory, Idle, Begin, control, Occurs, Fault
<1>13. CASE CheckSchedule
  BY <1>13 DEF CheckSchedule, disk, StartEntry, EndEntry, NothingNew, Goto, Begin, Tuned, StatusShape
<1>14. CASE CheckEpg
  <2>1. \A p \in OnAir : p # NoSpan
    <3>1. \A p \in OnAir : p.channel \in Nat \ {0}
      BY ControllerAssumption DEF OnAir
    <3> QED BY <3>1 DEF NoSpan
  <2> QED BY <1>14, <2>1 DEF CheckEpg, memory, disk, Begin, Idle
<1>15. CASE CheckSplit
  BY <1>15 DEF CheckSplit, disk, Begin, Idle
<1>16. CASE \E c \in Channel : ChannelChange(c)
  BY <1>16 DEF ChannelChange, disk, Begin, Tuned, StatusShape
<1>17. CASE \E table \in Tables : ReceiveSchedule(table)
  BY <1>17 DEF ReceiveSchedule, control, Begin, Occurs, Fault
<1>18. CASE \E e \in Span : EditSchedule(e)
  BY <1>18 DEF EditSchedule, control, disk, Occurs, Fault
<1>19. CASE Stop \/ Crash
  BY <1>19 DEF Stop, Crash, GoesDown, Idle, Begin
<1>20. CASE Tick
  BY <1>20 DEF Tick, control, memory, disk
<1>21. CASE \E c \in Channel \cup {0} : EpgArrives(c)
  BY <1>21 DEF EpgArrives, control, memory, disk
<1>22. CASE Boot
  BY <1>22 DEF Boot, Begin
<1> QED
  BY <1>1, <1>2, <1>3, <1>4, <1>5, <1>6, <1>7, <1>8, <1>9, <1>10, <1>11, <1>12, <1>13, <1>14,
     <1>15, <1>16, <1>17, <1>18, <1>19, <1>20, <1>21, <1>22, Steps

\* A row that is loud is not so by a report of another recording.
OwnLoudness(n) ==
  n # NoFile => n \in DOMAIN playback /\ (playback[n].loud => playback[n].again)

Own ==
  /\ pc = "down" => reports = {}
  /\ faults["db"] = 0 =>
       /\ pc # "down" => OwnLoudness(status.av)
       /\ pc \notin {"down", "close_av"} /\ status.av # NoFile /\ status.av \in reports =>
            playback[status.av].again
       /\ pc = "save_av" /\ list.name \in reports => list.again
       /\ OwnLoudness(dbStatus.av)

\* No report is on its way at the start.
LEMMA OwnInit == Init => Own
BY DEF Init, Own, OwnLoudness, NoStatus

\* A report is on its way under the name of the recording it measured.
LEMMA OwnKept ==
  ASSUME Shape, Named, Remembered, Own, Next
  PROVE  Own'
<1> USE DEF Shape, Own, OwnLoudness
<1>1. CASE EndAudio \/ EndLog
  BY <1>1 DEF EndAudio, EndLog, memory, disk, Goto, Occurs, Fault
<1>2. CASE CloseLog \/ SaveLog
  BY <1>2 DEF CloseLog, SaveLog, Goto, AfterLog, Write, Occurs, Fault, StatusShape, world
<1>3. CASE StartLog
  BY <1>3 DEF StartLog, memory, disk, Goto, AfterLog, Occurs, Fault
<1>4. CASE StartAudio
  BY <1>4 DEF StartAudio, memory, disk, Occurs, Fault
<1>5. CASE CloseAv
  <2>1. /\ pc = "close_av" /\ pc' \in {"save_status", "start_av"}
        /\ status'.av = NoFile /\ UNCHANGED <<dbStatus, reports>>
        /\ faults'["db"] >= faults["db"]
    BY <1>5 DEF CloseAv, Goto, AfterCloseAv, StatusShape, world, Write, Occurs, Fault
  <2>2. /\ DOMAIN playback' = DOMAIN playback
        /\ \A n \in DOMAIN playback : /\ playback'[n].loud = playback[n].loud
                                      /\ playback'[n].again = playback[n].again
    BY <1>5 DEF CloseAv, Write, Update, Close, RowShape
  <2> QED BY <2>1, <2>2 DEF Fault
<1>6. CASE StartAv
  <2>1. /\ pc = "start_av" /\ status.av = NoFile /\ status'.av = NoFile /\ UNCHANGED disk
        /\ pc' \in {"save_av", "save_status"} /\ faults'["db"] = faults["db"]
    BY <1>6 DEF StartAv, Named, Goto, StatusShape, Occurs, Fault
  <2>2. pc' = "save_av" /\ list'.name \in reports' => list'.again
    BY <1>6 DEF StartAv, Goto, NoList
  <2> QED BY <2>1, <2>2 DEF disk
<1>7. CASE SaveAv
  <2>1. /\ pc = "save_av" /\ pc' \in {"set_program", "save_status"}
        /\ status'.av = list.name /\ UNCHANGED <<dbStatus, reports>>
    BY <1>7 DEF SaveAv, Goto, StatusShape, world
  <2>2. faults'["db"] = 0 =>
          /\ UNCHANGED faults /\ DOMAIN playback' = DOMAIN playback \cup {list.name}
          /\ playback'[list.name].loud = FALSE /\ playback'[list.name].again = list.again
          /\ \A n \in DOMAIN playback \ {list.name} : playback'[n] = playback[n]
    BY <1>7 DEF SaveAv, Write, Put, Occurs, Fault
  <2> QED BY <2>1, <2>2
<1>8. CASE SetProgram
  <2>1. /\ pc = "set_program" /\ pc' = "save_status"
        /\ status'.av = status.av /\ UNCHANGED <<dbStatus, reports>>
        /\ faults'["db"] >= faults["db"]
    BY <1>8 DEF SetProgram, Goto, StatusShape, world, Write, Occurs, Fault
  <2>2. /\ DOMAIN playback' = DOMAIN playback
        /\ \A n \in DOMAIN playback : /\ playback'[n].loud = playback[n].loud
                                      /\ playback'[n].again = playback[n].again
    BY <1>8 DEF SetProgram, Write, Update, RowShape
  <2> QED BY <2>1, <2>2 DEF Fault
<1>9. CASE EndAv
  BY <1>9 DEF EndAv, memory, disk, Goto, Occurs, Fault
<1>10. CASE SaveStatus
  BY <1>10 DEF SaveStatus, Write, Begin, Idle, Occurs, Fault, world
<1>11. CASE ReceiveReport
  <2>1. PICK n \in reports :
          /\ reports' = reports \ {n}
          /\ \/ playback' = [m \in DOMAIN playback |->
                              IF m = n THEN [playback[m] EXCEPT !.loud = TRUE] ELSE playback[m]]
             \/ UNCHANGED playback
    BY <1>11, Measured
  <2>2. /\ pc = "loop" /\ UNCHANGED <<pc, list, status, dbStatus>>
        /\ faults'["db"] >= faults["db"]
    BY <1>11 DEF ReceiveReport, control, memory, Write, Occurs, Fault
  <2>3. /\ DOMAIN playback' = DOMAIN playback
        /\ \A m \in DOMAIN playback : playback'[m].again = playback[m].again
        /\ \A m \in DOMAIN playback : m # n => playback'[m] = playback[m]
    BY <2>1 DEF RowShape
  <2>4. faults'["db"] = 0 => dbStatus.av = status.av
    BY <2>2 DEF Remembered, Resting, Fault
  <2> QED BY <2>1, <2>2, <2>3, <2>4 DEF Fault
<1>12. CASE SaveEntry
  BY <1>12 DEF SaveEntry, memory, world, Idle, Begin, control, Occurs, Fault
<1>13. CASE CheckSchedule
  BY <1>13 DEF CheckSchedule, disk, world, StartEntry, EndEntry, NothingNew, Goto, Begin, Tuned, StatusShape
<1>14. CASE CheckEpg \/ CheckSplit
  BY <1>14 DEF CheckEpg, CheckSplit, memory, disk, world, Begin, Idle
<1>15. CASE \E c \in Channel : ChannelChange(c)
  BY <1>15 DEF ChannelChange, disk, world, Begin, Tuned, StatusShape
<1>16. CASE \E table \in Tables : ReceiveSchedule(table)
  BY <1>16 DEF ReceiveSchedule, control, Begin, world, Occurs, Fault
<1>17. CASE \E e \in Span : EditSchedule(e)
  BY <1>17 DEF EditSchedule, control, disk, world, Occurs, Fault
<1>18. CASE Stop \/ Crash
  BY <1>18 DEF Stop, Crash, GoesDown, memory, disk, Idle, Begin, Occurs, Fault
<1>19. CASE Tick
  BY <1>19 DEF Tick, control, memory, disk
<1>20. CASE \E c \in Channel \cup {0} : EpgArrives(c)
  BY <1>20 DEF EpgArrives, control, memory, disk
<1>21. CASE Boot
  <2>1. CASE faults'["db"] > 0
    BY <1>21, <2>1, BootLoads
  <2>2. CASE status' = dbStatus /\ faults' = faults
    BY <1>21, <2>2 DEF Boot, disk, world, Begin
  <2> QED BY <1>21, <2>1, <2>2, BootLoads
<1> QED
  BY <1>1, <1>2, <1>3, <1>4, <1>5, <1>6, <1>7, <1>8, <1>9, <1>10, <1>11, <1>12, <1>13, <1>14,
     <1>15, <1>16, <1>17, <1>18, <1>19, <1>20, <1>21, Steps

-----------------------------------------------------------------------------
(* Rows that stay open                                                        *)

Losses(f) == f["crash"] + f["db"]

\* At a place of the loop: the open rows of a table, but for the one the status
\* holds, are accounted for by what was lost; and so is the row that a stop
\* would forget because the database has another status.
Accounted(at, table, held, saved, f) ==
  /\ IsFiniteSet(Open(table)) /\ NoFile \notin Open(table)
  /\ at # "down" =>
       Cardinality(Open(table) \ {held})
         + (IF at \in Resting /\ saved # held THEN 1 ELSE 0) <= Losses(f)
  /\ at = "down" => Cardinality(Open(table) \ {saved}) <= Losses(f)

\* Crashes and failed database calls are counted by a number.
LEMMA LossesType ==
  ASSUME NEW f \in [Fault -> Nat]
  PROVE  Losses(f) \in Nat
BY DEF Losses, Fault

\* Any two of a set's elements make the same difference.
LEMMA OneLess ==
  ASSUME NEW S, IsFiniteSet(S), NEW T, T \subseteq S, NEW x
  PROVE  /\ IsFiniteSet(T) /\ Cardinality(T) \in Nat
         /\ IsFiniteSet(S \ {x}) /\ Cardinality(S \ {x}) \in Nat
         /\ Cardinality(T) <= Cardinality(S \ {x}) + 1
         /\ x \notin T => Cardinality(T) <= Cardinality(S \ {x})
<1>1. IsFiniteSet(T) /\ IsFiniteSet(S \ {x})
  BY FS_Subset
<1>2. Cardinality(T) \in Nat /\ Cardinality(S) \in Nat /\ Cardinality(S \ {x}) \in Nat
  BY <1>1, FS_CardinalityType
<1>3. Cardinality(T) <= Cardinality(S)
  BY FS_Subset
<1>4. Cardinality(S) <= Cardinality(S \ {x}) + 1
  <2>1. Cardinality(S \ {x}) = IF x \in S THEN Cardinality(S) - 1 ELSE Cardinality(S)
    BY FS_RemoveElement
  <2> QED BY <1>2, <2>1
<1>5. ASSUME x \notin T PROVE Cardinality(T) <= Cardinality(S \ {x})
  <2>1. T \subseteq S \ {x}
    BY <1>5
  <2> QED BY <1>1, <2>1, FS_Subset
<1> QED BY <1>1, <1>2, <1>3, <1>4, <1>5

\* The table and the status stay.
LEMMA AccountedSame ==
  ASSUME NEW at, NEW at2, NEW t, NEW t2, NEW held, NEW saved,
         NEW f \in [Fault -> Nat], NEW f2 \in [Fault -> Nat],
         Accounted(at, t, held, saved, f),
         Open(t2) = Open(t), Losses(f2) >= Losses(f),
         at = at2 \/ (at # "down" /\ at2 # "down" /\ (at2 \in Resting => at \in Resting))
  PROVE  Accounted(at2, t2, held, saved, f2)
<1>1. /\ Cardinality(Open(t) \ {held}) \in Nat /\ Cardinality(Open(t) \ {saved}) \in Nat
      /\ Losses(f) \in Nat /\ Losses(f2) \in Nat
  BY LossesType, OneLess DEF Accounted
<1> QED BY <1>1 DEF Accounted

\* The status is saved, or that is lost.
LEMMA AccountedSaved ==
  ASSUME NEW at2, NEW t, NEW held, NEW saved, NEW saved2,
         NEW f \in [Fault -> Nat], NEW f2 \in [Fault -> Nat],
         Accounted("save_status", t, held, saved, f), at2 # "down",
         \/ saved2 = held /\ Losses(f2) = Losses(f)
         \/ saved2 = saved /\ Losses(f2) = Losses(f) + 1
  PROVE  Accounted(at2, t, held, saved2, f2)
<1>1. Cardinality(Open(t) \ {held}) \in Nat /\ Losses(f) \in Nat /\ Losses(f2) \in Nat
  BY LossesType, OneLess DEF Accounted
<1>2. Cardinality(Open(t) \ {held}) <= Losses(f)
  BY <1>1 DEF Accounted, Resting
<1> QED BY <1>1, <1>2 DEF Accounted

\* The row held is closed, or that is lost, and held no more.
LEMMA AccountedClosed ==
  ASSUME NEW at, NEW at2, NEW t, NEW t2, NEW held, NEW saved,
         NEW f \in [Fault -> Nat], NEW f2 \in [Fault -> Nat],
         Accounted(at, t, held, saved, f),
         at \notin Resting, at2 \notin Resting, at # "down", at2 # "down",
         \/ held = NoFile /\ Open(t2) = Open(t) /\ Losses(f2) = Losses(f)
         \/ Open(t2) = Open(t) \ {held} /\ Losses(f2) = Losses(f)
         \/ Open(t2) = Open(t) /\ Losses(f2) = Losses(f) + 1
  PROVE  Accounted(at2, t2, NoFile, saved, f2)
<1> DEFINE left == Open(t2) \ {NoFile}
<1>1. left \subseteq Open(t) /\ IsFiniteSet(Open(t2)) /\ NoFile \notin Open(t2)
  BY FS_Subset DEF Accounted
<1>2. /\ Cardinality(left) \in Nat /\ Cardinality(Open(t) \ {held}) \in Nat
      /\ Losses(f) \in Nat /\ Losses(f2) \in Nat
      /\ Cardinality(left) <= Cardinality(Open(t) \ {held}) + 1
      /\ held \notin left => Cardinality(left) <= Cardinality(Open(t) \ {held})
  BY <1>1, LossesType, OneLess DEF Accounted
<1>3. Cardinality(Open(t) \ {held}) <= Losses(f)
  BY <1>2 DEF Accounted
<1> HIDE DEF left
<1>4. Cardinality(left) <= Losses(f2)
  <2>1. CASE held \notin left
    BY <1>2, <1>3, <2>1
  <2>2. CASE Losses(f2) = Losses(f) + 1
    BY <1>2, <1>3, <2>2
  <2> QED BY <2>1, <2>2 DEF left
<1>5. Cardinality(Open(t2) \ {NoFile}) <= Losses(f2) /\ Cardinality(Open(t2) \ {NoFile}) \in Nat
  BY <1>2, <1>4 DEF left
<1> QED BY <1>1, <1>5 DEF Accounted

\* A new row is opened and held, or that is lost.
LEMMA AccountedOpened ==
  ASSUME NEW at, NEW at2, NEW t, NEW t2, NEW n, n # NoFile, NEW saved,
         NEW f \in [Fault -> Nat], NEW f2 \in [Fault -> Nat],
         Accounted(at, t, NoFile, saved, f),
         at \notin Resting, at2 \notin Resting, at # "down", at2 # "down",
         Open(t2) = Open(t) \/ Open(t2) = Open(t) \cup {n}, Losses(f2) >= Losses(f)
  PROVE  Accounted(at2, t2, n, saved, f2)
<1>1. IsFiniteSet(Open(t2)) /\ NoFile \notin Open(t2)
  BY FS_AddElement DEF Accounted
<1>2. Open(t2) \ {n} \subseteq Open(t) /\ NoFile \notin Open(t2) \ {n}
  BY <1>1
<1>3. /\ Cardinality(Open(t2) \ {n}) \in Nat /\ Cardinality(Open(t) \ {NoFile}) \in Nat
      /\ Losses(f) \in Nat /\ Losses(f2) \in Nat
      /\ Cardinality(Open(t2) \ {n}) <= Cardinality(Open(t) \ {NoFile})
  BY <1>2, LossesType, OneLess DEF Accounted
<1> QED BY <1>1, <1>3 DEF Accounted

\* The controller goes down: a stop at the loop head, or a crash.
LEMMA AccountedDown ==
  ASSUME NEW at, NEW t, NEW held, NEW saved,
         NEW f \in [Fault -> Nat], NEW f2 \in [Fault -> Nat],
         Accounted(at, t, held, saved, f), at # "down",
         \/ at \in Resting /\ Losses(f2) = Losses(f)
         \/ Losses(f2) = Losses(f) + 1
  PROVE  Accounted("down", t, held, saved, f2)
<1>1. Open(t) \ {saved} \subseteq Open(t)
  OBVIOUS
<1>2. /\ Cardinality(Open(t) \ {saved}) \in Nat /\ Cardinality(Open(t) \ {held}) \in Nat
      /\ Losses(f) \in Nat /\ Losses(f2) \in Nat
      /\ Cardinality(Open(t) \ {saved}) <= Cardinality(Open(t) \ {held}) + 1
  BY <1>1, LossesType, OneLess DEF Accounted
<1>3. CASE Losses(f2) = Losses(f) + 1
  BY <1>2, <1>3 DEF Accounted
<1>4. CASE at \in Resting /\ Losses(f2) = Losses(f)
  BY <1>2, <1>4 DEF Accounted
<1> QED BY <1>3, <1>4

\* ... and when it starts: a status that could not be loaded forgets one.
LEMMA AccountedUp ==
  ASSUME NEW t, NEW held, NEW saved, NEW now2,
         NEW f \in [Fault -> Nat], NEW f2 \in [Fault -> Nat],
         Accounted("down", t, held, saved, f),
         \/ now2 = saved /\ f2 = f
         \/ Losses(f2) = Losses(f) + 1
  PROVE  Accounted("close_log", t, now2, saved, f2)
<1>1. Open(t) \ {now2} \subseteq Open(t)
  OBVIOUS
<1>2. /\ Cardinality(Open(t) \ {saved}) \in Nat /\ Cardinality(Open(t) \ {now2}) \in Nat
      /\ Losses(f) \in Nat /\ Losses(f2) \in Nat
      /\ Cardinality(Open(t) \ {now2}) <= Cardinality(Open(t) \ {saved}) + 1
  BY <1>1, LossesType, OneLess DEF Accounted
<1>3. CASE Losses(f2) = Losses(f) + 1
  BY <1>2, <1>3 DEF Accounted, Resting
<1>4. CASE now2 = saved /\ f2 = f
  BY <1>2, <1>4 DEF Accounted, Resting
<1> QED BY <1>3, <1>4

Orphans ==
  /\ Accounted(pc, playback, status.av, dbStatus.av, faults)
  /\ Accounted(pc, logs, status.log, dbStatus.log, faults)
  /\ pc \in {"start_log", "start_audio", "save_log"} => status.log = NoFile
  /\ pc \in {"start_audio", "save_log"} => list.name # NoFile

\* There are no rows at the start.
LEMMA OrphansInit == Init => Orphans
<1> SUFFICES ASSUME Init PROVE Orphans
  OBVIOUS
<1>1. pc = "down" /\ Open(playback) = {} /\ Open(logs) = {}
  BY DEF Init, Open
<1>2. Losses(faults) = 0
  BY DEF Init, Losses, Fault
<1>3. \A x : {} \ {x} = {}
  OBVIOUS
<1> QED BY <1>1, <1>2, <1>3, FS_EmptySet DEF Orphans, Accounted

\* A fault of a kind, counted as a loss or not.
LEMMA Lost ==
  ASSUME faults \in [Fault -> Nat]
  PROVE  /\ \A f \in Fault : Occurs(f) => faults' \in [Fault -> Nat]
         /\ \A f \in {"db", "crash"} : Occurs(f) => Losses(faults') = Losses(faults) + 1
         /\ \A f \in {"send", "edit"} : Occurs(f) => Losses(faults') = Losses(faults)
BY DEF Occurs, Losses, Fault

\* The steps that touch neither table nor what the status holds of it.
LEMMA OrphansSame ==
  ASSUME Shape, Orphans, faults' \in [Fault -> Nat], Losses(faults') >= Losses(faults),
         Open(playback') = Open(playback), Open(logs') = Open(logs),
         UNCHANGED dbStatus, status'.av = status.av, status'.log = status.log,
         pc = pc' \/ (pc # "down" /\ pc' # "down" /\ (pc' \in Resting => pc \in Resting)),
         pc' \in {"start_log", "start_audio", "save_log"} => status.log = NoFile,
         pc' \in {"start_audio", "save_log"} => list'.name # NoFile
  PROVE  Orphans'
<1>1. Accounted(pc', playback', status.av, dbStatus.av, faults')
  BY AccountedSame DEF Orphans, Shape
<1>2. Accounted(pc', logs', status.log, dbStatus.log, faults')
  BY AccountedSame DEF Orphans, Shape
<1> QED BY <1>1, <1>2 DEF Orphans

\* A row is left open by a crash or a failed call, one by each.
LEMMA OrphansKept ==
  ASSUME Shape, Named, Orphans, Next
  PROVE  Orphans'
<1> DEFINE SameRows == Open(playback') = Open(playback) /\ Open(logs') = Open(logs)
           Counted == faults' \in [Fault -> Nat] /\ Losses(faults') >= Losses(faults)
<1>0. Losses(faults) \in Nat /\ faults \in [Fault -> Nat]
  BY LossesType DEF Shape
<1>1. CASE EndAudio \/ EndLog
  <2>1. Counted
    BY <1>0, <1>1, Lost DEF EndAudio, EndLog, Fault
  <2> QED BY <1>1, <2>1, OrphansSame DEF EndAudio, EndLog, memory, disk, Goto, Resting
<1>2. CASE StartLog
  <2>1. Counted
    BY <1>0, <1>2, Lost DEF StartLog, Fault
  <2>2. NameNow(status.channel).at = now /\ NoFile.at = 0 /\ now # 0
    BY DEF NameNow, NoFile, Shape
  <2>3. pc' = "start_audio" => list'.name # NoFile
    BY <1>2, <2>2 DEF StartLog, NoList, Goto, AfterLog
  <2>4. /\ pc = "start_log" /\ pc' \in {"start_audio", "close_av", "save_status"}
        /\ UNCHANGED <<status, dbStatus, playback, logs>>
    BY <1>2 DEF StartLog, memory, disk, Goto, AfterLog
  <2>5. status.log = NoFile
    BY <2>4 DEF Orphans
  <2> QED BY <2>1, <2>3, <2>4, <2>5, OrphansSame DEF Resting
<1>3. CASE StartAudio
  <2>1. Counted
    BY <1>0, <1>3, Lost DEF StartAudio, Fault
  <2>2. list'.name = list.name
    BY <1>3 DEF StartAudio, Shape, ListShape
  <2>3. pc = "start_audio" /\ pc' = "save_log" /\ UNCHANGED <<status, dbStatus, playback, logs>>
    BY <1>3 DEF StartAudio, memory, disk
  <2>4. status.log = NoFile /\ list.name # NoFile
    BY <2>3 DEF Orphans
  <2> QED BY <2>1, <2>2, <2>3, <2>4, OrphansSame DEF Resting
<1>4. CASE CloseLog
  <2>1. /\ pc = "close_log" /\ pc' = "start_log" /\ status'.log = NoFile /\ status'.av = status.av
        /\ UNCHANGED <<dbStatus, playback>>
    BY <1>4 DEF CloseLog, Goto, Shape, StatusShape
  <2>2. Counted
    BY <1>0, <1>4, Lost DEF CloseLog, Write, Fault
  <2>3. \/ status.log = NoFile /\ Open(logs') = Open(logs) /\ Losses(faults') = Losses(faults)
        \/ Open(logs') = Open(logs) \ {status.log} /\ Losses(faults') = Losses(faults)
        \/ Open(logs') = Open(logs) /\ Losses(faults') = Losses(faults) + 1
    <3>1. CASE status.log = NoFile
      BY <1>4, <3>1 DEF CloseLog
    <3>2. CASE logs' = Update(logs, status.log, Close) /\ UNCHANGED faults
      BY <3>2 DEF Update, Close, Open, Shape, LogShape
    <3>3. CASE UNCHANGED logs /\ Occurs("db")
      BY <1>0, <3>3, Lost
    <3> QED BY <1>4, <3>1, <3>2, <3>3 DEF CloseLog, Write
  <2>4. Accounted(pc', logs', NoFile, dbStatus.log, faults')
    BY <1>0, <2>1, <2>2, <2>3, AccountedClosed DEF Orphans, Resting
  <2>5. Accounted(pc', playback', status.av, dbStatus.av, faults')
    BY <1>0, <2>1, <2>2, AccountedSame DEF Orphans, Resting
  <2> QED BY <2>1, <2>4, <2>5 DEF Orphans
<1>5. CASE SaveLog
  <2>1. /\ pc = "save_log" /\ pc' \in {"close_av", "save_status"}
        /\ status'.log = list.name /\ status'.av = status.av /\ UNCHANGED <<dbStatus, playback>>
    BY <1>5 DEF SaveLog, Goto, AfterLog, Shape, StatusShape
  <2>2. Counted
    BY <1>0, <1>5, Lost DEF SaveLog, Write, Fault
  <2>3. Open(logs') = Open(logs) \/ Open(logs') = Open(logs) \cup {list.name}
    BY <1>5 DEF SaveLog, Write, Put, Open
  <2>4. status.log = NoFile /\ list.name # NoFile
    BY <2>1 DEF Orphans
  <2>5. Accounted(pc', logs', list.name, dbStatus.log, faults')
    BY <1>0, <2>1, <2>2, <2>3, <2>4, AccountedOpened DEF Orphans, Resting
  <2>6. Accounted(pc', playback', status.av, dbStatus.av, faults')
    BY <1>0, <2>1, <2>2, AccountedSame DEF Orphans, Resting
  <2> QED BY <2>1, <2>5, <2>6 DEF Orphans
<1>6. CASE CloseAv
  <2>1. /\ pc = "close_av" /\ pc' \in {"start_av", "save_status"}
        /\ status'.av = NoFile /\ status'.log = status.log /\ UNCHANGED <<dbStatus, logs>>
    BY <1>6 DEF CloseAv, Goto, AfterCloseAv, Shape, StatusShape
  <2>2. Counted
    BY <1>0, <1>6, Lost DEF CloseAv, Write, Fault
  <2>3. \/ status.av = NoFile /\ Open(playback') = Open(playback) /\ Losses(faults') = Losses(faults)
        \/ Open(playback') = Open(playback) \ {status.av} /\ Losses(faults') = Losses(faults)
        \/ Open(playback') = Open(playback) /\ Losses(faults') = Losses(faults) + 1
    <3>1. CASE status.av = NoFile
      BY <1>6, <3>1 DEF CloseAv
    <3>2. CASE playback' = Update(playback, status.av, Close) /\ UNCHANGED faults
      BY <3>2 DEF Update, Close, Open, Shape, RowShape
    <3>3. CASE UNCHANGED playback /\ Occurs("db")
      BY <1>0, <3>3, Lost
    <3> QED BY <1>6, <3>1, <3>2, <3>3 DEF CloseAv, Write
  <2>4. Accounted(pc', playback', NoFile, dbStatus.av, faults')
    BY <1>0, <2>1, <2>2, <2>3, AccountedClosed DEF Orphans, Resting
  <2>5. Accounted(pc', logs', status.log, dbStatus.log, faults')
    BY <1>0, <2>1, <2>2, AccountedSame DEF Orphans, Resting
  <2> QED BY <2>1, <2>4, <2>5 DEF Orphans
<1>7. CASE StartAv
  <2>1. Counted
    BY <1>0, <1>7, Lost DEF StartAv, Fault
  <2>2. /\ pc = "start_av" /\ pc' \in {"save_av", "save_status"} /\ status'.log = status.log
        /\ status'.av = status.av /\ UNCHANGED <<dbStatus, playback, logs>>
    BY <1>7 DEF StartAv, Goto, Named, Shape, StatusShape, disk
  <2> QED BY <2>1, <2>2, OrphansSame DEF Resting
<1>8. CASE SaveAv
  <2>1. /\ pc = "save_av" /\ pc' \in {"set_program", "save_status"}
        /\ status'.av = list.name /\ status'.log = status.log /\ UNCHANGED <<dbStatus, logs>>
    BY <1>8 DEF SaveAv, Goto, Shape, StatusShape
  <2>2. Counted
    BY <1>0, <1>8, Lost DEF SaveAv, Write, Fault
  <2>3. Open(playback') = Open(playback) \/ Open(playback') = Open(playback) \cup {list.name}
    BY <1>8 DEF SaveAv, Write, Put, Open
  <2>4. status.av = NoFile /\ list.name # NoFile
    BY <2>1 DEF Named
  <2>5. Accounted(pc', playback', list.name, dbStatus.av, faults')
    BY <1>0, <2>1, <2>2, <2>3, <2>4, AccountedOpened DEF Orphans, Resting
  <2>6. Accounted(pc', logs', status.log, dbStatus.log, faults')
    BY <1>0, <2>1, <2>2, AccountedSame DEF Orphans, Resting
  <2> QED BY <2>1, <2>5, <2>6 DEF Orphans
<1>9. CASE SetProgram
  <2>1. Counted
    BY <1>0, <1>9, Lost DEF SetProgram, Write, Fault
  <2>2. SameRows
    BY <1>9 DEF SetProgram, Write, Update, Open, Shape, RowShape
  <2>3. /\ pc = "set_program" /\ pc' = "save_status" /\ UNCHANGED dbStatus
        /\ status'.av = status.av /\ status'.log = status.log
    BY <1>9 DEF SetProgram, Goto, Shape, StatusShape
  <2> QED BY <2>1, <2>2, <2>3, OrphansSame DEF Resting
<1>10. CASE EndAv
  <2>1. Counted
    BY <1>0, <1>10, Lost DEF EndAv, Fault
  <2> QED BY <1>10, <2>1, OrphansSame DEF EndAv, memory, disk, Goto, Resting
<1>11. CASE SaveStatus
  <2>1. /\ pc = "save_status" /\ pc' \in {"split?", "epg", "loop"}
        /\ UNCHANGED <<status, playback, logs>>
    BY <1>11 DEF SaveStatus, Begin, Idle
  <2>2. Counted
    BY <1>0, <1>11, Lost DEF SaveStatus, Write, Fault
  <2>3. \/ dbStatus' = status /\ Losses(faults') = Losses(faults)
        \/ dbStatus' = dbStatus /\ Losses(faults') = Losses(faults) + 1
    BY <1>0, <1>11, Lost DEF SaveStatus, Write
  <2>4. Accounted(pc', playback, status.av, dbStatus'.av, faults')
    BY <1>0, <2>1, <2>2, <2>3, AccountedSaved DEF Orphans
  <2>5. Accounted(pc', logs, status.log, dbStatus'.log, faults')
    BY <1>0, <2>1, <2>2, <2>3, AccountedSaved DEF Orphans
  <2> QED BY <2>1, <2>4, <2>5 DEF Orphans
<1>12. CASE ReceiveReport
  <2>1. Counted
    BY <1>0, <1>12, Lost DEF ReceiveReport, Write, Fault
  <2>2. SameRows
    BY <1>12 DEF ReceiveReport, Write, Update, Open, Shape, RowShape
  <2> QED BY <1>12, <2>1, <2>2, OrphansSame DEF ReceiveReport, control, memory
<1>13. CASE SaveEntry
  <2>1. Counted
    BY <1>0, <1>13, Lost DEF SaveEntry, Fault
  <2> QED BY <1>13, <2>1, OrphansSame DEF SaveEntry, memory, control, Idle, Begin, Resting
<1>14. CASE CheckSchedule
  <2>1. status'.av = status.av /\ status'.log = status.log
    BY <1>14 DEF CheckSchedule, StartEntry, EndEntry, NothingNew, Tuned, Shape, StatusShape
  <2>2. /\ pc = "loop" /\ pc' \in {"save_status", "end_audio", "close_av", "end_av", "epg"}
        /\ UNCHANGED <<dbStatus, playback, logs, faults>>
    BY <1>14 DEF CheckSchedule, disk, StartEntry, EndEntry, NothingNew, Goto, Begin
  <2> QED BY <1>0, <2>1, <2>2, OrphansSame DEF Resting
<1>15. CASE CheckEpg \/ CheckSplit
  BY <1>0, <1>15, OrphansSame DEF CheckEpg, CheckSplit, memory, disk, Begin, Idle, Resting
<1>16. CASE \E c \in Channel : ChannelChange(c)
  <2>1. status'.av = status.av /\ status'.log = status.log
    BY <1>16 DEF ChannelChange, Tuned, Shape, StatusShape
  <2> QED BY <1>0, <1>16, <2>1, OrphansSame DEF ChannelChange, disk, Begin, Resting
<1>17. CASE \E table \in Tables : ReceiveSchedule(table)
  <2>1. Counted
    BY <1>0, <1>17, Lost DEF ReceiveSchedule, Fault
  <2> QED BY <1>17, <2>1, OrphansSame DEF ReceiveSchedule, control, Begin, Resting
<1>18. CASE \E e \in Span : EditSchedule(e)
  <2>1. Counted
    BY <1>0, <1>18, Lost DEF EditSchedule, Fault
  <2> QED BY <1>18, <2>1, OrphansSame DEF EditSchedule, control, disk
<1>19. CASE Stop \/ Crash
  <2>1. /\ pc # "down" /\ pc' = "down" /\ UNCHANGED <<status, dbStatus, playback, logs>>
    BY <1>19 DEF Stop, Crash, GoesDown, memory, disk, Idle, Begin
  <2>2. /\ faults' \in [Fault -> Nat]
        /\ \/ pc \in Resting /\ Losses(faults') = Losses(faults)
           \/ Losses(faults') = Losses(faults) + 1
    BY <1>0, <1>19, Lost DEF Stop, Crash, Resting, Fault
  <2>3. Accounted(pc', playback, status.av, dbStatus.av, faults')
    BY <1>0, <2>1, <2>2, AccountedDown DEF Orphans
  <2>4. Accounted(pc', logs, status.log, dbStatus.log, faults')
    BY <1>0, <2>1, <2>2, AccountedDown DEF Orphans
  <2> QED BY <2>1, <2>3, <2>4 DEF Orphans
<1>20. CASE Tick
  BY <1>0, <1>20, OrphansSame DEF Tick, control, memory, disk, Orphans
<1>21. CASE \E c \in Channel \cup {0} : EpgArrives(c)
  BY <1>0, <1>21, OrphansSame DEF EpgArrives, control, memory, disk, Orphans
<1>22. CASE Boot
  <2>1. pc = "down" /\ pc' = "close_log" /\ UNCHANGED <<dbStatus, playback, logs>>
    BY <1>22 DEF Boot, disk, Begin
  <2>2. /\ Accounted("down", playback, status.av, dbStatus.av, faults)
        /\ Accounted("down", logs, status.log, dbStatus.log, faults)
    BY <2>1 DEF Orphans
  <2>3. \/ status' = dbStatus /\ faults' = faults
        \/ /\ status'.av \in {dbStatus.av, NoFile} /\ status'.log \in {dbStatus.log, NoFile}
           /\ faults' \in [Fault -> Nat] /\ Losses(faults') = Losses(faults) + 1
    <3>1. CASE status' = dbStatus /\ faults' = faults
      BY <3>1
    <3>2. CASE Occurs("db")
      BY <1>0, <1>22, <3>2, Lost, BootLoads DEF NoStatus
    <3> QED BY <1>0, <1>22, <3>1, <3>2, BootLoads
  <2>4. Accounted("close_log", playback, status'.av, dbStatus.av, faults')
    BY <1>0, <2>2, <2>3, AccountedUp
  <2>5. Accounted("close_log", logs, status'.log, dbStatus.log, faults')
    BY <1>0, <2>2, <2>3, AccountedUp
  <2> QED BY <2>1, <2>4, <2>5 DEF Orphans
<1> QED
  BY <1>1, <1>2, <1>3, <1>4, <1>5, <1>6, <1>7, <1>8, <1>9, <1>10, <1>11, <1>12, <1>13, <1>14,
     <1>15, <1>16, <1>17, <1>18, <1>19, <1>20, <1>21, <1>22, Steps

-----------------------------------------------------------------------------
(* The entry that covers the time                                             *)

Scheduled ==
  /\ schedule \in Seq(Span) /\ dbSchedule \in Seq(Span)
  /\ ret \in Span /\ current \in Span

\* The schedules are schedules at the start.
LEMMA ScheduledInit == Init => Scheduled
<1>1. NoSpan \in Span BY DEF NoSpan, Span
<1> QED BY <1>1, ControllerAssumption DEF Init, Scheduled

\* A set of numbers has a least one.
LEMMA Least ==
  ASSUME NEW S, S \subseteq Nat, S # {}
  PROVE  \E i \in S : \A j \in S : i <= j
<1>1. PICK x \in S : \A y \in S : ~(<<y, x>> \in OpToRel(<, Nat))
  BY NatLessThanWellFounded, WFMin
<1>2. \A y \in S : ~(y < x)
  BY <1>1 DEF OpToRel
<1> QED BY <1>2

\* The ends of the schedule's entries are times.
LEMMA Ends ==
  ASSUME schedule \in Seq(Span), NEW i \in DOMAIN schedule
  PROVE  schedule[i] \in Span /\ schedule[i].start \in Nat /\ schedule[i].end \in Nat
<1>1. schedule[i] \in Span
  OBVIOUS
<1> QED BY <1>1 DEF Span

\* Something that covers the time is found, and it is in the schedule.
LEMMA FoundCovers ==
  ASSUME schedule \in Seq(Span), Covering # {}
  PROVE  \E i \in DOMAIN schedule : Found = schedule[i] /\ Covers(schedule[i])
<1>1. Covering \subseteq Nat BY DEF Covering
<1>2. PICK i \in Covering : \A j \in Covering : i <= j BY <1>1, Least
<1>3. (CHOOSE k \in Covering : \A j \in Covering : k <= j) \in Covering BY <1>2
<1> QED BY <1>3 DEF Found, Covering

\* What stays of the schedule when an entry is deleted is a schedule.
LEMMA WithoutType ==
  ASSUME schedule \in Seq(Span), NEW e
  PROVE  Without(e) \subseteq Seq(Span)
<1> DEFINE others == {i \in DOMAIN schedule : schedule[i] # e}
           n == Cardinality(others)
<1>1. n \in Nat
  <2>1. 1 \in Int /\ Len(schedule) \in Int /\ DOMAIN schedule = 1..Len(schedule) OBVIOUS
  <2>2. IsFiniteSet(DOMAIN schedule) BY <2>1, FS_Interval
  <2>3. others \in SUBSET DOMAIN schedule OBVIOUS
  <2> HIDE DEF others
  <2> QED BY <2>2, <2>3, FS_Subset, FS_CardinalityType
<1>2. ASSUME NEW at \in [1..n -> others] PROVE [k \in 1..n |-> schedule[at[k]]] \in Seq(Span)
  <2>1. \A k \in 1..n : schedule[at[k]] \in Span
    <3>1. \A k \in 1..n : at[k] \in others OBVIOUS
    <3>2. \A i \in others : schedule[i] \in Span OBVIOUS
    <3> HIDE DEF others, n
    <3> QED BY <3>1, <3>2
  <2> HIDE DEF others, n
  <2> QED BY <1>1, <2>1
<1> HIDE DEF n
<1>3. ASSUME NEW s \in Without(e) PROVE s \in Seq(Span)
  <2>1. PICK at \in [1..n -> others] : s = [k \in 1..n |-> schedule[at[k]]]
    BY DEF Without, n
  <2> QED BY <1>2, <2>1
<1> QED BY <1>3

\* Whatever is sent, edited, saved or loaded is a schedule.
LEMMA ScheduledKept ==
  ASSUME Scheduled, Next
  PROVE  Scheduled'
<1> USE DEF Scheduled
<1>0. NoSpan \in Span BY DEF NoSpan, Span
<1>1. CASE EndAudio \/ EndLog \/ CloseLog \/ SaveLog \/ CloseAv \/ SaveAv \/ SetProgram \/ EndAv
  BY <1>1 DEF EndAudio, EndLog, CloseLog, SaveLog, CloseAv, SaveAv, SetProgram, EndAv, Goto,
              memory, disk
<1>2. CASE StartLog \/ StartAudio \/ StartAv
  BY <1>2 DEF StartLog, StartAudio, StartAv, Goto, memory, disk
<1>3. CASE SaveStatus
  BY <1>0, <1>3 DEF SaveStatus, Begin, Idle
<1>4. CASE ReceiveReport \/ Tick \/ \E c \in Channel \cup {0} : EpgArrives(c)
  BY <1>4 DEF ReceiveReport, Tick, EpgArrives, control, memory, disk
<1>5. CASE SaveEntry
  <2>1. UNCHANGED <<schedule, current>> BY <1>5 DEF SaveEntry, memory
  <2>2. ret' \in Span BY <1>0, <1>5 DEF SaveEntry, Idle, Begin, control
  <2>3. dbSchedule' \in Seq(Span)
    <3>1. CASE UNCHANGED dbSchedule BY <3>1
    <3>2. CASE /\ Len(dbSchedule) < Len(schedule)
               /\ dbSchedule' = Append(dbSchedule, schedule[Len(dbSchedule) + 1])
      <4>1. schedule[Len(dbSchedule) + 1] \in Span
        <5>1. Len(dbSchedule) \in Nat /\ Len(schedule) \in Nat OBVIOUS
        <5>2. Len(dbSchedule) + 1 \in 1..Len(schedule) BY <3>2, <5>1
        <5> QED BY <5>2
      <4> QED BY <3>2, <4>1
    <3> QED BY <1>5, <3>1, <3>2 DEF SaveEntry
  <2> QED BY <2>1, <2>2, <2>3
<1>6. CASE CheckSchedule
  <2>1. UNCHANGED <<schedule, current, dbSchedule>> BY <1>6 DEF CheckSchedule, disk
  <2>2. ret' \in Span
    <3>1. CASE StartEntry
      <4>1. Found \in Span BY <3>1, FoundCovers DEF StartEntry
      <4> QED BY <3>1, <4>1 DEF StartEntry, Begin
    <3>2. CASE EndEntry BY <1>0, <3>2 DEF EndEntry, Begin
    <3>3. CASE NothingNew BY <3>3 DEF NothingNew, Goto
    <3> QED BY <1>6, <3>1, <3>2, <3>3 DEF CheckSchedule
  <2> QED BY <2>1, <2>2
<1>7. CASE CheckEpg
  <2>1. UNCHANGED <<schedule, current, dbSchedule>> BY <1>7 DEF CheckEpg, memory, disk
  <2>2. \A p \in OnAir : p \in Span BY ControllerAssumption DEF OnAir
  <2>3. ret' \in Span BY <1>0, <1>7, <2>2 DEF CheckEpg, Idle, Begin
  <2> QED BY <2>1, <2>3
<1>8. CASE CheckSplit
  BY <1>0, <1>8 DEF CheckSplit, Idle, Begin, disk
<1>9. CASE \E c \in Channel : ChannelChange(c)
  BY <1>0, <1>9 DEF ChannelChange, Begin, disk
<1>10. CASE \E table \in Tables : ReceiveSchedule(table)
  <2>1. PICK table \in Tables : ReceiveSchedule(table) BY <1>10
  <2>2. schedule' \in Seq(Span) BY <2>1, ControllerAssumption DEF ReceiveSchedule
  <2>3. dbSchedule' = <<>> \/ dbSchedule' = dbSchedule BY <2>1 DEF ReceiveSchedule
  <2>4. ret' \in Span /\ current' = current
    BY <1>0, <2>1 DEF ReceiveSchedule, Begin, control
  <2>5. <<>> \in Seq(Span) OBVIOUS
  <2>6. dbSchedule' \in Seq(Span) BY <2>3, <2>5
  <2> QED BY <2>2, <2>4, <2>6
<1>11. CASE \E e \in Span : EditSchedule(e)
  <2>1. PICK e \in Span : EditSchedule(e) BY <1>11
  <2>2. schedule' \in Seq(Span)
    <3>1. Append(schedule, e) \in Seq(Span) /\ <<>> \in Seq(Span) OBVIOUS
    <3> QED BY <2>1, <3>1, WithoutType DEF EditSchedule
  <2> QED BY <2>1, <2>2 DEF EditSchedule, control, disk
<1>12. CASE Stop \/ Crash
  BY <1>0, <1>12 DEF Stop, Crash, GoesDown, Idle, Begin, memory, disk
<1>13. CASE Boot
  <2>1. schedule' \in {dbSchedule, <<>>} /\ UNCHANGED dbSchedule
    BY <1>13 DEF Boot, disk
  <2>2. schedule' \in Seq(Span) /\ dbSchedule' \in Seq(Span)
    <3>1. <<>> \in Seq(Span)
      OBVIOUS
    <3>2. dbSchedule' = dbSchedule /\ schedule' \in {dbSchedule, <<>>}
      BY <2>1
    <3>3. CASE schedule' = <<>>
      BY <3>1, <3>2, <3>3
    <3>4. CASE schedule' = dbSchedule
      BY <3>2, <3>4
    <3> QED BY <3>2, <3>3, <3>4
  <2>3. ret' = NoSpan /\ current' = NoSpan
    BY <1>13 DEF Boot, Begin
  <2> QED BY <1>0, <2>2, <2>3
<1> QED BY <1>1, <1>2, <1>3, <1>4, <1>5, <1>6, <1>7, <1>8, <1>9, <1>10, <1>11, <1>12, <1>13, Steps

\* What looks like the entry in current_schedule is over.
Over == \A i \in DOMAIN schedule : SameEntry(current, schedule[i]) => schedule[i].end <= now

\* An entry that begins has begun by the clock, and leads to a recording or a
\* failed send; from then on it is recorded until it is over.
EntryKept ==
  /\ pc \in {"loop", "epg"} => task = "idle"
  /\ pc \in {"save_schedule", "set_program", "split?"} => task # "entry"
  /\ task = "entry" =>
       ret.start <= now /\ (pc = "save_status" => status.recording \/ faults["send"] > 0)
  /\ task # "entry" /\ pc # "down" /\ current # NoSpan /\ ~withdrawn /\ faults["send"] = 0 =>
       current.start <= now /\ ((status.recording /\ task # "end") \/ Over)

\* No entry is under way at the start.
LEMMA EntryInit == Init => EntryKept
BY DEF Init, EntryKept

\* A call or send of a task that leaves the schedule and the clock alone.
LEMMA EntrySame ==
  ASSUME Shape, EntryKept, pc # "down",
         UNCHANGED <<task, ret, schedule, current, now, withdrawn>>,
         faults'["send"] >= faults["send"], faults'["send"] \in Nat,
         pc' \notin {"loop", "epg", "save_schedule", "set_program", "split?"},
         pc' = "save_status" /\ task = "entry" => status'.recording \/ faults'["send"] > 0,
         \/ faults'["send"] > 0
         \/ (status.recording /\ task # "end") => (status'.recording /\ task # "end")
  PROVE  EntryKept'
<1>1. faults["send"] \in Nat
  BY DEF Shape, Fault
<1>2. Over' = Over
  BY DEF Over, SameEntry
<1> QED BY <1>1, <1>2 DEF EntryKept

\* An entry that begins is recorded until it is over.
LEMMA EntryKeptStep ==
  ASSUME Shape, Named, Scheduled, EntryKept, Next
  PROVE  EntryKept'
<1>0. /\ faults \in [Fault -> Nat] /\ faults["send"] \in Nat /\ now \in Nat
      /\ StatusShape(status) /\ schedule \in Seq(Span) /\ current \in Span /\ ret \in Span
      /\ current.start \in Nat /\ ret.start \in Nat
  BY DEF Shape, Scheduled, Fault, Span
<1>00. \A f \in Fault : Occurs(f) => faults'["send"] >= faults["send"] /\ faults'["send"] \in Nat
  BY <1>0, FaultOccurs DEF Fault
<1>f. Occurs("send") => faults'["send"] > 0
  BY <1>0, FaultOccurs DEF Fault
<1>s. UNCHANGED faults => faults'["send"] >= faults["send"] /\ faults'["send"] \in Nat
  BY <1>0
<1>1. CASE EndAudio \/ EndLog
  BY <1>1, <1>00, <1>s, EntrySame DEF EndAudio, EndLog, memory, Goto, Fault
<1>2. CASE CloseLog \/ SaveLog
  <2>1. status'.recording = status.recording
    BY <1>0, <1>2 DEF CloseLog, SaveLog, StatusShape
  <2>2. faults'["send"] >= faults["send"] /\ faults'["send"] \in Nat
    BY <1>2, <1>00, <1>s DEF CloseLog, SaveLog, Write, Fault
  <2> QED BY <1>2, <2>1, <2>2, EntrySame DEF CloseLog, SaveLog, Goto, AfterLog, world
<1>3. CASE StartLog \/ StartAudio
  <2>2. faults'["send"] >= faults["send"] /\ faults'["send"] \in Nat
    BY <1>3, <1>00, <1>s DEF StartLog, StartAudio, Fault
  <2> QED BY <1>3, <2>2, EntrySame DEF StartLog, StartAudio, Goto, AfterLog, memory
<1>4. CASE CloseAv
  <2>1. status'.recording = (status.recording /\ task # "end")
    BY <1>0, <1>4 DEF CloseAv, StatusShape
  <2>2. faults'["send"] >= faults["send"] /\ faults'["send"] \in Nat
    BY <1>4, <1>00, <1>s DEF CloseAv, Write, Fault
  <2> QED BY <1>4, <2>1, <2>2, EntrySame DEF CloseAv, Goto, AfterCloseAv, world
<1>5. CASE StartAv
  <2>1. \/ UNCHANGED <<status, faults>> /\ pc' = "save_av"
        \/ faults'["send"] > 0
    BY <1>5, <1>f DEF StartAv
  <2>2. faults'["send"] >= faults["send"] /\ faults'["send"] \in Nat
    BY <1>5, <1>00, <1>s DEF StartAv, Fault
  <2>3. /\ pc = "start_av" /\ pc' \in {"save_av", "save_status"}
        /\ UNCHANGED <<task, ret, schedule, current, now, withdrawn>>
    BY <1>5 DEF StartAv, Goto
  <2> QED BY <2>1, <2>2, <2>3, EntrySame
<1>6. CASE SaveAv
  <2>1. status'.recording = TRUE /\ task # "end" /\ (pc' = "set_program" => task = "split")
    BY <1>0, <1>6 DEF SaveAv, StatusShape, Named, Goto
  <2>2. /\ pc = "save_av" /\ pc' \in {"set_program", "save_status"}
        /\ UNCHANGED <<task, ret, schedule, current, now, withdrawn>>
    BY <1>6 DEF SaveAv, Goto, world
  <2>3. faults'["send"] >= faults["send"] /\ faults'["send"] \in Nat
    BY <1>6, <1>00, <1>s DEF SaveAv, Write, Fault
  <2>4. CASE task = "entry"
    BY <2>1, <2>2, <2>4 DEF EntryKept
  <2>5. CASE task # "entry"
    <3>1. current # NoSpan /\ ~withdrawn /\ faults["send"] = 0 => current.start <= now
      BY <2>2, <2>5 DEF EntryKept
    <3> QED BY <1>0, <2>1, <2>2, <2>3, <2>5, <3>1 DEF EntryKept
  <2> QED BY <2>4, <2>5
<1>7. CASE SetProgram
  <2>1. status'.recording = status.recording
    BY <1>0, <1>7 DEF SetProgram, StatusShape
  <2>2. faults'["send"] >= faults["send"] /\ faults'["send"] \in Nat
    BY <1>7, <1>00, <1>s DEF SetProgram, Write, Fault
  <2>3. task # "entry"
    BY <1>7 DEF SetProgram, EntryKept
  <2> QED BY <1>7, <2>1, <2>2, <2>3, EntrySame DEF SetProgram, Goto, world
<1>8. CASE EndAv
  BY <1>8, <1>00, <1>s, EntrySame DEF EndAv, Goto, memory, Fault
<1>9. CASE SaveStatus
  <2>1. /\ pc = "save_status" /\ pc' \in {"split?", "epg", "loop"}
        /\ UNCHANGED <<status, schedule, now, withdrawn>>
        /\ current' = IF task = "entry" THEN ret ELSE current
    BY <1>9 DEF SaveStatus, world, Begin, Idle
  <2>2. task' \in {"idle", "update"} /\ (pc' \in {"loop", "epg"} => task' = "idle")
    BY <1>9 DEF SaveStatus, Begin, Idle
  <2>3. faults'["send"] >= faults["send"] /\ faults'["send"] \in Nat
    BY <1>9, <1>00, <1>s DEF SaveStatus, Write, Fault
  <2>4. ASSUME faults'["send"] = 0, current' # NoSpan, ~withdrawn'
        PROVE  current'.start <= now' /\ (status'.recording \/ Over')
    <3>1. faults["send"] = 0 /\ ~withdrawn
      BY <1>0, <2>1, <2>3, <2>4
    <3>2. CASE task = "entry"
      BY <2>1, <3>1, <3>2 DEF EntryKept
    <3>3. CASE task # "entry"
      <4>1. current' = current /\ current.start <= now /\ (status.recording \/ Over)
        BY <2>1, <2>4, <3>1, <3>3 DEF EntryKept
      <4>2. Over' = Over
        BY <2>1, <4>1 DEF Over, SameEntry
      <4> QED BY <2>1, <4>1, <4>2
    <3> QED BY <3>2, <3>3
  <2> QED BY <2>1, <2>2, <2>4 DEF EntryKept
<1>10. CASE ReceiveReport \/ \E c \in Channel \cup {0} : EpgArrives(c)
  <2>1. /\ UNCHANGED <<pc, task, ret, status, schedule, current, now, withdrawn>>
    BY <1>10 DEF ReceiveReport, EpgArrives, control, memory
  <2>2. faults'["send"] >= faults["send"] /\ faults'["send"] \in Nat
    BY <1>10, <1>00, <1>s DEF ReceiveReport, EpgArrives, Write, Fault
  <2>3. Over' = Over
    BY <2>1 DEF Over, SameEntry
  <2> QED BY <1>0, <2>1, <2>2, <2>3 DEF EntryKept
<1>11. CASE SaveEntry
  <2>1. /\ pc = "save_schedule" /\ UNCHANGED <<status, schedule, current, now, withdrawn>>
        /\ \/ UNCHANGED <<pc, task, ret>>
           \/ pc' = "loop" /\ task' = "idle"
    BY <1>11 DEF SaveEntry, memory, world, control, Idle, Begin
  <2>2. faults'["send"] >= faults["send"] /\ faults'["send"] \in Nat
    BY <1>11, <1>00, <1>s DEF SaveEntry, Fault
  <2>3. Over' = Over
    BY <2>1 DEF Over, SameEntry
  <2> QED BY <1>0, <2>1, <2>2, <2>3 DEF EntryKept
<1>12. CASE CheckSchedule
  <2>1. /\ pc = "loop" /\ task = "idle" /\ UNCHANGED <<schedule, current, now, faults>>
        /\ status'.recording = status.recording
    BY <1>0, <1>12 DEF CheckSchedule, StartEntry, EndEntry, NothingNew, world, Tuned, StatusShape,
                       EntryKept
  <2>2. Over' = Over
    BY <2>1 DEF Over, SameEntry
  <2>3. CASE StartEntry
    <3>1. /\ pc' \in {"close_av", "end_audio"} /\ task' = "entry" /\ ret' = Found
      BY <2>3 DEF StartEntry, Begin
    <3>2. Found.start <= now
      BY <1>0, <2>3, FoundCovers DEF StartEntry, Covers
    <3> QED BY <2>1, <3>1, <3>2 DEF EntryKept
  <2>4. CASE EndEntry
    <3>1. pc' = "end_av" /\ task' = "end" /\ Covering = {} /\ withdrawn' = withdrawn
      BY <2>4 DEF EndEntry, Begin
    <3>2. ASSUME current.start <= now PROVE Over
      <4>1. SUFFICES ASSUME NEW i \in DOMAIN schedule, SameEntry(current, schedule[i])
                     PROVE  schedule[i].end <= now
        BY DEF Over
      <4>2. schedule[i].end \in Nat /\ schedule[i].start \in Nat
        BY <1>0, Ends
      <4>4. schedule[i].start <= now
        BY <3>2, <4>1 DEF SameEntry
      <4>3. ~Covers(schedule[i])
        BY <3>1 DEF Covering
      <4> QED BY <1>0, <4>2, <4>3, <4>4 DEF Covers
    <3> QED BY <2>1, <2>2, <3>1, <3>2 DEF EntryKept
  <2>5. CASE NothingNew
    <3>1. pc' = "epg" /\ task' = task /\ withdrawn' = withdrawn
      BY <2>5 DEF NothingNew, Goto
    <3> QED BY <2>1, <2>2, <3>1 DEF EntryKept
  <2> QED BY <1>12, <2>3, <2>4, <2>5 DEF CheckSchedule
<1>13. CASE CheckEpg \/ CheckSplit
  <2>1. /\ pc \in {"epg", "split?"} /\ task # "entry"
        /\ task' \in {"idle", "update", "split"} /\ (pc' \in {"loop", "epg"} => task' = "idle")
        /\ UNCHANGED <<schedule, current, now, faults, withdrawn, status>>
    BY <1>13 DEF CheckEpg, CheckSplit, Begin, Idle, memory, world, EntryKept
  <2>2. Over' = Over
    BY <2>1 DEF Over, SameEntry
  <2> QED BY <2>1, <2>2 DEF EntryKept
<1>14. CASE \E c \in Channel : ChannelChange(c)
  <2>1. /\ pc = "loop" /\ task = "idle" /\ pc' \in {"save_status", "end_audio"} /\ task' = "message"
        /\ UNCHANGED <<schedule, current, now, faults, withdrawn>>
        /\ status'.recording = status.recording
    BY <1>0, <1>14 DEF ChannelChange, Begin, Tuned, StatusShape, world, EntryKept
  <2>2. Over' = Over
    BY <2>1 DEF Over, SameEntry
  <2> QED BY <2>1, <2>2 DEF EntryKept
<1>15. CASE (\E table \in Tables : ReceiveSchedule(table)) \/ (\E e \in Span : EditSchedule(e))
  <2>1. /\ pc = "loop" /\ task = "idle" /\ UNCHANGED <<status, current, now>>
        /\ withdrawn' = (withdrawn \/ (current # NoSpan /\
             ~((\E i \in DOMAIN schedule' : SameEntry(schedule'[i], current)) /\ status.recording)))
    BY <1>15 DEF ReceiveSchedule, EditSchedule, Withdraw, world, EntryKept
  <2>2. pc' \in {"loop", "save_schedule"} /\ task' \in {"idle", "message"}
        /\ (pc' = "loop" => task' = "idle")
    BY <1>15, <2>1 DEF ReceiveSchedule, EditSchedule, Begin, control
  <2>3. faults'["send"] >= faults["send"] /\ faults'["send"] \in Nat
    BY <1>15, <1>00, <1>s DEF ReceiveSchedule, EditSchedule, Fault
  <2>4. current # NoSpan /\ ~withdrawn' => status.recording /\ ~withdrawn
    BY <2>1
  <2> QED BY <1>0, <2>1, <2>2, <2>3, <2>4 DEF EntryKept
<1>16. CASE Stop \/ Crash
  BY <1>16 DEF Stop, Crash, GoesDown, Idle, Begin, EntryKept
<1>17. CASE Tick
  <2>1. /\ now' = now + 1
        /\ UNCHANGED <<pc, task, ret, status, schedule, current, faults, withdrawn>>
    BY <1>17 DEF Tick, control, memory
  <2>2. Over => Over'
    <3>1. \A i \in DOMAIN schedule : schedule[i].end \in Nat
      BY <1>0, Ends
    <3> QED BY <1>0, <2>1, <3>1 DEF Over, SameEntry
  <2> QED BY <1>0, <2>1, <2>2 DEF EntryKept
<1>18. CASE Boot
  BY <1>18 DEF Boot, Begin, EntryKept
<1> QED
  BY <1>1, <1>2, <1>3, <1>4, <1>5, <1>6, <1>7, <1>8, <1>9, <1>10, <1>11, <1>12, <1>13, <1>14,
     <1>15, <1>16, <1>17, <1>18, Steps

-----------------------------------------------------------------------------
(* The specification                                                          *)

CInv ==
  /\ Shape /\ Named /\ Remembered /\ AgreesAv /\ AgreesLog /\ Described /\ Own /\ Orphans
  /\ Scheduled /\ EntryKept

\* The inductive invariant holds in every state of every behaviour.
LEMMA CInvAlways == Spec => []CInv
<1>1. Init => CInv
  BY ShapeInit, NamedInit, RememberedInit, AgreesAvInit, AgreesLogInit, DescribedInit, OwnInit,
     OrphansInit, ScheduledInit, EntryInit DEF CInv
<1>2. ASSUME CInv, [Next]_vars PROVE CInv'
  <2>1. CASE Next
    BY <1>2, <2>1, ShapeKept, NamedKept, RememberedKept, AgreesAvKept, AgreesLogKept, DescribedKept,
       OwnKept, OrphansKept, ScheduledKept, EntryKeptStep DEF CInv
  <2>2. CASE UNCHANGED vars
    <3>1. /\ UNCHANGED <<pc, task, ret, list, status, schedule, current, program>>
          /\ UNCHANGED <<dbStatus, dbSchedule, playback, logs, told, reports, now, astray, faults, withdrawn>>
      BY <2>2 DEF vars, control, memory, disk, world
    <3>2. (Shape /\ Named /\ Remembered)'
      BY <1>2, <3>1 DEF CInv, Shape, Named, Remembered
    <3>3. (AgreesAv /\ AgreesLog)'
      BY <1>2, <3>1 DEF CInv, AgreesAv, AgreesLog, Open
    <3>4. (Described /\ Own)'
      BY <1>2, <3>1 DEF CInv, Described, Own, OwnLoudness
    <3>5. Orphans'
      BY <1>2, <3>1 DEF CInv, Orphans
    <3>6. (Scheduled /\ EntryKept)'
      BY <1>2, <3>1 DEF CInv, Scheduled, EntryKept, Over, SameEntry
    <3> QED BY <3>2, <3>3, <3>4, <3>5, <3>6 DEF CInv
  <2> QED BY <1>2, <2>1, <2>2
<1> QED BY <1>1, <1>2, PTL DEF Spec

\* Whatever the schedules, the guide and the faults, the status says recording
\* exactly when it names one, in memory at the loop head and in the database
\* (av_record_start, save_playback_list_data, update_playback_list_end_data).
THEOREM NamedAlways == Spec => []RecordingNamed
<1>1. CInv => RecordingNamed
  BY DEF CInv, Named, RecordingNamed
<1> QED BY <1>1, CInvAlways, PTL

\* At the loop head nothing is unsaved (save_status_data, save_schedule_data).
THEOREM DurableAlways == Spec => []Durable
<1>1. CInv => Durable
  BY DEF CInv, Remembered, Resting, Durable
<1> QED BY <1>1, CInvAlways, PTL

\* At the loop head monitor and controller agree on the recording and on the
\* log, each with its open row (main: the commands, and what is saved of them).
THEOREM Agreed == Spec => []MonitorAgrees
<1>1. CInv => MonitorAgrees
  BY DEF CInv, AgreesAv, AgreesLog, ChangesLog, MonitorAgrees
<1> QED BY <1>1, CInvAlways, PTL

\* The row under way has a program when the status says so
\* (update_playback_list_program_data, program_data_updated).
THEOREM DescribedAlways == Spec => []ProgramDescribed
<1>1. CInv => ProgramDescribed
  BY DEF CInv, Named, Described, ProgramDescribed
<1> QED BY <1>1, CInvAlways, PTL

\* No report is put to another recording than the one it measured
\* (main: LOUDNESS reports, update_playback_list_loudness_data).
THEOREM LoudnessOwn == Spec => []LoudnessOfItsOwn
<1>1. CInv => LoudnessOfItsOwn
  BY DEF CInv, Named, Own, OwnLoudness, LoudnessOfItsOwn
<1> QED BY <1>1, CInvAlways, PTL

\* No row stays open but one for each crash and each database call that failed
\* (update_playback_list_end_data, update_log_list_end_data and the startup path).
THEOREM OrphansAlways == Spec => []OrphansAccounted
<1>1. ASSUME CInv PROVE OrphansAccounted
  <2>1. SUFFICES ASSUME pc = "loop" PROVE OrphansAccounted
    BY DEF OrphansAccounted
  <2>2. /\ Accounted("loop", playback, status.av, dbStatus.av, faults)
        /\ Accounted("loop", logs, status.log, dbStatus.log, faults)
        /\ faults \in [Fault -> Nat]
    BY <1>1, <2>1 DEF CInv, Orphans, Shape
  <2>3. /\ Cardinality(Open(playback) \ {status.av}) \in Nat
        /\ Cardinality(Open(logs) \ {status.log}) \in Nat /\ Losses(faults) \in Nat
    BY <2>2, OneLess, LossesType DEF Accounted
  <2>4. /\ Cardinality(Open(playback) \ {status.av}) <= Losses(faults)
        /\ Cardinality(Open(logs) \ {status.log}) <= Losses(faults)
    BY <2>2, <2>3 DEF Accounted
  <2> QED BY <2>4 DEF OrphansAccounted, Losses
<1> QED BY <1>1, CInvAlways, PTL

\* Once the schedule has been looked at, the entry that covers the time is being
\* recorded, whatever was sent, edited, lost or started again before, unless a
\* send failed or the entry was withdrawn (main: get_current_schedule, and what
\* current_schedule is compared with).
THEOREM EntryRecordedAlways == Spec => []EntryRecorded
<1>1. ASSUME CInv PROVE EntryRecorded
  <2>1. SUFFICES ASSUME pc = "epg", Covering # {}, current # NoSpan, SameEntry(current, Found),
                        ~(faults["send"] > 0), ~withdrawn
                 PROVE  status.recording
    BY DEF EntryRecorded
  <2>2. schedule \in Seq(Span) /\ now \in Nat /\ faults["send"] = 0
    BY <1>1, <2>1 DEF CInv, Scheduled, Shape, Fault
  <2>3. PICK i \in DOMAIN schedule : Found = schedule[i] /\ Covers(schedule[i])
    BY <2>1, <2>2, FoundCovers
  <2>4. schedule[i].end \in Nat /\ now < schedule[i].end
    BY <2>2, <2>3, Ends DEF Covers
  <2>5. ~Over
    BY <2>1, <2>2, <2>3, <2>4 DEF Over
  <2> QED BY <1>1, <2>1, <2>2, <2>5 DEF CInv, EntryKept
<1> QED BY <1>1, CInvAlways, PTL
=============================================================================
