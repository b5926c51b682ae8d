---------------------------- MODULE MonitorProofs ----------------------------
(* Theorems about Monitor, for every set of names and commands and every     *)
(* capacity of the FIFO.                                                     *)
EXTENDS Monitor, TLAPS

\* The fields of a command are what main.c reads of a message.
LEMMA CommandFields ==
  ASSUME NEW c \in Command
  PROVE  /\ c.op \in {"start", "end", "reset", "quit"}
         /\ c.on \in Kind \cup {"stream", "meter"}
         /\ c.name \in Name \cup {NoName}
BY DEF Command

\* What main is left with after a handler is a command too.
LEMMA NoCommandType == NoCommand \in Command
BY DEF NoCommand, Command

\* Receiving a command leaves main with a command and at a label of its own.
LEMMA ReceiveType ==
  ASSUME TypeOK, Receive
  PROVE  cmd' \in Command /\ mainPc' \in MainPc /\ streaming' \in BOOLEAN /\ endFlag' \in BOOLEAN
<1> USE MonitorAssumption, NoCommandType DEF TypeOK, ThreadPosition, MainPc, HandlerDone, Handle
<1>1. CASE HandlerDone("meter") /\ UNCHANGED <<streaming, endFlag>>
  BY <1>1
<1>2. ASSUME NEW c \in Commands,
             StreamCommand(c) \/ SessionCommand(c) \/ ResetCommand(c) \/ QuitCommand(c)
      PROVE  cmd' \in Command /\ mainPc' \in MainPc /\ streaming' \in BOOLEAN /\ endFlag' \in BOOLEAN
  <2>1. c \in Command BY MonitorAssumption
  <2>2. CASE StreamCommand(c) BY <2>2 DEF StreamCommand
  <2>3. CASE SessionCommand(c) BY <2>1, <2>3 DEF SessionCommand
  <2>4. CASE ResetCommand(c) BY <2>1, <2>4 DEF ResetCommand
  <2>5. CASE QuitCommand(c) BY <2>5 DEF QuitCommand
  <2> QED BY <1>2, <2>2, <2>3, <2>4, <2>5
<1> QED BY <1>1, <1>2 DEF Receive

\* Every step keeps every variable in its type (the state of main.c).
LEMMA TypeStep == TypeOK /\ [Next]_vars => TypeOK'
<1> SUFFICES ASSUME TypeOK, [Next]_vars PROVE TypeOK'
  OBVIOUS
<1> USE MonitorAssumption DEF TypeOK, ThreadPosition, MainPc, AudioPc, VideoPc, Thread,
      threads, session, pipe
<1>1. CASE Receive BY <1>1, ReceiveType DEF Receive
<1>2. CASE EndLock BY <1>2 DEF EndLock, Lock
<1>3. CASE EndUninit
  <2>1. report' \in [name : Name \cup {NoName}, frames : Frames]
    BY <1>3 DEF EndUninit, AvReport, Kind
  <2>2. flag' \in [Kind -> BOOLEAN] /\ ctx' \in [Analyzed -> {"live", "none"}]
    BY <1>3 DEF EndUninit
  <2> QED BY <1>3, <2>1, <2>2 DEF EndUninit
<1>4. CASE EndClose BY <1>4, NoCommandType DEF EndClose, Unlock, HandlerDone
<1>5. CASE Open
  <2>1. name' \in [Kind -> Name \cup {NoName}] /\ file' \in [WithFile -> BOOLEAN]
    BY <1>5, CommandFields DEF Open
  <2> QED BY <1>5, <2>1, NoCommandType DEF Open, HandlerDone
<1>6. CASE StartLock BY <1>6 DEF StartLock, Lock
<1>7. CASE StartSession
  <2>1. NoFrames \in Frames BY DEF NoFrames, Frames
  <2>2. fed' \in [Kind -> Frames] BY <1>7, <2>1 DEF StartSession
  <2>3. flag' \in [Kind -> BOOLEAN] /\ ctx' \in [Analyzed -> {"live", "none"}]
    BY <1>7 DEF StartSession
  <2> QED BY <1>7, <2>2, <2>3, NoCommandType DEF StartSession, Unlock, HandlerDone
<1>30. CASE StartFails
  <2>1. file' \in [WithFile -> BOOLEAN] BY <1>30 DEF StartFails
  <2>2. ctx' \in [Analyzed -> {"live", "none"}] BY <1>30 DEF StartFails
  <2> QED BY <1>30, <2>1, <2>2, NoCommandType DEF StartFails, Unlock, HandlerDone
<1>8. CASE ResetLock BY <1>8 DEF ResetLock, Lock
<1>9. CASE ResetUninit BY <1>9 DEF ResetUninit
<1>10. CASE ResetInit
  <2>1. ctx' \in [Analyzed -> {"live", "none"}] BY <1>10 DEF ResetInit
  <2> QED BY <1>10, <2>1, NoCommandType DEF ResetInit, Unlock, HandlerDone
<1>11. CASE MeterLock \/ MeterSend \/ LogLock \/ LogPrint
  BY <1>11 DEF MeterLock, MeterSend, LogLock, LogPrint, Lock, Unlock
<1>12. CASE ReadFifo BY <1>12 DEF ReadFifo
<1>13. CASE LoopExit \/ JoinAudio \/ Exit BY <1>13 DEF LoopExit, JoinAudio, Exit
<1>14. CASE JoinVideo BY <1>14 DEF JoinVideo
<1>15. ASSUME NEW t \in Thread, WriteFifo(t)
       PROVE  fifo' \in 0..FifoCap /\ todo' \in [Thread -> 0..PacketMax]
  BY <1>15 DEF WriteFifo
<1>16. CASE Trailer BY <1>15, <1>16 DEF Trailer
<1>17. CASE AudioInit BY <1>17 DEF AudioInit
<1>29. CASE AudioExit \/ AudioLock BY <1>29 DEF AudioExit, AudioLock, Lock
<1>18. CASE AudioCapture BY <1>18 DEF AudioCapture
<1>19. CASE AudioMux BY <1>19 DEF AudioMux
<1>20. CASE AudioWrite BY <1>15, <1>20 DEF AudioWrite
<1>21. ASSUME AudioAdvance PROVE audioOn' \in Mutex /\ audioPc' \in AudioPc
  BY <1>21 DEF AudioAdvance, NextOn, Mutex, Kind
<1>22. CASE AudioMuxed BY <1>21, <1>22 DEF AudioMuxed, Unlock
<1>23. CASE AudioFeed
  <2>1. fed' \in [Kind -> Frames]
    BY <1>23 DEF AudioFeed, Frames
  <2> QED BY <1>21, <1>23, <2>1 DEF AudioFeed, Unlock
<1>24. CASE VideoInit BY <1>24 DEF VideoInit
<1>31. CASE VideoCapture \/ VideoLock BY <1>31 DEF VideoCapture, VideoLock, Lock
<1>25. CASE VideoMux BY <1>25 DEF VideoMux
<1>26. CASE VideoWrite BY <1>15, <1>26 DEF VideoWrite
<1>27. CASE VideoMuxed BY <1>27 DEF VideoMuxed, Unlock
<1>28. CASE UNCHANGED vars BY <1>28 DEF vars
<1> QED
  BY <1>1, <1>2, <1>3, <1>4, <1>5, <1>6, <1>7, <1>8, <1>9, <1>10, <1>11, <1>12, <1>13, <1>14,
     <1>16, <1>17, <1>18, <1>19, <1>20, <1>22, <1>23, <1>24, <1>25, <1>26, <1>27, <1>28, <1>29,
     <1>30, <1>31
     DEF Next, MainStep, AudioStep, VideoStep, Finished, vars

\* The variables have their types when main.c enters its loop.
LEMMA InitType == Init => TypeOK
<1> SUFFICES ASSUME Init PROVE TypeOK
  OBVIOUS
<1> USE MonitorAssumption, NoCommandType DEF Init
<1>1. ThreadPosition
  BY DEF ThreadPosition, MainPc, AudioPc, VideoPc, Mutex, Thread
<1>2. NoFrames \in Frames BY DEF NoFrames, Frames
<1>3. /\ flag \in [Kind -> BOOLEAN] /\ ctx \in [Analyzed -> {"live", "none"}]
      /\ file \in [WithFile -> BOOLEAN] /\ name \in [Kind -> Name \cup {NoName}]
      /\ fed \in [Kind -> Frames] /\ todo \in [Thread -> 0..PacketMax]
  BY <1>2
<1>4. report \in [name : Name \cup {NoName}, frames : Frames]
  BY <1>2 DEF NoReport
<1>5. streaming = FALSE /\ endFlag = FALSE /\ fifo = 0 /\ frame = 0
  BY Zenon
<1> HIDE DEF Init
<1>6. fifo \in 0..FifoCap /\ frame \in 0..MaxFrame
  BY <1>5, SMT
<1>7. streaming \in BOOLEAN /\ endFlag \in BOOLEAN
  BY <1>5, Zenon
<1> QED BY <1>6, <1>7, Zenon, <1>1, <1>3, <1>4, <1>5 DEF TypeOK

\* Every variable of the monitor has its type in every reachable state, and the
\* FIFO never holds more than its capacity (the state of src/monitor/main.c).
THEOREM TypeCorrect == Spec => []TypeOK
BY InitType, TypeStep, PTL DEF Spec

-----------------------------------------------------------------------------
\* What a command does to main: where it goes and what it leaves in cmd.
LEMMA ReceiveSplit ==
  ASSUME TypeOK, Receive
  PROVE  /\ mainPc = "receive"
         /\ \/ mainPc' \in {"meter", "receive", "reset_lock"}
            \/ mainPc' = "end_lock" /\ cmd'.on \in Kind /\ flag[cmd'.on]
            \/ mainPc' = "open" /\ cmd'.on \in Kind /\ ~flag[cmd'.on]
<1> USE DEF HandlerDone, Handle
<1>1. CASE HandlerDone("meter") BY <1>1 DEF Receive
<1>2. CASE \E c \in Commands :
             StreamCommand(c) \/ SessionCommand(c) \/ ResetCommand(c) \/ QuitCommand(c)
  <2> PICK c \in Commands :
             StreamCommand(c) \/ SessionCommand(c) \/ ResetCommand(c) \/ QuitCommand(c)
    BY <1>2
  <2>1. CASE StreamCommand(c) BY <2>1 DEF StreamCommand, Receive
  <2>2. CASE SessionCommand(c) BY <2>2 DEF SessionCommand, Receive
  <2>3. CASE ResetCommand(c) BY <2>3 DEF ResetCommand, Receive
  <2>4. CASE QuitCommand(c) BY <2>4 DEF QuitCommand, Receive
  <2> QED BY <2>1, <2>2, <2>3, <2>4
<1> QED BY <1>1, <1>2 DEF Receive

\* Every step keeps the ownership of the mutexes what the threads' positions
\* say it is, and lets a thread owe data to the FIFO only while it writes.
LEMMA LockStep == TypeOK /\ LockInv /\ PipeInv /\ [Next]_vars => LockInv' /\ PipeInv'
<1> SUFFICES ASSUME TypeOK, LockInv, PipeInv, [Next]_vars PROVE LockInv' /\ PipeInv'
  OBVIOUS
<1> USE DEF LockInv, PipeInv, MainHolds, AudioHolds, VideoHolds, EndPc, StartPc,
      threads, session, pipe
<1>0. /\ mutex \in [Mutex -> Thread \cup {"none"}]
      /\ todo \in [Thread -> 0..PacketMax]
      /\ Kind \subseteq Mutex /\ "meter" \in Mutex /\ "recorder" \in Mutex /\ "log" \in Kind
      /\ "recorder" \notin Kind /\ "meter" \notin Kind
      /\ Thread = {"main", "audio", "video"}
      /\ audioOn \in Mutex /\ audioPc \in AudioPc /\ videoPc \in VideoPc
  BY DEF TypeOK, ThreadPosition, Mutex, Kind, Thread
<1>1. CASE Receive BY <1>0, <1>1, ReceiveSplit DEF Receive
<1>2. CASE EndLock BY <1>0, <1>2 DEF EndLock, Lock
<1>3. CASE EndUninit BY <1>0, <1>3 DEF EndUninit
<1>4. CASE EndClose BY <1>0, <1>4 DEF EndClose, Unlock, HandlerDone
<1>5. CASE Open BY <1>0, <1>5 DEF Open, HandlerDone
<1>6. CASE StartLock BY <1>0, <1>6 DEF StartLock, Lock
<1>7. CASE StartSession \/ StartFails BY <1>0, <1>7 DEF StartSession, StartFails, Unlock, HandlerDone
<1>8. CASE ResetLock BY <1>0, <1>8 DEF ResetLock, Lock
<1>9. CASE ResetUninit \/ ResetInit BY <1>0, <1>9 DEF ResetUninit, ResetInit, Unlock, HandlerDone
<1>10. CASE MeterLock BY <1>0, <1>10 DEF MeterLock, Lock
<1>11. CASE MeterSend BY <1>0, <1>11 DEF MeterSend, Unlock
<1>12. CASE LogLock BY <1>0, <1>12 DEF LogLock, Lock
<1>13. CASE LogPrint BY <1>0, <1>13 DEF LogPrint, Unlock
<1>14. CASE ReadFifo \/ LoopExit \/ JoinAudio \/ Exit
  BY <1>0, <1>14 DEF ReadFifo, LoopExit, JoinAudio, Exit
<1>15. CASE JoinVideo BY <1>0, <1>15 DEF JoinVideo
<1>16. CASE Trailer BY <1>0, <1>16 DEF Trailer, WriteFifo
<1>17. CASE AudioInit \/ AudioCapture \/ AudioExit
  BY <1>0, <1>17 DEF AudioInit, AudioCapture, AudioExit
<1>18. CASE AudioLock BY <1>0, <1>18 DEF AudioLock, Lock
<1>19. CASE AudioMux BY <1>0, <1>19 DEF AudioMux
<1>20. CASE AudioWrite BY <1>0, <1>20 DEF AudioWrite, WriteFifo
<1>21. CASE AudioMuxed BY <1>0, <1>21 DEF AudioMuxed, Unlock, AudioAdvance, NextOn
<1>22. CASE AudioFeed BY <1>0, <1>22 DEF AudioFeed, Unlock, AudioAdvance, NextOn, Mutex, Kind
<1>23. CASE VideoInit \/ VideoCapture BY <1>0, <1>23 DEF VideoInit, VideoCapture
<1>24. CASE VideoLock BY <1>0, <1>24 DEF VideoLock, Lock
<1>25. CASE VideoMux BY <1>0, <1>25 DEF VideoMux
<1>26. CASE VideoWrite BY <1>0, <1>26 DEF VideoWrite, WriteFifo
<1>27. CASE VideoMuxed BY <1>0, <1>27 DEF VideoMuxed, Unlock
<1>28. CASE UNCHANGED vars BY <1>28 DEF vars
<1> QED
  BY <1>1, <1>2, <1>3, <1>4, <1>5, <1>6, <1>7, <1>8, <1>9, <1>10, <1>11, <1>12, <1>13, <1>14,
     <1>15, <1>16, <1>17, <1>18, <1>19, <1>20, <1>21, <1>22, <1>23, <1>24, <1>25, <1>26, <1>27,
     <1>28 DEF Next, MainStep, AudioStep, VideoStep, Finished, vars

\* Every step keeps a session's flag, context, file and name in agreement.
LEMMA SessionStep == TypeOK /\ LockInv /\ SessionInv /\ [Next]_vars => SessionInv'
<1> SUFFICES ASSUME TypeOK, LockInv, SessionInv, [Next]_vars PROVE SessionInv'
  OBVIOUS
<1> USE DEF SessionInv, Starting, Ending, StartPc, threads, session, pipe
<1>0. /\ flag \in [Kind -> BOOLEAN] /\ ctx \in [Analyzed -> {"live", "none"}]
      /\ file \in [WithFile -> BOOLEAN] /\ name \in [Kind -> Name \cup {NoName}]
      /\ Kind = {"log", "audio", "av"} /\ WithFile = {"log", "av"} /\ Analyzed = {"meter"} \cup Kind
      /\ mainPc \in EndPc \cup StartPc => cmd.on \in Kind
      /\ cmd.name \in Name \cup {NoName}
  BY CommandFields DEF TypeOK, ThreadPosition, Kind, WithFile, Analyzed, LockInv
<1>1. CASE Receive BY <1>0, <1>1, ReceiveSplit DEF Receive
<1>2. CASE EndLock BY <1>0, <1>2 DEF EndLock
<1>3. CASE EndUninit BY <1>0, <1>3 DEF EndUninit, EndPc
<1>4. CASE EndClose BY <1>0, <1>4 DEF EndClose, HandlerDone, EndPc
<1>5. CASE Open
  <2>1. CASE mainPc' = "meter" /\ UNCHANGED <<flag, ctx, file>>
    BY <1>0, <1>5, <2>1 DEF Open
  <2>2. CASE mainPc' = "start_lock"
    <3>1. /\ cmd' = cmd /\ cmd.on \in Kind /\ name'[cmd.on] \in Name
          /\ UNCHANGED <<flag, ctx>> /\ mainPc = "open"
      BY <1>0, <1>5, <2>2 DEF Open, HandlerDone
    <3>2. \/ cmd.on \in WithFile /\ file' = [file EXCEPT ![cmd.on] = TRUE]
          \/ cmd.on = "audio" /\ file' = file
      BY <1>5, <2>2 DEF Open, HandlerDone
    <3>3. \A k \in WithFile : file'[k] = (k = cmd.on \/ file[k])
      <4>1. CASE cmd.on \in WithFile /\ file' = [file EXCEPT ![cmd.on] = TRUE]
        BY <1>0, <4>1, Zenon
      <4>2. CASE cmd.on = "audio" /\ file' = file
        <5>1. "audio" \notin WithFile BY <1>0
        <5> QED BY <4>2, <5>1
      <4> QED BY <3>2, <4>1, <4>2
    <3> QED BY <1>0, <2>2, <3>1, <3>3
  <2> QED BY <1>5, <2>1, <2>2 DEF Open, HandlerDone
<1>6. CASE StartLock BY <1>0, <1>6 DEF StartLock
<1>7. CASE StartSession BY <1>0, <1>7 DEF StartSession, HandlerDone
<1>8. CASE StartFails BY <1>0, <1>8 DEF StartFails, HandlerDone
<1>9. CASE ResetLock \/ ResetUninit \/ ResetInit
  BY <1>0, <1>9 DEF ResetLock, ResetUninit, ResetInit, HandlerDone
<1>10. CASE MeterLock \/ MeterSend \/ LogLock \/ LogPrint
  BY <1>0, <1>10 DEF MeterLock, MeterSend, LogLock, LogPrint
<1>11. CASE ReadFifo \/ LoopExit \/ JoinAudio \/ JoinVideo \/ Trailer \/ Exit
  BY <1>0, <1>11 DEF ReadFifo, LoopExit, JoinAudio, JoinVideo, Trailer, Exit
<1>12. CASE AudioStep \/ VideoStep \/ UNCHANGED vars
  <2>1. UNCHANGED <<mainPc, cmd, flag, ctx, file, name>>
    BY <1>12 DEF AudioStep, AudioInit, AudioCapture, AudioExit, AudioLock, AudioMux,
       AudioWrite, AudioMuxed, AudioFeed, VideoStep, VideoInit, VideoCapture, VideoLock,
       VideoMux, VideoWrite, VideoMuxed, vars
  <2> QED BY <2>1
<1> QED
  BY <1>1, <1>2, <1>3, <1>4, <1>5, <1>6, <1>7, <1>8, <1>9, <1>10, <1>11, <1>12
     DEF Next, MainStep, Finished, vars

\* Every step keeps the frames of a session under way up to date: it has taken
\* the last frame captured, or the audio thread is still on its way to it.
LEMMA FeedStep == TypeOK /\ LockInv /\ PipeInv /\ SessionInv /\ FeedInv /\ [Next]_vars => FeedInv'
<1> SUFFICES ASSUME TypeOK, LockInv, PipeInv, SessionInv, FeedInv, [Next]_vars PROVE FeedInv'
  OBVIOUS
<1> USE DEF FeedInv, Past, Active, threads, session, pipe
<1>0. /\ flag \in [Kind -> BOOLEAN] /\ ctx \in [Analyzed -> {"live", "none"}]
      /\ fed \in [Kind -> Frames] /\ frame \in Nat
      /\ Kind = {"log", "audio", "av"} /\ Analyzed = {"meter"} \cup Kind
      /\ mainPc \in EndPc \cup StartPc => cmd.on \in Kind
      /\ audioOn \in Mutex /\ Mutex = {"recorder", "meter"} \cup Kind
  BY MonitorAssumption DEF TypeOK, ThreadPosition, Kind, Mutex, Analyzed, LockInv
<1>1. CASE Receive \/ EndLock \/ Open \/ StartLock \/ ResetLock
  BY <1>0, <1>1 DEF Receive, EndLock, Open, StartLock, ResetLock
<1>2. CASE EndUninit BY <1>0, <1>2 DEF EndUninit, EndPc
<1>3. CASE EndClose BY <1>0, <1>3 DEF EndClose
<1>4. CASE StartSession BY <1>0, <1>4 DEF StartSession, StartPc
<1>5. CASE StartFails BY <1>0, <1>5 DEF StartFails
<1>6. CASE ResetUninit \/ ResetInit BY <1>0, <1>6 DEF ResetUninit, ResetInit
<1>7. CASE MeterLock \/ MeterSend \/ LogLock \/ LogPrint
  BY <1>0, <1>7 DEF MeterLock, MeterSend, LogLock, LogPrint
<1>8. CASE ReadFifo \/ LoopExit \/ JoinAudio \/ JoinVideo \/ Trailer \/ Exit
  BY <1>0, <1>8 DEF ReadFifo, LoopExit, JoinAudio, JoinVideo, Trailer, Exit
<1>9. CASE AudioInit \/ AudioExit \/ AudioLock \/ AudioMux \/ AudioWrite
  BY <1>0, <1>9 DEF AudioInit, AudioExit, AudioLock, AudioMux, AudioWrite
<1>10. CASE AudioCapture
  <2>1. audioOn = "recorder" /\ frame' = frame + 1 /\ audioPc = "capture" /\ audioPc' = "lock"
    BY <1>10 DEF AudioCapture, PipeInv
  <2> QED BY <1>0, <1>10, <2>1 DEF AudioCapture
<1>11. CASE AudioMuxed
  BY <1>0, <1>11 DEF AudioMuxed, AudioAdvance, NextOn, PipeInv
<1>12. CASE AudioFeed
  BY <1>0, <1>12 DEF AudioFeed, AudioAdvance, NextOn
<1>13. CASE VideoStep
  BY <1>0, <1>13 DEF VideoStep, VideoInit, VideoCapture, VideoLock, VideoMux, VideoWrite, VideoMuxed
<1>14. CASE UNCHANGED vars BY <1>14 DEF vars
<1> QED
  BY <1>1, <1>2, <1>3, <1>4, <1>5, <1>6, <1>7, <1>8, <1>9, <1>10, <1>11, <1>12, <1>13, <1>14
     DEF Next, MainStep, AudioStep, Finished, vars

\* The inductive invariant behind every safety theorem: mutexes, positions of
\* the threads, flags, contexts, files and frames of main.c belong together.
THEOREM Invariance == Spec => []IInv
<1>1. Init => IInv
  <2> SUFFICES ASSUME Init PROVE LockInv /\ PipeInv /\ SessionInv /\ FeedInv
    BY InitType DEF IInv
  <2>1. LockInv
    BY DEF Init, LockInv, MainHolds, AudioHolds, VideoHolds, EndPc, StartPc
  <2>2. PipeInv BY DEF Init, PipeInv, Thread
  <2>3. SessionInv
    BY DEF Init, SessionInv, Starting, Ending, StartPc, Kind, WithFile, Analyzed
  <2>4. FeedInv BY DEF Init, FeedInv, Active
  <2> QED BY <2>1, <2>2, <2>3, <2>4
<1>2. IInv /\ [Next]_vars => IInv'
  BY TypeStep, LockStep, SessionStep, FeedStep DEF IInv
<1> QED
  BY <1>1, <1>2, PTL DEF Spec

-----------------------------------------------------------------------------
\* No thread ever uses a context or a file that main has destroyed: main.c's
\* five mutexes are enough, whatever the commands and however the threads
\* interleave.
THEOREM Safe == Spec => []NoUseAfterDestroy
<1>1. IInv => NoUseAfterDestroy
  <2> SUFFICES ASSUME IInv PROVE NoUseAfterDestroy
    OBVIOUS
  <2> USE DEF IInv, LockInv, SessionInv, Ending, Starting
  <2>1. ASSUME audioPc = "use", audioOn \in Kind, flag[audioOn] PROVE ctx[audioOn] = "live"
    <3>1. mutex[audioOn] = "audio" BY <2>1 DEF AudioHolds, Mutex
    <3>2. ~Ending(audioOn) BY <3>1, <2>1 DEF MainHolds, Mutex
    <3> QED BY <2>1, <3>2
  <2>2. mainPc = "log_print" => ctx["log"] = "live" /\ file["log"]
    BY DEF Kind, WithFile
  <2>3. mainPc = "fifo" /\ flag["av"] => file["av"]
    BY DEF WithFile
  <2> QED BY <2>1, <2>2, <2>3 DEF NoUseAfterDestroy
<1> QED
  BY <1>1, Invariance, PTL

\* Whatever fails in a handler, main is back at its loop with every session
\* either whole or gone.
THEOREM Whole == Spec => []SessionsWhole
<1>1. IInv => SessionsWhole
  <2> SUFFICES ASSUME IInv, mainPc \in {"receive", "meter", "fifo"}, NEW k \in WithFile
               PROVE  file[k] = flag[k] /\ (ctx[k] = "live") = flag[k]
    BY DEF SessionsWhole
  <2>1. flag[k] \in BOOLEAN /\ file[k] \in BOOLEAN /\ k \in Kind
    BY DEF IInv, TypeOK, WithFile, Kind
  <2>2. file[k] <=> flag[k]
    BY <2>1 DEF IInv, SessionInv, Starting
  <2>3. (ctx[k] = "live") <=> flag[k]
    BY <2>1 DEF IInv, SessionInv, Ending
  <2> QED BY <2>1, <2>2, <2>3, Zenon
<1> QED
  BY <1>1, Invariance, PTL

\* No thread waits for a mutex while it holds one, and the threads that wait for
\* the FIFO hold nothing main needs to empty it.
THEOREM NoEmbrace == Spec => []NoHoldAndWait
<1>1. IInv => NoHoldAndWait
  <2> SUFFICES ASSUME IInv PROVE NoHoldAndWait
    OBVIOUS
  <2> USE DEF IInv, LockInv, PipeInv, MainHolds, AudioHolds, VideoHolds, EndPc, StartPc
  <2>1. mainPc \in {"end_lock", "start_lock", "reset_lock", "meter", "log_lock"} =>
          \A m \in Mutex : mutex[m] # "main"
    OBVIOUS
  <2>2. /\ audioPc = "lock" => \A m \in Mutex : mutex[m] # "audio"
        /\ videoPc = "lock" => \A m \in Mutex : mutex[m] # "video"
    OBVIOUS
  <2>3. \A t \in {"audio", "video"}, m \in Mutex :
          todo[t] > 0 /\ mutex[m] = t => m = "recorder"
    OBVIOUS
  <2>4. mutex["recorder"] # "main"
    BY DEF Mutex, Kind
  <2> QED BY <2>1, <2>2, <2>3, <2>4 DEF NoHoldAndWait
<1> QED
  BY <1>1, Invariance, PTL

-----------------------------------------------------------------------------
\* The named part of the refinement mapping.
ActiveName == [k \in Kind |-> IF k \in Active THEN name[k] ELSE NoName]

\* Each session takes consecutive frames and reports what it took: main.c's
\* loop and the audio thread implement Sessions.
THEOREM Refinement == Spec => SessionsSpec
<1> USE DEF S!Init, S!Next, S!Spec
<1>1. Init => S!Init
  BY DEF Init, S!NoFrames, NoFrames, NoReport, Active
<1>2. IInv /\ [Next]_vars => [S!Next]_S!sessionVars
  <2> SUFFICES ASSUME IInv, [Next]_vars PROVE [S!Next]_S!sessionVars
    OBVIOUS
  <2> USE DEF S!sessionVars, threads, session, pipe
  <2>0. /\ flag \in [Kind -> BOOLEAN] /\ ctx \in [Analyzed -> {"live", "none"}]
        /\ fed \in [Kind -> Frames] /\ name \in [Kind -> Name \cup {NoName}] /\ frame \in Nat
        /\ Kind = {"log", "audio", "av"} /\ Analyzed = {"meter"} \cup Kind
        /\ mainPc \in EndPc \cup StartPc => cmd.on \in Kind
    BY MonitorAssumption DEF IInv, TypeOK, ThreadPosition, Kind, Analyzed, LockInv
  <2>1. ASSUME UNCHANGED <<frame, flag, ctx, name, fed, report>>
        PROVE  UNCHANGED S!sessionVars
    BY <2>1 DEF Active
  <2>2. CASE Receive \/ EndLock \/ StartLock \/ ResetLock \/ MeterLock \/ MeterSend
             \/ LogLock \/ LogPrint \/ ReadFifo
    BY <2>1, <2>2 DEF Receive, EndLock, StartLock, ResetLock, MeterLock, MeterSend, LogLock,
       LogPrint, ReadFifo
  <2>3. CASE LoopExit \/ JoinAudio \/ JoinVideo \/ Trailer \/ Exit \/ VideoStep \/ UNCHANGED vars
    BY <2>1, <2>3 DEF LoopExit, JoinAudio, JoinVideo, Trailer, Exit, VideoStep, VideoInit,
       VideoCapture, VideoLock, VideoMux, VideoWrite, VideoMuxed, vars
  <2>4. CASE AudioInit \/ AudioExit \/ AudioLock \/ AudioMux \/ AudioWrite \/ AudioMuxed
    BY <2>1, <2>4 DEF AudioInit, AudioExit, AudioLock, AudioMux, AudioWrite, AudioMuxed
  <2>5. CASE AudioCapture
    <3>1. S!Capture BY <2>5 DEF AudioCapture, S!Capture, Active
    <3> QED BY <3>1
  <2>6. CASE AudioFeed
    <3>1. CASE audioOn \in Kind /\ flag[audioOn]
      <4>1. audioOn \in Active
        BY <2>6, <3>1 DEF AudioFeed, Active, IInv, LockInv, SessionInv, Ending, AudioHolds,
           MainHolds, Mutex
      <4>2. fed[audioOn] = NoFrames \/ fed[audioOn].to + 1 = frame
        BY <2>0, <2>6, <4>1, <3>1 DEF AudioFeed, IInv, FeedInv, Past, Frames
      <4>3. S!Feed(audioOn)
        BY <2>0, <2>6, <3>1, <4>1, <4>2 DEF AudioFeed, S!Feed, S!NoFrames, NoFrames, Active
      <4> QED BY <3>1, <4>3
    <3>2. CASE ~(audioOn \in Kind /\ flag[audioOn])
      BY <2>1, <2>6, <3>2 DEF AudioFeed
    <3> QED BY <3>1, <3>2
  <2>7. CASE EndUninit
    <3>1. cmd.on \in Kind /\ cmd.on \in Active /\ flag[cmd.on]
      BY <2>0, <2>7 DEF EndUninit, IInv, SessionInv, Ending, Active, EndPc
    <3>2. Active' = Active \ {cmd.on}
      BY <2>0, <2>7, <3>1 DEF EndUninit, Active
    <3>3. ActiveName' = [ActiveName EXCEPT ![cmd.on] = NoName]
      BY <2>7, <3>1, <3>2 DEF EndUninit, ActiveName
    <3>4. \/ report' = report
          \/ cmd.on = "av" /\ report' = [name |-> ActiveName[cmd.on], frames |-> fed[cmd.on]]
      BY <2>7, <3>1 DEF EndUninit, AvReport, ActiveName
    <3>5. UNCHANGED <<frame, fed>> BY <2>7 DEF EndUninit
    <3>6. PICK k \in Kind : k = cmd.on BY <3>1
    <3>7. S!End(k)
      BY <3>1, <3>2, <3>3, <3>4, <3>5, <3>6 DEF S!End, ActiveName
    <3> QED BY <3>7
  <2>8. CASE EndClose
    <3>1. Active' = Active
      BY <2>0, <2>8 DEF EndClose, IInv, SessionInv, Ending, Active, EndPc
    <3> QED BY <2>8, <3>1 DEF EndClose
  <2>9. CASE Open
    <3>1. Active' = Active /\ UNCHANGED <<frame, fed, report>>
      BY <2>9 DEF Open, Active
    <3>2. cmd.on \notin Active
      BY <2>9 DEF Open, IInv, SessionInv, StartPc, Active
    <3>3. \A k \in Kind : k # cmd.on => name'[k] = name[k]
      BY <2>0, <2>9 DEF Open
    <3> QED BY <3>1, <3>2, <3>3
  <2>10. CASE StartSession
    <3>1. cmd.on \in Kind /\ ~flag[cmd.on] /\ name[cmd.on] \in Name
      BY <2>0, <2>10 DEF StartSession, IInv, SessionInv, StartPc
    <3>2. cmd.on \notin Active /\ Active' = Active \cup {cmd.on}
      BY <2>0, <2>10, <3>1 DEF StartSession, Active
    <3>3. ActiveName' = [ActiveName EXCEPT ![cmd.on] = name[cmd.on]]
      BY <2>10, <3>1, <3>2 DEF StartSession, ActiveName
    <3>4. fed' = [fed EXCEPT ![cmd.on] = S!NoFrames] /\ UNCHANGED <<frame, report>>
      BY <2>10 DEF StartSession, NoFrames, S!NoFrames
    <3>5. PICK k \in Kind, n \in Name : k = cmd.on /\ n = name[cmd.on] BY <3>1
    <3>6. S!Begin(k, n)
      BY <3>2, <3>3, <3>4, <3>5 DEF S!Begin, ActiveName
    <3> QED BY <3>6
  <2>11. CASE StartFails
    <3>1. Active' = Active
      BY <2>0, <2>11 DEF StartFails, IInv, SessionInv, StartPc, Active
    <3> QED BY <2>11, <3>1 DEF StartFails
  <2>12. CASE ResetUninit \/ ResetInit
    <3>1. Active' = Active
      BY <2>0, <2>12 DEF ResetUninit, ResetInit, Active
    <3> QED BY <2>12, <3>1 DEF ResetUninit, ResetInit
  <2> QED
    BY <2>2, <2>3, <2>4, <2>5, <2>6, <2>7, <2>8, <2>9, <2>10, <2>11, <2>12
       DEF Next, MainStep, AudioStep, Finished, vars
<1> QED
  BY <1>1, <1>2, Invariance, PTL DEF Spec, SessionsSpec
=============================================================================
