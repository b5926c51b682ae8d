------------------------------- MODULE Monitor -------------------------------
(***************************************************************************)
(* apollo_monitor (src/monitor): the main loop, the audio thread and the   *)
(* video thread, the five mutexes between them and the FIFO through which  *)
(* the two capture threads hand the encoded transport stream to main.      *)
(*                                                                         *)
(* A step of main or of a thread ends where another thread can see what it *)
(* did: at the lock and unlock of a mutex, at each write to the FIFO, at   *)
(* each pass of a loop head.  What the controller sends is any command at  *)
(* any time; IPC failures in the other direction show as a report that is  *)
(* not taken.                                                              *)
(***************************************************************************)
EXTENDS Integers

CONSTANTS
  Name,         \* names a recording or a log can be given
  NoName,       \* the empty argument of a command
  Commands,     \* the commands the controller sends in this instance
  FifoCap,      \* capacity of the AV FIFO, in units of stream data
  ReadMax,      \* units main takes from it in one read
  PacketMax,    \* most units the muxer writes for one captured frame
  MaxFrame      \* bound: audio frames captured

Kind == {"log", "audio", "av"}            \* loudness log, audio file, AV file
Mutex == {"recorder", "meter"} \cup Kind  \* "meter" guards the live analyzer
Analyzed == {"meter"} \cup Kind           \* the contexts behind mutexes
WithFile == {"log", "av"}                 \* sessions whose file main itself opens
Thread == {"main", "audio", "video"}

Command ==
  [op : {"start", "end"}, on : Kind \cup {"stream"}, name : Name \cup {NoName}]
    \cup [op : {"reset", "quit"}, on : {"meter"}, name : {NoName}]

NoCommand == [op |-> "quit", on |-> "meter", name |-> NoName]

ASSUME MonitorAssumption ==
  /\ NoName \notin Name
  /\ Commands \subseteq Command
  /\ FifoCap \in Nat /\ PacketMax \in Nat /\ MaxFrame \in Nat
  /\ ReadMax \in Nat \ {0}

VARIABLES
  mainPc,       \* where main is
  cmd,          \* ipc_message: the command main is handling
  audioPc,      \* where the audio thread is ...
  audioOn,      \* ... and the mutex it is at in its round
  videoPc,      \* where the video thread is
  mutex,        \* holder of each mutex, "none" if free
  flag,         \* loudness_log_flag, audio_record_flag, av_record_flag
  ctx,          \* analyzer and recorder contexts: "live" or "none"
  file,         \* logger_context's and av_record_fp's file is open
  name,         \* loudness_log_name, audio_record_name, av_record_name
  streaming,    \* av_stream_flag
  fifo,         \* units in the AV FIFO
  todo,         \* units each thread still has to write to it
  endFlag,      \* program_end_flag
  frame,        \* number of the last audio frame captured
  fed,          \* frames each session's context took (history)
  report        \* last AV_RECORD_LOUDNESS_DATA handed to the socket

session == <<flag, ctx, file, name, fed, report>>
pipe == <<fifo, todo>>
threads == <<audioPc, audioOn, videoPc>>
vars == <<mainPc, cmd, threads, mutex, session, streaming, pipe, endFlag, frame>>

NoFrames == [from |-> 0, to |-> 0]
NoReport == [name |-> NoName, frames |-> NoFrames]

MainPc == {"receive", "end_lock", "end_uninit", "end_close", "open",
           "start_lock", "start_init", "reset_lock", "reset_uninit",
           "reset_init", "meter", "meter_send", "log_lock", "log_print",
           "fifo", "join_audio", "join_video", "trailer", "exited"}
AudioPc == {"init", "capture", "lock", "use", "write", "done"}
VideoPc == {"init", "capture", "lock", "use", "write", "done"}

Init ==
  /\ mainPc = "receive" /\ cmd = NoCommand
  /\ audioPc = "init" /\ audioOn = "recorder" /\ videoPc = "init"
  /\ mutex = [m \in Mutex |-> "none"]
  /\ flag = [k \in Kind |-> FALSE]
  /\ ctx = [c \in Analyzed |-> IF c = "meter" THEN "live" ELSE "none"]
  /\ file = [k \in WithFile |-> FALSE]
  /\ name = [k \in Kind |-> NoName]
  /\ streaming = FALSE
  /\ fifo = 0
  /\ todo = [t \in Thread |-> 0]
  /\ endFlag = FALSE
  /\ frame = 0
  /\ fed = [k \in Kind |-> NoFrames]
  /\ report = NoReport

Lock(m, t) == mutex[m] = "none" /\ mutex' = [mutex EXCEPT ![m] = t]
Unlock(m) == mutex' = [mutex EXCEPT ![m] = "none"]

-----------------------------------------------------------------------------
(* main: a command from the controller *)

\* Leaving a handler: the rest of the loop does not look at the command.
HandlerDone(pc) == mainPc' = pc /\ cmd' = NoCommand

\* Entering one that takes more than this step.
Handle(c, pc) == mainPc' = pc /\ cmd' = c

\* The stream is main's own affair: no other thread sees its context.
StreamCommand(c) ==
  /\ c.on = "stream"
  /\ streaming' \in IF c.op = "start" /\ c.name # NoName THEN BOOLEAN ELSE {FALSE}
  /\ HandlerDone("meter")
  /\ UNCHANGED endFlag

\* A start first ends the session under way; an end without one is ignored.
SessionCommand(c) ==
  /\ c.on \in Kind
  /\ \/ flag[c.on] /\ Handle(c, "end_lock")
     \/ ~flag[c.on] /\ c.op = "start" /\ Handle(c, "open")
     \/ ~flag[c.on] /\ c.op = "end" /\ HandlerDone("meter")
  /\ UNCHANGED <<streaming, endFlag>>

ResetCommand(c) ==
  /\ c.op = "reset"
  /\ Handle(c, "reset_lock")
  /\ UNCHANGED <<streaming, endFlag>>

\* PROGRAM_END leaves the loop at once, with whatever is being recorded.
QuitCommand(c) ==
  /\ c.op = "quit"
  /\ endFlag' = TRUE
  /\ HandlerDone("receive")
  /\ UNCHANGED streaming

Receive ==
  /\ mainPc = "receive" /\ ~endFlag
  /\ \/ HandlerDone("meter") /\ UNCHANGED <<streaming, endFlag>>
     \/ \E c \in Commands :
          StreamCommand(c) \/ SessionCommand(c) \/ ResetCommand(c) \/ QuitCommand(c)
  /\ UNCHANGED <<threads, mutex, session, pipe, frame>>

-----------------------------------------------------------------------------
(* main: ending a session, under its mutex *)

\* Mutant: the session is torn down without its mutex.
EndLockUnguarded ==
  /\ mainPc = "end_lock"
  /\ mainPc' = "end_uninit"
  /\ UNCHANGED <<cmd, threads, mutex, session, streaming, pipe, endFlag, frame>>

EndLock ==
  /\ mainPc = "end_lock"
  /\ Lock(cmd.on, "main")
  /\ mainPc' = "end_uninit"
  /\ UNCHANGED <<cmd, threads, session, streaming, pipe, endFlag, frame>>

\* Mutant: the new name is already in place when the old recording reports.
AvReportNewName ==
  \/ UNCHANGED report
  \/ report' = [name |-> cmd.name, frames |-> fed["av"]]

\* An AV recording reports its loudness first: the message may not get out.
AvReport ==
  \/ UNCHANGED report
  \/ report' = [name |-> name["av"], frames |-> fed["av"]]

\* The log and the AV recording destroy their analyzer before they clear the
\* flag; the audio recording clears its flag first.
EndUninit ==
  /\ mainPc = "end_uninit"
  /\ IF cmd.on = "audio"
     THEN flag' = [flag EXCEPT !["audio"] = FALSE] /\ UNCHANGED ctx
     ELSE ctx' = [ctx EXCEPT ![cmd.on] = "none"] /\ UNCHANGED flag
  /\ IF cmd.on = "av" THEN AvReport ELSE UNCHANGED report
  /\ mainPc' = "end_close"
  /\ UNCHANGED <<cmd, threads, mutex, file, name, fed, streaming, pipe, endFlag, frame>>

\* recorder_uninit returns early for an audio-only recorder (it has no video
\* contexts), so the audio recorder's context is left as it is.
EndClose ==
  /\ mainPc = "end_close"
  /\ flag' = [flag EXCEPT ![cmd.on] = FALSE]
  /\ file' = [k \in WithFile |-> IF k = cmd.on THEN FALSE ELSE file[k]]
  /\ Unlock(cmd.on)
  /\ IF cmd.op = "start" THEN mainPc' = "open" /\ cmd' = cmd ELSE HandlerDone("meter")
  /\ UNCHANGED <<threads, ctx, name, fed, report, streaming, pipe, endFlag, frame>>

-----------------------------------------------------------------------------
(* main: starting a session *)

\* The log's and the AV recording's file is opened before the mutex is taken.
Open ==
  /\ mainPc = "open"
  /\ IF cmd.name = NoName
     THEN HandlerDone("meter") /\ UNCHANGED <<name, file>>
     ELSE /\ name' = [name EXCEPT ![cmd.on] = cmd.name]
          /\ \/ /\ cmd.on \in WithFile
                /\ file' = [file EXCEPT ![cmd.on] = TRUE]
                /\ mainPc' = "start_lock" /\ cmd' = cmd
             \/ /\ cmd.on \in WithFile
                /\ HandlerDone("meter") /\ UNCHANGED file
             \/ /\ cmd.on = "audio"
                /\ mainPc' = "start_lock" /\ UNCHANGED <<file, cmd>>
  /\ UNCHANGED <<threads, mutex, flag, ctx, fed, report, streaming, pipe, endFlag, frame>>

StartLock ==
  /\ mainPc = "start_lock"
  /\ Lock(cmd.on, "main")
  /\ mainPc' = "start_init"
  /\ UNCHANGED <<cmd, threads, session, streaming, pipe, endFlag, frame>>

StartSession ==
  /\ mainPc = "start_init"
  /\ ctx' = [ctx EXCEPT ![cmd.on] = "live"]
  /\ flag' = [flag EXCEPT ![cmd.on] = TRUE]
  /\ fed' = [fed EXCEPT ![cmd.on] = NoFrames]
  /\ Unlock(cmd.on)
  /\ HandlerDone("meter")
  /\ UNCHANGED <<threads, file, name, report, streaming, pipe, endFlag, frame>>

\* Mutant: a failed analyzer_init leaves the file open.
StartFailsLeaking ==
  /\ mainPc = "start_init"
  /\ ctx' = [ctx EXCEPT ![cmd.on] = "none"]
  /\ Unlock(cmd.on)
  /\ HandlerDone("meter")
  /\ UNCHANGED <<threads, flag, file, name, fed, report, streaming, pipe, endFlag, frame>>

\* analyzer_init or recorder_init failed.
StartFails ==
  /\ mainPc = "start_init"
  /\ ctx' = [ctx EXCEPT ![cmd.on] = "none"]
  /\ file' = [k \in WithFile |-> IF k = cmd.on THEN FALSE ELSE file[k]]
  /\ Unlock(cmd.on)
  /\ HandlerDone("meter")
  /\ UNCHANGED <<threads, flag, name, fed, report, streaming, pipe, endFlag, frame>>

-----------------------------------------------------------------------------
(* main: ANALYZER_RESET *)

ResetLock ==
  /\ mainPc = "reset_lock"
  /\ Lock("meter", "main")
  /\ mainPc' = "reset_uninit"
  /\ UNCHANGED <<cmd, threads, session, streaming, pipe, endFlag, frame>>

ResetUninit ==
  /\ mainPc = "reset_uninit"
  /\ ctx' = [ctx EXCEPT !["meter"] = "none"]
  /\ mainPc' = "reset_init"
  /\ UNCHANGED <<cmd, threads, mutex, flag, file, name, fed, report, streaming,
                 pipe, endFlag, frame>>

ResetInit ==
  /\ mainPc = "reset_init"
  /\ \E c \in {"live", "none"} : ctx' = [ctx EXCEPT !["meter"] = c]
  /\ Unlock("meter")
  /\ HandlerDone("meter")
  /\ UNCHANGED <<threads, flag, file, name, fed, report, streaming, pipe, endFlag, frame>>

-----------------------------------------------------------------------------
(* main: the 100 ms loudness period, then the FIFO *)

\* The period may not be over: then the FIFO is next.
MeterLock ==
  /\ mainPc = "meter"
  /\ \/ mainPc' = "fifo" /\ UNCHANGED mutex
     \/ mainPc' = "meter_send" /\ Lock("meter", "main")
  /\ UNCHANGED <<cmd, threads, session, streaming, pipe, endFlag, frame>>

MeterSend ==
  /\ mainPc = "meter_send"
  /\ Unlock("meter")
  /\ mainPc' = IF flag["log"] THEN "log_lock" ELSE "fifo"
  /\ UNCHANGED <<cmd, threads, session, streaming, pipe, endFlag, frame>>

LogLock ==
  /\ mainPc = "log_lock"
  /\ Lock("log", "main")
  /\ mainPc' = "log_print"
  /\ UNCHANGED <<cmd, threads, session, streaming, pipe, endFlag, frame>>

LogPrint ==
  /\ mainPc = "log_print"
  /\ Unlock("log")
  /\ mainPc' = "fifo"
  /\ UNCHANGED <<cmd, threads, session, streaming, pipe, endFlag, frame>>

\* Mutant: main reads the FIFO only when somebody wants the data.
ReadFifoOnDemand ==
  /\ mainPc = "fifo"
  /\ fifo' = IF streaming \/ flag["av"] THEN 0 ELSE fifo
  /\ mainPc' = "receive"
  /\ UNCHANGED <<cmd, threads, mutex, session, streaming, todo, endFlag, frame>>

\* One read of at most ReadMax units; what it read goes to the stream and to
\* the AV file, whichever is on.
ReadFifo ==
  /\ mainPc = "fifo"
  /\ fifo' = IF fifo <= ReadMax THEN 0 ELSE fifo - ReadMax
  /\ mainPc' = "receive"
  /\ UNCHANGED <<cmd, threads, mutex, session, streaming, todo, endFlag, frame>>

-----------------------------------------------------------------------------
(* main: shutdown *)

LoopExit ==
  /\ mainPc = "receive" /\ endFlag
  /\ mainPc' = "join_audio"
  /\ UNCHANGED <<cmd, threads, mutex, session, streaming, pipe, endFlag, frame>>

JoinAudio ==
  /\ mainPc = "join_audio" /\ audioPc = "done"
  /\ mainPc' = "join_video"
  /\ UNCHANGED <<cmd, threads, mutex, session, streaming, pipe, endFlag, frame>>

\* recorder_uninit writes what the muxer still holds, to a FIFO main no longer
\* reads.
JoinVideo ==
  /\ mainPc = "join_video" /\ videoPc = "done"
  /\ \E n \in 0..PacketMax : todo' = [todo EXCEPT !["main"] = n]
  /\ mainPc' = "trailer"
  /\ UNCHANGED <<cmd, threads, mutex, session, streaming, fifo, endFlag, frame>>

\* A write to the FIFO waits for room, unit by unit.
WriteFifo(t) ==
  /\ todo[t] > 0 /\ fifo < FifoCap
  /\ fifo' = fifo + 1
  /\ todo' = [todo EXCEPT ![t] = @ - 1]

Trailer ==
  /\ mainPc = "trailer"
  /\ WriteFifo("main")
  /\ UNCHANGED <<mainPc, cmd, threads, mutex, session, streaming, endFlag, frame>>

Exit ==
  /\ mainPc = "trailer" /\ todo["main"] = 0
  /\ mainPc' = "exited"
  /\ UNCHANGED <<cmd, threads, mutex, session, streaming, pipe, endFlag, frame>>

-----------------------------------------------------------------------------
(* The audio thread: one round per captured frame, through every mutex *)

NextOn(m) ==
  CASE m = "recorder" -> "meter"
    [] m = "meter" -> "log"
    [] m = "log" -> "audio"
    [] m = "audio" -> "av"
    [] m = "av" -> "recorder"

AudioAdvance ==
  /\ audioOn' = NextOn(audioOn)
  /\ audioPc' = IF audioOn = "av" THEN "capture" ELSE "lock"

\* A failed initialisation frees the argument block and then writes the end
\* flag through it: the write may or may not reach main's flag.
AudioInit ==
  /\ audioPc = "init"
  /\ \/ audioPc' = "capture" /\ UNCHANGED endFlag
     \/ audioPc' = "done" /\ endFlag' \in {endFlag, TRUE}
  /\ UNCHANGED <<mainPc, cmd, audioOn, videoPc, mutex, session, streaming, pipe, frame>>

\* A capture that fails goes back to the loop head.
AudioCapture ==
  /\ audioPc = "capture" /\ ~endFlag
  /\ frame < MaxFrame
  /\ frame' = frame + 1
  /\ audioPc' = "lock"
  /\ UNCHANGED <<mainPc, cmd, audioOn, videoPc, mutex, session, streaming, pipe, endFlag>>

AudioExit ==
  /\ audioPc = "capture" /\ endFlag
  /\ audioPc' = "done"
  /\ UNCHANGED <<mainPc, cmd, audioOn, videoPc, mutex, session, streaming, pipe,
                 endFlag, frame>>

AudioLock ==
  /\ audioPc = "lock"
  /\ Lock(audioOn, "audio")
  /\ audioPc' = "use"
  /\ UNCHANGED <<mainPc, cmd, audioOn, videoPc, session, streaming, pipe, endFlag, frame>>

\* The recorder muxes the frame; what comes out has to go through the FIFO.
AudioMux ==
  /\ audioPc = "use" /\ audioOn = "recorder"
  /\ \E n \in 0..PacketMax : todo' = [todo EXCEPT !["audio"] = n]
  /\ audioPc' = "write"
  /\ UNCHANGED <<mainPc, cmd, audioOn, videoPc, mutex, session, streaming, fifo,
                 endFlag, frame>>

AudioWrite ==
  /\ audioPc = "write"
  /\ WriteFifo("audio")
  /\ UNCHANGED <<mainPc, cmd, threads, mutex, session, streaming, endFlag, frame>>

\* Mutant: the recorder mutex is kept for the rest of the round.
AudioMuxedHolding ==
  /\ audioPc = "write" /\ todo["audio"] = 0
  /\ AudioAdvance
  /\ UNCHANGED <<mainPc, cmd, videoPc, mutex, session, streaming, pipe, endFlag, frame>>

AudioMuxed ==
  /\ audioPc = "write" /\ todo["audio"] = 0
  /\ Unlock("recorder")
  /\ AudioAdvance
  /\ UNCHANGED <<mainPc, cmd, videoPc, session, streaming, pipe, endFlag, frame>>

\* Mutant: the thread leaves the critical section without unlocking.
AudioFeedHolding ==
  /\ audioPc = "use" /\ audioOn # "recorder"
  /\ AudioAdvance
  /\ UNCHANGED <<mainPc, cmd, videoPc, mutex, session, streaming, pipe, endFlag, frame>>

\* Every other context takes the frame if its flag is set; the live analyzer
\* has no flag.
AudioFeed ==
  /\ audioPc = "use" /\ audioOn # "recorder"
  /\ fed' = IF audioOn \in Kind /\ flag[audioOn]
            THEN [fed EXCEPT ![audioOn] =
                    [from |-> IF @ = NoFrames THEN frame ELSE @.from, to |-> frame]]
            ELSE fed
  /\ Unlock(audioOn)
  /\ AudioAdvance
  /\ UNCHANGED <<mainPc, cmd, videoPc, flag, ctx, file, name, report, streaming,
                 pipe, endFlag, frame>>

-----------------------------------------------------------------------------
(* The video thread: capture and mux, sharing only the recorder *)

VideoInit ==
  /\ videoPc = "init"
  /\ \/ videoPc' = "capture" /\ UNCHANGED endFlag
     \/ videoPc' = "done" /\ endFlag' \in {endFlag, TRUE}
  /\ UNCHANGED <<mainPc, cmd, audioPc, audioOn, mutex, session, streaming, pipe, frame>>

\* Mutant: the capture loop does not look at the end flag.
VideoCaptureEndless ==
  /\ videoPc = "capture"
  /\ videoPc' = "lock"
  /\ UNCHANGED <<mainPc, cmd, audioPc, audioOn, mutex, session, streaming, pipe,
                 endFlag, frame>>

VideoCapture ==
  /\ videoPc = "capture"
  /\ videoPc' = IF endFlag THEN "done" ELSE "lock"
  /\ UNCHANGED <<mainPc, cmd, audioPc, audioOn, mutex, session, streaming, pipe,
                 endFlag, frame>>

VideoLock ==
  /\ videoPc = "lock"
  /\ Lock("recorder", "video")
  /\ videoPc' = "use"
  /\ UNCHANGED <<mainPc, cmd, audioPc, audioOn, session, streaming, pipe, endFlag, frame>>

VideoMux ==
  /\ videoPc = "use"
  /\ \E n \in 0..PacketMax : todo' = [todo EXCEPT !["video"] = n]
  /\ videoPc' = "write"
  /\ UNCHANGED <<mainPc, cmd, audioPc, audioOn, mutex, session, streaming, fifo,
                 endFlag, frame>>

VideoWrite ==
  /\ videoPc = "write"
  /\ WriteFifo("video")
  /\ UNCHANGED <<mainPc, cmd, threads, mutex, session, streaming, endFlag, frame>>

VideoMuxed ==
  /\ videoPc = "write" /\ todo["video"] = 0
  /\ Unlock("recorder")
  /\ videoPc' = "capture"
  /\ UNCHANGED <<mainPc, cmd, audioPc, audioOn, session, streaming, pipe, endFlag, frame>>

-----------------------------------------------------------------------------
MainStep ==
  \/ Receive \/ EndLock \/ EndUninit \/ EndClose
  \/ Open \/ StartLock \/ StartSession \/ StartFails
  \/ ResetLock \/ ResetUninit \/ ResetInit
  \/ MeterLock \/ MeterSend \/ LogLock \/ LogPrint \/ ReadFifo
  \/ LoopExit \/ JoinAudio \/ JoinVideo \/ Trailer \/ Exit

AudioStep ==
  \/ AudioInit \/ AudioCapture \/ AudioExit \/ AudioLock
  \/ AudioMux \/ AudioWrite \/ AudioMuxed \/ AudioFeed

VideoStep ==
  \/ VideoInit \/ VideoCapture \/ VideoLock
  \/ VideoMux \/ VideoWrite \/ VideoMuxed

\* The process is gone.
Finished == mainPc = "exited" /\ UNCHANGED vars

Next == MainStep \/ AudioStep \/ VideoStep \/ Finished

Spec == Init /\ [][Next]_vars

(***************************************************************************)
(* Fairness.  The scheduler runs every thread that can run (weak).  Main   *)
(* waits for a mutex the audio thread takes and gives back again and       *)
(* again, but the audio thread sleeps in the sound card between rounds     *)
(* with no mutex held, so main gets it (strong).  Nothing makes the        *)
(* controller send.                                                        *)
(***************************************************************************)
FairSpec ==
  /\ Spec
  /\ SF_vars(MainStep)
  /\ WF_vars(AudioStep)
  /\ WF_vars(VideoStep)

-----------------------------------------------------------------------------
(* Safety *)

ThreadPosition ==
  /\ mainPc \in MainPc /\ cmd \in Command
  /\ audioPc \in AudioPc /\ audioOn \in Mutex /\ videoPc \in VideoPc
  /\ mutex \in [Mutex -> Thread \cup {"none"}]

Frames == [from : Nat, to : Nat]

\* Every variable has its type (src/monitor/main.c main's and the threads'
\* locals), and the FIFO never holds more than its capacity.
TypeOK ==
  /\ ThreadPosition
  /\ flag \in [Kind -> BOOLEAN]
  /\ ctx \in [Analyzed -> {"live", "none"}]
  /\ file \in [WithFile -> BOOLEAN]
  /\ name \in [Kind -> Name \cup {NoName}]
  /\ streaming \in BOOLEAN /\ endFlag \in BOOLEAN
  /\ fifo \in 0..FifoCap
  /\ todo \in [Thread -> 0..PacketMax]
  /\ frame \in 0..MaxFrame
  /\ fed \in [Kind -> Frames]
  /\ report \in [name : Name \cup {NoName}, frames : Frames]

\* The threads never use what main has destroyed: when the audio thread is in
\* its critical section with a session's flag set, that session's context is
\* live; when main prints the log or writes a chunk to the AV file, the log's
\* analyzer and file, or the AV file, are there.
NoUseAfterDestroy ==
  /\ audioPc = "use" /\ audioOn \in Kind /\ flag[audioOn] => ctx[audioOn] = "live"
  /\ mainPc = "log_print" => ctx["log"] = "live" /\ file["log"]
  /\ mainPc = "fifo" /\ flag["av"] => file["av"]

\* Whatever failed on the way, back at the loop head a log's or recording's
\* file is open exactly when its flag is set, and its analyzer is live exactly
\* then: no handle is leaked and no session is half begun.
SessionsWhole ==
  mainPc \in {"receive", "meter", "fifo"} =>
    \A k \in WithFile : file[k] = flag[k] /\ (ctx[k] = "live") = flag[k]

\* Nobody waits for a mutex while holding another, so no circle of waiting
\* threads can form; a thread waiting for room in the FIFO holds the recorder
\* mutex alone, and main, the one reader of the FIFO, never takes that mutex.
NoHoldAndWait ==
  /\ mainPc \in {"end_lock", "start_lock", "reset_lock", "meter", "log_lock"} =>
       \A m \in Mutex : mutex[m] # "main"
  /\ audioPc = "lock" => \A m \in Mutex : mutex[m] # "audio"
  /\ videoPc = "lock" => \A m \in Mutex : mutex[m] # "video"
  /\ \A t \in {"audio", "video"}, m \in Mutex :
       todo[t] > 0 /\ mutex[m] = t => m = "recorder"
  /\ mutex["recorder"] # "main"

-----------------------------------------------------------------------------
(* The abstract sessions this implements *)

Active == {k \in Kind : flag[k] /\ ctx[k] = "live"}

S == INSTANCE Sessions WITH
       active <- Active,
       name <- [k \in Kind |-> IF k \in Active THEN name[k] ELSE NoName]

\* Main and the audio thread together measure every session over consecutive
\* frames, each taken once, and report an AV recording under its own name with
\* the frames it took, and only when it ends.
SessionsSpec == S!Spec

-----------------------------------------------------------------------------
(* The inductive invariant behind the safety properties *)

\* Who holds which mutex, told from where the threads are.
MainHolds(m) ==
  \/ mainPc \in {"end_uninit", "end_close", "start_init"} /\ m = cmd.on
  \/ mainPc \in {"reset_uninit", "reset_init", "meter_send"} /\ m = "meter"
  \/ mainPc = "log_print" /\ m = "log"
AudioHolds(m) == audioPc \in {"use", "write"} /\ m = audioOn
VideoHolds(m) == videoPc \in {"use", "write"} /\ m = "recorder"

EndPc == {"end_lock", "end_uninit", "end_close"}
StartPc == {"open", "start_lock", "start_init"}

LockInv ==
  /\ mainPc \in EndPc \cup StartPc => cmd.on \in Kind
  /\ \A m \in Mutex : /\ (mutex[m] = "main") <=> MainHolds(m)
                      /\ (mutex[m] = "audio") <=> AudioHolds(m)
                      /\ (mutex[m] = "video") <=> VideoHolds(m)

PipeInv ==
  /\ todo["audio"] > 0 => audioPc = "write"
  /\ audioPc \in {"init", "capture", "write", "done"} => audioOn = "recorder"
  /\ todo["video"] > 0 => videoPc = "write"

\* A session's flag, context and file agree but in the handler that is changing
\* them, between the two steps of which the mutex is held.
Starting(k) == mainPc \in {"start_lock", "start_init"} /\ cmd.on = k
Ending(k) == mainPc = "end_close" /\ cmd.on = k

SessionInv ==
  /\ mainPc \in {"end_lock", "end_uninit"} => flag[cmd.on]
  /\ mainPc \in StartPc => ~flag[cmd.on]
  /\ mainPc \in {"start_lock", "start_init"} => name[cmd.on] \in Name
  /\ mainPc \in {"log_lock", "log_print"} => flag["log"]
  /\ \A k \in Kind : flag[k] /\ ~Ending(k) => ctx[k] = "live"
  /\ \A k \in Kind : Ending(k) => ctx[k] = "none" \/ ~flag[k]
  /\ \A k \in WithFile : file[k] = (flag[k] \/ Starting(k))
  /\ \A k \in WithFile : ctx[k] = "live" => flag[k]

\* The audio thread has been past k's mutex with the last frame captured.
Past(k) ==
  \/ audioPc \in {"init", "capture", "done"}
  \/ k = "log" /\ audioOn \in {"audio", "av"}
  \/ k = "audio" /\ audioOn = "av"

FeedInv ==
  \A k \in Active :
    fed[k] # NoFrames => fed[k].to = IF Past(k) THEN frame ELSE frame - 1

IInv == TypeOK /\ LockInv /\ PipeInv /\ SessionInv /\ FeedInv

-----------------------------------------------------------------------------
(* Liveness, under FairSpec *)

ShutdownPc == {"join_audio", "join_video", "trailer", "exited"}

\* Main always gets back to its loop head: no mutex keeps it forever.
MainKeepsLooping == []<>(mainPc \in {"receive"} \cup ShutdownPc)

\* A capture thread that waits for room in the FIFO gets on while main loops.
FifoDrains ==
  \A t \in {"audio", "video"} :
    (todo[t] > 0) ~> (todo[t] = 0 \/ endFlag)

\* Shutdown hangs for one reason only: somebody writes to a full FIFO that main
\* has stopped reading.
StuckOnFifo == mainPc \in ShutdownPc /\ fifo = FifoCap /\ \E t \in Thread : todo[t] > 0
ShutdownEnds == endFlag ~> (mainPc = "exited" \/ StuckOnFifo)
=============================================================================
