------------------------------ MODULE Sessions ------------------------------
(***************************************************************************)
(* What apollo_monitor promises about its measuring sessions, with no      *)
(* threads, mutexes or files.  A session of a kind (a loudness log, an     *)
(* audio recording, an AV recording) is begun and ended; in between it     *)
(* takes the captured audio frames one after the other, each once and none *)
(* skipped.  Ending an AV recording may report its loudness: the report    *)
(* carries the name the recording was begun with and exactly the frames it *)
(* took.  Monitor implements this module.                                  *)
(***************************************************************************)
EXTENDS Integers

CONSTANTS Kind,      \* the kinds of session
          Name,      \* names a session can be given
          NoName     \* the name of a kind with no session

NoFrames == [from |-> 0, to |-> 0]

VARIABLES frame,     \* audio frames captured so far; the last one's number
          active,    \* kinds with a session under way
          name,      \* the name of each session under way
          fed,       \* the frames [from .. to] each kind's latest session took
          report     \* the last AV loudness report

sessionVars == <<frame, active, name, fed, report>>

Init ==
  /\ frame = 0
  /\ active = {}
  /\ name = [k \in Kind |-> NoName]
  /\ fed = [k \in Kind |-> NoFrames]
  /\ report = [name |-> NoName, frames |-> NoFrames]

Capture ==
  /\ frame' = frame + 1
  /\ UNCHANGED <<active, name, fed, report>>

Begin(k, n) ==
  /\ k \notin active
  /\ active' = active \cup {k}
  /\ name' = [name EXCEPT ![k] = n]
  /\ fed' = [fed EXCEPT ![k] = NoFrames]
  /\ UNCHANGED <<frame, report>>

\* A session takes the frame just captured: its first one, or the one that
\* follows the last it took.
Feed(k) ==
  /\ k \in active
  /\ fed[k] = NoFrames \/ fed[k].to + 1 = frame
  /\ fed' = [fed EXCEPT ![k] = [from |-> IF @ = NoFrames THEN frame ELSE @.from,
                                to   |-> frame]]
  /\ UNCHANGED <<frame, active, name, report>>

End(k) ==
  /\ k \in active
  /\ active' = active \ {k}
  /\ \/ report' = report
     \/ k = "av" /\ report' = [name |-> name[k], frames |-> fed[k]]
  /\ name' = [name EXCEPT ![k] = NoName]
  /\ UNCHANGED <<frame, fed>>

Next ==
  \/ Capture
  \/ \E k \in Kind : Feed(k) \/ End(k) \/ \E n \in Name : Begin(k, n)

Spec == Init /\ [][Next]_sessionVars
=============================================================================
