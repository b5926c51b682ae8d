----------------------------- MODULE ChannelKeys -----------------------------
(* Changing the channel of a set-top box by its infrared remote control       *)
(* (controller/main.c, irremote.c).  A change starts a detached thread that   *)
(* sends EXIT, the digits and OK with 1.5 s between them and returns at once; *)
(* main then takes the channel for tuned and saves it.  Nothing keeps two     *)
(* threads of one box apart.  One box is modelled: boxes share nothing.       *)
EXTENDS Integers, Sequences

CONSTANTS
  Channels,     \* channels asked for
  Threads,      \* bound: key threads at work at one time
  MaxLost       \* bound: keys, threads and savings of the status that fail

ASSUME ChannelsAreNumbers == Channels \subseteq Nat
ASSUME KeyBounds == Threads # {} /\ MaxLost \in Nat

VARIABLES
  channel,   \* status[].channel ...
  saved,     \* ... and the STATUS table's
  keys,      \* per thread, the keys it has yet to send
  entered,   \* the number the box has been given so far, or Nothing
  tuned,     \* the channel the box shows
  lost,
  undisturbed   \* history: nothing went wrong with the last change, as far as it got

keyVars == <<channel, saved, keys, entered, tuned, lost, undisturbed>>

Idle == <<>>
Nothing == -1

\* Keys are the digits and these two.
Exit == 10
Ok == 11

-----------------------------------------------------------------------------
(* The thread                                                                 *)

\* The first three digits of a longer number.
Leading(c) == CHOOSE d \in 100..999 : \E k \in 1..7 : d = c \div 10 ^ k

\* snprintf(buf, 4, "%3d", channel): three characters at most, the leading
\* blanks of which send no key.
Digits(c) ==
  CASE c < 10 -> <<c>>
    [] c \in 10..99 -> <<c \div 10, c % 10>>
    [] c \in 100..999 -> <<c \div 100, (c \div 10) % 10, c % 10>>
    [] c > 999 -> LET d == Leading(c) IN <<d \div 100, (d \div 10) % 10, d % 10>>

\* Digits some thread left in the box are not cleared.
KeysOnly(c) == Digits(c) \o <<Ok>>

KeysFor(c) == <<Exit>> \o Digits(c) \o <<Ok>>

\* What the box does with a key.
Press(key) ==
  \/ key = Exit /\ entered' = Nothing /\ UNCHANGED tuned
  \/ /\ key = Ok
     /\ tuned' = IF entered = Nothing THEN tuned ELSE entered
     /\ entered' = Nothing
  \/ /\ key \in 0..9
     /\ entered' = key + (IF entered = Nothing THEN 0 ELSE 10 * entered)
     /\ UNCHANGED tuned

SendKey(t) ==
  /\ keys[t] # Idle
  /\ Press(Head(keys[t]))
  /\ keys' = [keys EXCEPT ![t] = Tail(@)]
  /\ UNCHANGED <<channel, saved, lost, undisturbed>>

\* A key that cannot be sent ends the thread.
SendKeyFails(t) ==
  /\ keys[t] # Idle
  /\ lost < MaxLost
  /\ lost' = lost + 1
  /\ keys' = [keys EXCEPT ![t] = Idle]
  /\ undisturbed' = FALSE
  /\ UNCHANGED <<channel, saved, entered, tuned>>

-----------------------------------------------------------------------------
(* Main: a user's message, or an entry of the schedule                        *)

Alone == \A t \in Threads : keys[t] = Idle

\* A thread is started, or pthread_create fails: it says so by a positive
\* number, which the code takes for success.
Change(c) ==
  /\ c # channel
  /\ channel' = c
  /\ \/ /\ \E t \in Threads : keys[t] = Idle /\ keys' = [keys EXCEPT ![t] = KeysFor(c)]
        /\ undisturbed' = (Alone /\ c < 1000)
        /\ UNCHANGED lost
     \/ /\ lost < MaxLost /\ lost' = lost + 1
        /\ undisturbed' = FALSE
        /\ UNCHANGED keys
  /\ UNCHANGED <<saved, entered, tuned>>

\* The channel asked for is the one main has already, or there is no memory for
\* the thread's argument: the box is left as it is.
NoChange(c) ==
  /\ \/ c = channel /\ UNCHANGED lost
     \/ c # channel /\ lost < MaxLost /\ lost' = lost + 1
  /\ UNCHANGED <<channel, saved, keys, entered, tuned, undisturbed>>

\* After a message's or an entry's changes the status is saved.
SaveChannel ==
  /\ \/ saved' = channel /\ UNCHANGED lost
     \/ saved' = saved /\ lost < MaxLost /\ lost' = lost + 1
  /\ UNCHANGED <<channel, keys, entered, tuned, undisturbed>>

-----------------------------------------------------------------------------
(* Starting                                                                   *)

\* The box is sent the channel of the STATUS table, 0 when there is none yet.
Begins(started) ==
  [t \in Threads |-> IF started /\ t = (CHOOSE first \in Threads : TRUE)
                     THEN KeysFor(saved) ELSE Idle]

KeyInit ==
  /\ channel = 0 /\ saved = 0
  /\ keys = Begins(TRUE)
  /\ entered = Nothing
  /\ tuned \in Channels
  /\ lost = 0
  /\ undisturbed = TRUE

\* A kill takes the threads with it; the digits stay in the box.
KeysRestart ==
  /\ channel' = saved
  /\ \/ keys' = Begins(TRUE) /\ undisturbed' = (saved < 1000) /\ UNCHANGED lost
     \/ /\ lost < MaxLost /\ lost' = lost + 1
        /\ keys' = Begins(FALSE) /\ undisturbed' = FALSE
  /\ UNCHANGED <<saved, entered, tuned>>

KeyStep == \E t \in Threads : SendKey(t) \/ SendKeyFails(t)

-----------------------------------------------------------------------------
\* The box shows the channel main believes in once the keys are sent, when the
\* change had the box to itself, all its keys were sent, and its number has no
\* more than three digits.  A change under which an earlier thread still sends,
\* or that failed, may leave any channel tuned, and asking again is no remedy:
\* main takes the channel for tuned and sends nothing.
TunedAsAsked == Alone /\ undisturbed => tuned = channel
=============================================================================
