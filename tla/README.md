# A TLA+ model of apollo_record

apollo_record records television. Two programs do it:

* **apollo_monitor** (`src/monitor`), one per capture card: it captures pictures
  and sound, measures loudness, writes log and recording files and streams.
* **apollo_controller** (`src/controller`), one for all monitors: it keeps the
  schedule and the lists of recordings in an SQLite database, fetches the
  programme guide (EPG), changes channels with an infrared remote, tells the
  monitors over a UNIX socket what to do, and talks XML over TCP to its users'
  clients.

This directory holds TLA+ modules of the two programs' control, TLC
configurations that check them on small instances, and TLAPS proofs of theorems
about them. `PROJECT.json` lists components, runs, mutants, the source lines
each definition stands for, hazards and theorems.

    tlc -config MCMonitorAv.cfg MCMonitor      # one run
    tlapm MonitorProofs.tla                    # one set of proofs

## 1. The system

| Component | Source | State it keeps | Operations | Hard because |
|---|---|---|---|---|
| Monitor main loop | `monitor/main.c` | session flags, names, contexts, log and recording files, stream | ten commands; loudness every 100 ms; reading the FIFO; shutdown | shares contexts with two threads under five mutexes; starts in several steps, each of which may fail |
| Capture threads | `monitor/main.c`, `fifo.c`, `analyzer.c`, `logger.c` | the frame at hand | audio: mux, then feed every analyzer and recorder; video: mux | visit mutexes one by one while main starts and ends sessions; block on a full FIFO |
| Recorder | `monitor/recorder.c` | encoders, muxer, sound not encoded yet, time stamps | init, encode and mux, trailer | writes into the FIFO with its mutex held; cuts sound anew into frames, and stamps it by a count of pictures that come by themselves |
| Streamer | `monitor/streamer.c` | a packet being filled | init, send chunk | chunks and packets have nothing to do with one another; sends fail half-way |
| Capture devices | `monitor/video.c`, `audio.c` | V4L2 and ALSA buffers | open, capture, close | device I/O only |
| Recording core | `controller/main.c` | status, schedule, current entry and program, loop timers | start-up; schedule; guide splits; channel changes; schedule edits; reports; saving | every step is a database call or a send that may fail, or where a crash may come |
| Database | `controller/database.c` | STATUS, SCHEDULE, PLAYBACK_LIST, LOG_LIST and others | load, save, update by name | tables replaced row by row without transactions |
| EPG store | `controller/main.c`, `epg.c` | one array of all slots' programs, two mutexes | detached request threads; delete and insert of an answer; lookups | array replaced while main has read its address; answers in any order |
| EPG parser | `controller/epg.c` | position in the answer | parse | searches that skip what they do not look for |
| IPC socket | `controller/ipc.c`, `monitor/ipc.c` | connection, backlog, what is in them | connect, accept, send, receive | each program restarts by itself; a dead peer shows late |
| Messenger | `controller/messenger.c` | listening and client socket, receive buffer | accept, receive, frame, parse, generate, send | messages in pieces; clients that break off, hang, or do not read |
| User loudness | `controller/main.c`, `database.c` | two tables and copies in PLAYBACK_LIST | save a message's files; load the files asked for | many statements without a transaction; as many rows are read as were counted |
| Client session | `controller/main.c`, `messenger.c` | alive timer, flags of what to send | acknowledge, send when due, drop after silence | one client at a time; sends that block the main loop |
| Remote control | `controller/irremote.c`, `main.c` | lirc socket | detached threads that send keys with pauses | two threads interleave their keys |
| Logging | `*/log.c` | output file | format and print | not modelled: nothing reads it |

How they interact: the controller's main loop calls database, messenger, IPC and
remote synchronously; its EPG and key threads are detached and share memory with
it. The monitor's threads share the analyzers, recorders and the FIFO with its
main loop. Controller and monitor share nothing but the socket, and files they
only name to one another.

What makes them correct, part by part: no context is used that is not there and
nobody waits in a circle (monitor); a session measures consecutive frames under
its own name (monitor); the schedule's entry is recorded, stops, and the
database says so across crashes (core); a guide is one answer's and the right
channel's (EPG); messages are handed on as sent, once, in order (messenger,
socket), and read as they are meant (messenger); what a user measured is kept
whole and told as it is kept (user loudness); the box shows the channel the
controller believes in (remote control); a client is dropped for its silence and
for nothing else (session).

## 2. Modules

| Module | Models | State and actions against the code |
|---|---|---|
| `Sessions` | what the monitor promises: sessions begin, take consecutive frames, end, report | abstract; no code of its own |
| `Monitor` | `monitor/main.c`: main, both threads, mutexes, FIFO | `mainPc`, `audioPc`, `videoPc` are places between two things another thread can see: a lock, an unlock, a FIFO write, a loop head. `flag`, `ctx`, `file`, `name` are the session variables; audio is a frame number; `fed` is the interval of frames a context took |
| `MonitorProofs` | theorems about `Monitor` | |
| `Recorder` | `recorder_write_video_frame` and `recorder_write_audio_frame` | samples are numbered as they are captured; one action per capture, frame, failed frame and picture; `stamps` and `encoded` record what the encoder was given. The two sorts of recorder (for the stream, and `audio_only`) are two initial states |
| `Streamer` | `streamer.c` | a chunk is a run of numbered bytes; one action per packet, rest, failed send and restart, before which main may drop bytes |
| `Broadcast`, `BroadcastProofs` | the way from the capture threads to the network | composes `Recorder` and `Streamer` (both extended; the theorems are about all three): `written` counts the bytes in front of the FIFO, of which main reads any part |
| `Controller` | `controller/main.c` for one slot, with its database tables and what the monitor was told | `pc` is the next database call or send; `task` what the ladder of calls is for; a call may fail (`Occurs`), a crash comes between any two; time, users, guides and reports are actions of their own |
| `ControllerProofs` | theorems about `Controller` | |
| `EpgStore` | the programs' array, `python_mutex`, the recursive `epg_mutex`, request threads, lookups | an array is a sequence of programs that know their slot and answer; `main` holds the address and length it read |
| `EpgParser` | `epg.c` 300-850: the XML reader's walk over the answer | a document is any sequence of nodes; `at` is the reader's place in it, `expects` what the search is for; one action per search and per node skipped |
| `EpgProofs` | theorems about `EpgStore` and about `EpgParser` | |
| `Framing`, `FramingProofs` | `messenger_receive_message` and its buffer | a message is five units (header in two parts, body, end tag, newline); sizes are in units, and grow from `BufferSize` to `Growth` times that, 16 in the code |
| `ClientSession`, `ClientSessionProofs` | the session with the client: accept, receive, acknowledge, send, alive timer, drop | `pc` is the place in main's pass; time is in ticks much longer than a pass |
| `IpcConnection`, `IpcConnectionProofs` | both `ipc.c` | controllers are numbered by their starts, commands by their sending; `pending` is the listen queue |
| `Wire` | `messenger.c` 20-4157: the XML of every message, read and written | operators, no state: a document is the sequence of nodes libxml2's reader stops at. `Try` is one `parse_..._xml`, `Children` its loop, `Parse` is `parse_xml`, which tries them in turn (`Tried`) from wherever the last one left the reader; `Generate` is `generate_xml`. `Plain`, `Means` and `Tells` are the reference definition: which documents a format has, and that given items are all, or the first, of what a document says, told by places in it and not by walking through it |
| `UserLoudness` | the saving and loading of user loudness over its tables | `pc` is the next statement; `files`, `file`, `section`, `list_data` are the loops' variables; `RowsRead` answers with whatever a row that was not read may hold |
| `ChannelKeys` | `main.c` 516-657 and `irremote.c`: the threads that send keys, the box, the saved channel | `keys[t]` is what a thread has yet to send; `entered` and `tuned` are the box's |
| `Requests` | main's case for each message, from document to commands, answer, schedule, tables and keys | composes `Wire` (an instance), `UserLoudness` and `ChannelKeys` (extended): main is one thread that carries one message out at a time while key threads go on; `did` is what it sent in the step before |
| `RequestsProofs` | theorems about `Requests` | |

`UserLoudness`, `ChannelKeys` and `Requests` extend one another in that order;
one message is the whole of a client there, for `Framing` and `ClientSession`
have how it arrives and what becomes of its sender. A kill takes main, its threads and the message; the tables, the box
and the digits in it stay.

The `MC...` modules only give the constants values that a `.cfg` cannot spell.
Definitions next to an action whose comment says "mutant" or "in the first form"
are plausible bugs of that action; they are used by `PROJECT.json` to show that
each property can fail, and by nothing else.

`Monitor` implements `Sessions` (`S == INSTANCE Sessions WITH ...` in `Monitor`,
`SessionsSpec`): a session is active from the step that sets it up to the step
that tears its context down, whatever flag and file say in between.

## 3. What is checked

| Run | Question | Bounds, and why they are enough |
|---|---|---|
| `monitor_av` | Does every interleaving of main, audio and video thread keep contexts alive while used, sessions whole, mutexes unnested, and `Sessions` implemented? | two names (to tell a report's own from the next), FIFO of 2, 3 frames: start, replace and end fall between any two visits of the audio thread, and the FIFO is full and empty. The proofs lift every bound and add all commands together |
| `monitor_live` | Does main come round, does the FIFO drain, does shutdown end? | log and audio sessions, FIFO of 3, 2 frames: writers block, main reads, shutdown meets any fill |
| `controller_day` | Is the entry recorded, do memory, database and monitor agree, have rows the right program and loudness? | two channels, two programs on one, an entry over their border that may be taken back and come again as it was or with another end, one message or stop, and one fault (crash, failed call, failed send or an edit on stdin) anywhere: each pair of a disturbance and a fault at every step |
| `controller_faults` | Do faults leave more behind than one row each? Does recording stop in the end? | a schedule of nothing or of two adjacent entries, changed on stdin, and any two faults: the second while the first is being repaired |
| `broadcast` | Is the sound encoded in order and stamped in step with the pictures, and are packets full and in order, from every chunking? | frames of 2 samples, captures up to 3, nine samples, 2.5 samples to a picture: none, one and more frames between two pictures. Packets of 2 bytes, chunks up to 5: below, at and above one and two packets. A failed call and a failed send |
| `epg_store` | Are answers whole, do they touch their slot only, does main scan what is there? | two slots with remotes that may fail, two channels, threads and addresses (a freed block may come back), and one fault of any kind: a failed script, a program skipped, an allocation. The proofs lift the bounds |
| `epg_store_live` | Does main leave every lookup, does the guide become the tuned channel's? | one slot that changes channel, or is asked to in vain, under two requests. The refresh needs a thread for each slot at once, so a second slot needs four threads, which is too many states; slots share the array and the mutexes only, which `epg_store` has |
| `epg_parser` | Is a document parsed to its programmes? | two programmes of eight contents each, with and without times, after a document type and a channel or without, under `tv` or another root, cut at every node |
| `framing` | Are messages delivered as sent, in order, once, and none lost? | two connections, up to two messages each, good, odd or broken; pieces of every length; a buffer of 3 units that doubles twice, so it overflows |
| `client_session` | Is a client dropped only for its silence, and then surely; is one that waits accepted? | two clients, one served while the other waits; timeout of 2 ticks, one ALIVE on its way |
| `client_requests` | Is a document read as it is meant, user loudness saved whole and listed only when complete, what is answered what is kept, the box on the channel main believes in? | two files, two recordings of which one is in the playback list, two sections; documents of every type with blanks, texts, missing attributes, unclosed and nested children in every position of up to two; then proper ones, so that a message is saved over one a fault cut short. One failed statement or kill, one lost key, two key threads, channels of two and four digits, two messages or entries |
| `ipc_connection` | Are commands executed in order over restarts, and is the running controller served in the end? | backlog of the code (1), four controllers, five commands, one restart of the monitor |

All of these hold. Each property fails under its mutant. The modules' `TypeOK`s
are there for the reader and for the proofs; only `Streamer`'s, which says that
the packet buffer is never full, is an invariant of a run.

`CHECK_DEADLOCK FALSE` is said where the system may stop: `Monitor` exits, or
hangs in shutdown on a full FIFO (section 6); `Controller` may be down, or at the
end of its bounded clock; a parse and the streams of `Framing` end; `Requests`
runs out of messages.

### Fairness

* `Monitor`: weak fairness of the two threads, which the scheduler runs when
  they can run, and strong fairness of main, which waits for mutexes the audio
  thread takes and gives back again and again; the audio thread sleeps in the
  sound card between its rounds with none of them held. Nothing makes commands
  arrive.
* `Controller`: the loop runs while the controller is up, and time passes.
  Nothing makes users, guides or a restart happen.
* `EpgStore`: threads run, scripts end (their requests have a
  timeout, `external/epg2xml/epg2xml.py` 453), nobody starves
  at a mutex, and main's refresh, which is in its loop, comes again. Nothing
  makes users change a channel or stop doing so: `GuideCatchesUp` says what
  follows when a slot's channel stays and no other is asked for any more.
* `Framing`: the loop goes round, and what is sent arrives.
* `ClientSession`: main runs unless it is blocked in a send, the clock runs, and
  a client that is well sends in time. Nothing makes a client read, close or
  connect: TCP gives no peer up that acknowledges the probes of its full window,
  and `messenger_send_message` tries for ever. `SilentIsDropped` and
  `WaitingIsAccepted` therefore name the client that stays connected without
  reading as what they do not hold for (section 6).
* `IpcConnection`: the monitor receives in every pass and reports every 100 ms.

## 4. What is proved

All proofs are for every value of the constants that satisfies the modules'
`ASSUME`s (the bounds are arbitrary numbers there).

**`MonitorProofs`.** The inductive invariant is `IInv == TypeOK /\ LockInv /\
PipeInv /\ SessionInv /\ FeedInv`:

* `LockInv` reads the holder of every mutex from where the threads are: without
  it a step of one thread says nothing about what another may be doing.
* `PipeInv` ties what a thread has left to write to its place, so that only the
  recorder's mutex is ever held over a FIFO write.
* `SessionInv` says flag, context, file and name of a session agree except in
  the handler that is changing them, and between which two steps of it.
  `NoUseAfterDestroy` alone is not inductive: that a context is live when the
  audio thread uses it follows from the flag it tested under the mutex only
  together with this agreement.
* `FeedInv` says the last frame a session took is the one captured last or the
  one before, depending on whether the audio thread is past its mutex.

From it: `TypeCorrect` (`[]TypeOK`), `Safe` (`[]NoUseAfterDestroy`), `Whole`
(`[]SessionsWhole`), `NoEmbrace` (`[]NoHoldAndWait`) and `Refinement` (`Spec =>
SessionsSpec`), whose step needs `FeedInv` for consecutive frames and
`SessionInv` for the report's name.

**`BroadcastProofs`.** Of `Streamer` alone, `TypeCorrect`: the buffer never
holds a whole packet between calls; and `InOrderAlways`: what was sent and what
the buffer holds are, in order, bytes that were taken, none twice, and all of
them while no send failed. The invariant says so inside the packet loop too, for
the rest of the chunk; the lemmas are about cutting and rejoining sequences.
`Composed`: `Broadcast` implements both `Recorder` and `Streamer`, so what each
promises holds of the two together; `BroadcastInOrder` follows from
`InOrderAlways` by it. `SoundAlways`: the invariant `SoundInv` compares every
two samples, for the order of neighbours alone says nothing when the frame
between them is lost. `InStepAlways`: the invariant `StampInv` says that a stamp
is as far past its picture's time as there are frames stamped for that picture
before it, and that the recorder's two counters are those of the last frame;
with fewer frames than the picture's time has samples the stamp is in that time
(`InItsTime`, by counting), and the next picture's is later (`StampRises`:
samples are at least as many as pictures).

**`IpcConnectionProofs`.** `TypeCorrect` ties what the kernel holds to the
monitor's descriptors: linked is what is served or waits. `InOrderAlways`:
commands are executed in the order they were sent, over any restarts. Its
invariant is `IInv == TypeOK /\ OldestServed /\ QueueInv /\ InOrder`; `InOrder`
alone is not inductive, for a command received last must be below all that are
still queued (`QueueInv`), and that holds on because a connection is accepted
only when none is open, so no controller older than the one served has a command
left (`OldestServed`, lemma `OlderGone`). `Kept` (`CommandsKept`) follows step
by step from `TypeOK`.

**`ControllerProofs`.** The inductive invariant is `CInv`, a conjunction of ten
parts, each shown to be kept by every action in a lemma of its own that uses the
parts it needs:

* `Shape` types the records and the counts.
* `Named` says, per place in the ladder of calls, whether memory and the saved
  status name a recording; it gives `NamedAlways`.
* `Remembered` says what may differ between memory and tables at each place, as
  long as no call failed; it gives `DurableAlways`.
* `AgreesAv` and `AgreesLog` say what the monitor was told at each place, and
  that the row of what it was told is open; they give `Agreed`.
* `Described` and `Own` say whose program and loudness the row at hand carries;
  they give `DescribedAlways` and `LoudnessOwn`.
* `Orphans` counts: open rows nobody names, and those about to become so, are no
  more than crashes and failed calls. It holds for any number of faults, where
  the run has two; it gives `OrphansAlways`.
* `Scheduled` and `EntryKept` say of the entry in `current_schedule` that it has
  begun by the clock, and that it is being recorded or over (`Over`: whatever is
  in the schedule under its start and channel has ended); of one that begins,
  that it is recorded by the time the status is saved; and that a step which
  leaves an entry unrecorded is a withdrawal, a failed send or the entry's end.
  They give `EntryRecordedAlways`.

None of the properties is inductive: all speak of one place in the loop, and the
parts are what they become between two calls. `schedule_del` is not a
`SelectSeq` but a choice of places (`Without`), so that it can be reasoned
about.

**`ClientSessionProofs`.** `DroppedOnlyForSilence`: the invariant's part
`InTime` says that, once what the client sent has been received, the timer is at
most a tick ahead of that client's silence. A client is accepted in the middle
of a pass, though, when the timer was set last with no client there:
`UnservedFresh` bounds it then. `Waits` (each connection is served or waits
once, and is not away) keeps what happens to one connection from touching
another.

**`EpgProofs`.** `ScanAlwaysDefined`: the invariant is `Exclusive` (who is
inside holds `epg_mutex`, a thread once, main once or, nested, twice),
`Measured` (the length is the array's but between `epg_delete`'s two
assignments) and `ReadBack` (what main has read is what the variables hold,
unless a thread has been there since). `GuidesOfOneAnswer` and
`GuidesChangedByTheirOwn` need `GInv` besides: a thread that replaces programs
is the one whose callback `python_mutex` is held for (`Serial`), so no other
works on the same slot, or on any; between `epg_delete`'s copying and the end of
`epg_insert` the slot has no programs (`Emptied`), so what `Fill` appends is all
of its guide; without a block there are no programs (`NoBlock`). Both are about
what `epg_delete` keeps: `Picked` takes the n-th place of a set of places by
counting those before it, and the lemmas on it say that what is kept of another
slot is that slot's guide, place by place, which holds for arrays of any length
without an induction.

The parser's walk is over a document, not over a recursion, so what it makes of
a document of any length is an invariant of its steps. `PInv` has two parts
besides the types. `Forward`, for every document: what was taken lies behind the
reader, each text behind its programme and before the next one;
`TextsAlwaysForward` is that. `Walk`, for the well formed ones: where the parser
looks for a programme, the programs read are the programmes before it
(`TakenBefore`); where it looks for a title or its text, they are those before
the one at hand, and no programme and no title lie between that one and the
reader (`InTitle`). That a programme has a title before the next begins puts the
next title it finds in the right one (`TitleAhead`), and at the end of the
document everything is taken, which `AlwaysParsesExactly` says.
`ParserTypeCorrect` goes along with it.

**`FramingProofs`.** `FramingTypes`, `DeliveredAlways` and `NoneLostAlways`
follow from `FramingInv`, whose part `Consistent` looks at the flow: what the
buffer holds followed by what the client has yet to be read of. The flow's units
are in the order they were sent in (`InOrder`), and all later than whatever was
delivered (`Ahead`), which is good and whole (`AsSent`); a unit that was
received is still in the buffer or earlier than all of the flow, and a good
message received whole is in the buffer, delivered, or followed by a cut header
(`AllThere`). Of two units that follow each other the second is the next of its
client or the first of a later client's (`Follows`), so a candidate that has the
five parts of a message has them of one message (`PartFollows`, `PassResult`),
and an end tag never stands in the buffer without what comes before it
(`EndIsWhole`). Four lemmas keep `Consistent`: bytes are taken (`Taking`) or
lost with their connection (`Shorter`), a client follows another (`NextClient`),
a pass looks for a message (`Passing`, with `PassLoses` for what it throws
away).

**`RequestsProofs`.** `Tuned`: the invariant `KeysInv` adds to `TunedAsAsked`
that a change that had the box to itself is followed by exactly the keys it
still needs for what the box holds (`Undisturbed`), for any channel below 1000
(lemma `KeySent`), and that the cards main still has to see to ask for numbers
(`FromClient`, from the assumption `DocumentsHold` about the documents).
`Saving` and `Listing`: the invariant `UserInv` says at each statement what of
the message is in the tables and what is left to do (`Cursor`, `RowKept`,
`SectionsKept`, `CopyKept`, `ListedKept`). A message may name a file twice, so
"what was sent" is what its last mention says (`Final`), and a table has it
unless a later mention is still to come (`Left`); without this distinction the
statement that a saved row is right is not kept by the loop over the files.
`Reading` is `ReadAsMeant` for documents of any length with any nodes in them
(the one assumption, `DocumentsAreSequences`, is that a document is a sequence).
The library's induction rules take an operator and cannot be used, so the
inductions are by a least counterexample (`Least`, `Climb`): the recursive
functions `Children` and `Tried` satisfy their equations because every child is
read up to behind itself (`LoopStep`, `TriedIs`); a loop that is content has read
the children from where it began to where it stopped, in their order
(`LoopReads`); a child's sections are those up to its end (`ItemSays`); so what is
read tells the first children there are (`ItemsTell`). In a plain document the way
from each part leads on to its end (`Whole`, `FileWhole`, `PlainRead`), and in the
row of parsers the one of the document's type decides (`ParsedBy`). The attempt
showed that the reference definition had been too loose for documents the runs
did not have: a bare message with an element in it that has the placeholder's
name "none", a section behind a file's end, and a message without an end were
told differently. The definition now says these, and the run has such documents.

`Telling` is `ToldAsKept`, the way back: what `Generate` writes of an answer means
that answer. `Generate` lays the parts of its items end to end with `FlattenSeq`,
itself a recursive function, of which `Joined`, `JoinIs` and `Flattened` say what it
is by the same kind of induction. An item that is written behind a document adds
one child behind all the others, with its sections, and leaves what the others say
alone (`ToldMore`, from `SaysWritten` and `SaysLonger`); so do the end tag of the
message (`ToldToTheEnd`) and, one by one, all items (`ToldAll`). The rest is what
the answers are: the entries that are not old keep their order (`RecentAre`), and
where the names with rows come first among those asked for, the rows read are
theirs and none is left over from the heap (`FirstPlaces`, `RowsInOrder`), so that
the request cannot stay without an answer (`FilesTold`). The invariant `TellInv` is
`UserInv` with the schedule's type. The proof rests on `DocumentsHold`, on
`NamesAreFinite` (the playback list can be listed) and on `ListsAreSequences` (the
channel and log tables are lists). `Recent` is a recursive function, where
`SelectSeq` would be shorter, because the provers cannot expand that one; what it
is to be is said apart from it, by places (`AreRecent`).

Only model-checked are the liveness properties
`MainKeepsLooping`, `FifoDrains`, `ShutdownEnds`, `RecordingStops`,
`MainReturns`, `GuideCatchesUp`, `Drains`, `SilentIsDropped`, `WaitingIsAccepted`
and `Served`: the provers have no rules for fairness and `ENABLED` that would carry them.

## 5. What is left out

* What samples, pictures and loudness values are; the codecs and the container
  format, with the time stamps of pictures, a plain count; V4L2 and ALSA; log
  output. Nothing modelled depends on them.
* The characters of names, texts and dates in messages, and the lengths they
  are cut to; well-formedness, which libxml2 sees to.
* Several slots in `Controller`: slots share only the database, by row, and the
  guide, which `EpgStore` has. A channel change is one step there; its keys are
  in `ChannelKeys`. `Requests` has one box too, boxes share nothing.
* The raw IPC commands on stdin (`controller/main.c` 4296-4358), a debugging
  aid: they go to the monitor behind the controller's back.
* What shutdown does to detached threads.
* Failures to lock or unlock a mutex, and of memory where it ends the program
  or leaves what another failure leaves: a failed `realloc` of the messenger's
  buffer (`messenger.c` 4565) is dereferenced in the same pass, so the
  behaviours of `Framing` stop there. The four buffers of a user loudness message
  (`main.c` 1414, 1441, 3382, 3403) are in `NoMemory` and `SaveFails`.
* Documents with negative numbers for channels and cards (`DocumentsHold`):
  `strtol` reads them and main takes them for places in its arrays (`main.c`
  2868). Times in schedules are numbers; a text that is no time is a 0
  (`main.c` 3071-3084).
* `Requests` has no SCHEDULE table: a restart finds the entries main had, none
  after a message for which there was no memory (`TakeNoSchedule`).
  `Controller` has the table, and a load that fails.
* `Controller` has a command that was sent take effect at once. What the socket
  may lose with a controller that stops is in `IpcConnection`; their composition
  is planned.

## 6. What the models show about the code

Behaviour that is surprising but that no text of the repository contradicts; the
properties say where they except it.

* An entry taken back while under way and sent again is not started again:
  `current_schedule` still names it (`controller/main.c` 3848; `EntryRecorded`).
  Nor is an entry of channel 0 that starts at time 0: it looks like the
  `current_schedule` cleared at the start. The proof asked for this case; no
  client is known to send such an entry.
* If saving the status fails and the controller then stops, the restarted one
  may not know of a recording the monitor goes on with (`RecordingStops`).
* Shutdown of the monitor hangs when a thread or the trailer meets a full FIFO
  after main has left its loop (`monitor/main.c` 1341-1357; `ShutdownEnds`).
* The looked-up array may have been freed between main's reading its address and
  its getting `epg_mutex` (`controller/main.c` 4108; `ScanDefined`).
* A failed `realloc` in `epg_insert` loses every slot's guide and leaves entries
  unwritten (`controller/main.c` 1696; `OnlyItsOwn`, `Junk`).
* A programme without a title takes a later one's and swallows it (`epg.c` 408;
  `TextsForward`).
* A connection cut inside a header costs the good message before it, once the
  next client's data comes. The cut header may be that client's own or a later
  client's (the latter came up in the proof); a full buffer is emptied, good messages and all
  (`messenger.c` 4559-4586; `NoneLost`).
* A client that does not read stops the controller's loop, the alive timer with
  it, for as long as it stays connected, which nothing bounds (`messenger.c`
  4466; `SilentIsDropped` and `WaitingIsAccepted`); one accepted right after
  another timed out is dropped with it (`main.c` 3806; `DroppedForSilence`).
* A channel change requests the guide of the channel asked for whether or not the
  channel is taken over, which needs a remote and a change that succeeds
  (`main.c` 2877 and 2981, 3898 and 3985). A client that asks again and again for
  a channel in vain replaces the guide of the tuned one each time until the next
  refresh (`GuideCatchesUp`, `AskedInVain`).
* A status that cannot be loaded at the start is empty, and is saved so over the
  STATUS table at the end of the start (`main.c` 2509-2582; `Boot`): what was
  being recorded is forgotten.
* When the command for the audio file of a log fails, the log's row gets what the
  stack holds for its `record_name` (`main.c` 758, 2553; `Leftover` in
  `Controller`).
* A controller never connects again after its monitor restarted, and a report
  to a controller that is gone discards the commands that wait
  (`CommandsKept`, `Served`).
* `recorder_uninit` leaves an audio-only recorder as it is, with its file open
  and its trailer unwritten (`recorder.c` 689). Not checked: files are not
  modelled. The same holds of `memcpy` on overlapping regions (`messenger.c`
  4634), which `Framing` takes for the move it is in the C library in use.
* Frames captured while a picture is late are stamped one after the other, and
  after as many as its time has samples (38 s at the configured 48 kHz, 29.97
  pictures a second and 1152 samples to a frame) they run into the next
  picture's time: the stamps after it go back
  (`recorder.c` 884; `Crowded` in `SoundInStep`).
* Of a recording of sound alone what does not fill a frame is not encoded, at
  its end (`recorder.c` 853; `AudioRestart`).
* An entry prolonged after it was over is not recorded again: `current_schedule`
  still names its start and channel (`controller/main.c` 3848; `Withdraw`).
* Two channel changes in a row interleave their keys, a failed key ends its
  thread, and a channel from 1000 up loses its last digits. The channel asked for
  is saved all the same, and asking again sends nothing (`main.c` 558, 2864;
  `TunedAsAsked`). `pthread_create`'s failure, a positive number, passes for
  success (`main.c` 648).
* A request that names a file without a row before one with a row is answered
  with uninitialised memory (`database.c` 1077, `main.c` 1489; `ToldAsKept`).
* A file saved without sections keeps the sections it had, and when it has none
  a request for it is not answered (`main.c` 3399; `ToldAsKept`). The
  generator writes such a file as `<file/>`, which the parser refuses (`File`).
* A text, or a child's end tag where none is expected, ends a message early and
  silently; a child with the name of a message a later parser knows is taken for
  that message (`messenger.c` 4157; `ReadAsMeant`).
* The copy of a recording's row under a user's name is made once: when the
  recording is still under way it never gets its end and loudness (`main.c` 1448).

## 7. Plan

In this order:

1. `System`: `Controller`'s commands through `IpcConnection` to an abstract
   monitor that implements `Sessions`; `MonitorAgrees` over both programs'
   restarts.
2. Initialisation and clean-up ladders of both mains: what is released when the
   n-th step fails.
3. The file name filter and the loudness report that carries the name.
