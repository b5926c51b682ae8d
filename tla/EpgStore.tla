------------------------------ MODULE EpgStore ------------------------------
(* The programme guide of the controller: one array of all slots' programs,   *)
(* filled by request threads and read by the main loop.                       *)
(*                                                                            *)
(* A request thread (epg.c, request_data_thread) runs the python script, one  *)
(* thread at a time (python_mutex), and with that mutex still held calls      *)
(* epg_request_callback, which replaces its slot's programs in the array in   *)
(* two critical sections of epg_mutex: epg_delete and epg_insert.  The array  *)
(* is malloc'ed anew by the one and realloc'ed by the other.  The main loop   *)
(* looks programs up under epg_mutex as well, but passes the array's address  *)
(* and length by value: it reads both before it takes the mutex.              *)
EXTENDS Naturals, Sequences, SequencesExt, FiniteSets

CONSTANTS
  Slots,          \* the monitors, an array of programs each
  Remotes,        \* the slots with a remote: those below lircd_socket_name_count
  Channels,
  Threads,        \* bound: request threads alive at one time
  Addresses,      \* bound: where the heap may put the array
  Null,           \* the null pointer
  MaxPrograms,    \* bound: programs in one answer of the script
  MaxFailures,    \* bound: scripts that fail or bring less than a whole answer
  MaxOutOfMemory, \* bound: allocations that fail
  Unread,         \* what main has not read yet
  NoOne,          \* the owner of a free mutex
  Main            \* the main thread

ASSUME ThreadsAreNotMain == /\ NoOne \notin Threads \cup {Main}
                            /\ Main \notin Threads
ASSUME NullIsNoAddress == /\ Null \notin Addresses \cup Slots
                          /\ Unread \notin Addresses \cup {Null} \cup Nat
ASSUME RemotesAreOfSlots == Remotes \subseteq Slots
ASSUME BoundsAreNumbers == {MaxPrograms, MaxFailures, MaxOutOfMemory} \subseteq Nat

VARIABLES
  tuned,       \* status[].channel
  request,     \* the request threads: where each is, for which slot and channel
  python,      \* the owner of python_mutex
  owner,       \* the owner of epg_mutex ...
  depth,       \* ... and how often it took it: the mutex is recursive
  epg,         \* the array's address, a variable of main
  epg_count,   \* its length, a variable of main
  array,       \* what is in the block at epg, as far as written
  main,        \* the main loop: where it is and the address and length it read
  overtaken,   \* history: a thread replaced the array after main read address or length
  failures, outOfMemory

mutexes == <<python, owner, depth>>
store == <<epg, epg_count, array>>
vars == <<tuned, request, mutexes, store, main, overtaken, failures, outOfMemory>>

Idle == [pc |-> "none"]

(* A program as main finds it: which answer it is from is the thread that     *)
(* fetched it, and its number is that among the programs kept of the answer.  *)
(* An entry realloc never filled in is Junk.                                  *)
Program == [slot : Slots, channel : Channels, from : Threads, nr : 1..MaxPrograms]
Junk == [slot |-> Null]

TypeOK ==
  /\ tuned \in [Slots -> Channels]
  /\ request \in [Threads ->
       {Idle} \cup [pc : {"script", "delete", "copy", "shorten", "insert", "grow", "fill"},
                    slot : Slots, channel : Channels, count : 0..MaxPrograms]
              \cup [pc : {"wait"}, slot : Slots, channel : Channels]]
  /\ python \in Threads \cup {NoOne}
  /\ owner \in Threads \cup {Main, NoOne}
  /\ depth \in 0..2 /\ (depth = 0 <=> owner = NoOne)
  /\ epg \in Addresses \cup {Null}
  /\ epg_count \in Nat
  /\ array \in Seq(Program \cup {Junk})
  /\ main \in [pc : {"loop", "read", "scan", "nested"},
               epg : Addresses \cup {Null, Unread}, epg_count : Nat \cup {Unread},
               slots : SUBSET Slots]
  /\ overtaken \in BOOLEAN
  /\ failures \in 0..MaxFailures
  /\ outOfMemory \in 0..MaxOutOfMemory

-----------------------------------------------------------------------------
(* The mutexes.                                                               *)

(* PTHREAD_MUTEX_RECURSIVE: the owner may take epg_mutex again. *)
LockFreeOnce(p) == owner = NoOne
LockFree(p) == owner \in {NoOne, p}

Lock(p) ==
  /\ LockFree(p)
  /\ owner' = p
  /\ depth' = depth + 1

Unlock ==
  /\ depth' = depth - 1
  /\ owner' = IF depth = 1 THEN NoOne ELSE owner

-----------------------------------------------------------------------------
(* The request threads.                                                       *)

(* epg_request: a new thread for a slot and a channel.  `requests` are the     *)
(* (slot, channel) pairs asked for in one step of the loop.                   *)
Spawn(requests) ==
  \E new \in [requests -> Threads] :
    /\ IsInjective(new)
    /\ \A r \in requests : request[new[r]] = Idle
    /\ request' = [t \in Threads |->
         IF \E r \in requests : new[r] = t
         THEN LET r == CHOOSE r \in requests : new[r] = t
              IN [pc |-> "wait", slot |-> r[1], channel |-> r[2]]
         ELSE request[t]]

At(t, pc) == request[t].pc = pc
Goto(t, pc, count) ==
  request' = [request EXCEPT ![t] =
                [pc |-> pc, slot |-> @.slot, channel |-> @.channel, count |-> count]]

(* The thread ends: whichever return it takes, python_mutex is released. *)
End(t) ==
  /\ request' = [request EXCEPT ![t] = Idle]
  /\ python' = NoOne
EndHolding(t) == request' = [request EXCEPT ![t] = Idle] /\ UNCHANGED python

TakePython(t) ==
  /\ At(t, "wait")
  /\ python = NoOne
  /\ python' = t
  /\ Goto(t, "script", 0)
  /\ UNCHANGED <<tuned, owner, depth, store, main, overtaken, failures, outOfMemory>>

(* The callback runs after python_mutex was released. *)
AnswerReleasing(t) ==
  /\ At(t, "script")
  /\ \E n \in 1..MaxPrograms : Goto(t, "delete", n)
  /\ python' = NoOne
  /\ UNCHANGED <<tuned, owner, depth, store, main, overtaken, failures, outOfMemory>>

(* The script ends, and its answer is read back from the slot's file          *)
(* (epg_receive_data): some programs, or none.                                *)
Answer(t) ==
  /\ At(t, "script")
  /\ \E n \in 0..MaxPrograms :
       /\ n = 0 => failures < MaxFailures
       /\ failures' = failures + (IF n = 0 THEN 1 ELSE 0)
       /\ Goto(t, "delete", n)
  /\ UNCHANGED <<tuned, mutexes, store, main, overtaken, outOfMemory>>

(* system() fails and the thread returns with python_mutex held. *)
ScriptFailsHolding(t) ==
  /\ At(t, "script")
  /\ failures < MaxFailures
  /\ failures' = failures + 1
  /\ EndHolding(t)
  /\ UNCHANGED <<tuned, owner, depth, store, main, overtaken, outOfMemory>>

(* The script, the reading or the parsing of its answer fails.  A request of  *)
(* the stdin command "epg_request", which only prints its answer, holds       *)
(* python_mutex in the same way.                                              *)
ScriptFails(t) ==
  /\ At(t, "script")
  /\ failures < MaxFailures
  /\ failures' = failures + 1
  /\ End(t)
  /\ UNCHANGED <<tuned, owner, depth, store, main, overtaken, outOfMemory>>

(* The array changes: main may have read its address or length already and   *)
(* not got the mutex yet.                                                     *)
Overtake ==
  overtaken' = \/ overtaken
               \/ main.pc = "read" /\ {main.epg, main.epg_count} # {Unread}

(* epg_delete: what the slot does not own is copied to a new block while the  *)
(* old one still stands, so the addresses differ; whether Junk happens to     *)
(* have the slot's index decides how much of it is copied.  The address is    *)
(* assigned in one step, the length in the next.                              *)
LockForDelete(t) ==
  /\ At(t, "delete")
  /\ Lock(t)
  /\ Goto(t, "copy", request[t].count)
  /\ UNCHANGED <<tuned, python, store, main, overtaken, failures, outOfMemory>>

Nth(places, n) == CHOOSE i \in places : Cardinality({j \in places : j <= i}) = n
Picked(places) == [n \in 1..Cardinality(places) |-> array[Nth(places, n)]]

Own(s) == {i \in DOMAIN array : array[i] # Junk /\ array[i].slot = s}
JunkOnly == {i \in DOMAIN array : array[i] = Junk}
Others(s) == DOMAIN array \ (Own(s) \cup JunkOnly)

(* The comparison of the index turned round: the slot's own are kept. *)
RemainingOwn(s) == {Picked(Own(s))}

Remaining(s) ==
  {[i \in 1..n |-> Junk] \o Picked(Others(s)) : n \in 0..Cardinality(JunkOnly)}

NothingToDelete(t) ==
  /\ At(t, "copy")
  /\ epg = Null \/ array \in Remaining(request[t].slot)
  /\ Unlock
  /\ Goto(t, "insert", request[t].count)
  /\ UNCHANGED <<tuned, python, store, main, overtaken, failures, outOfMemory>>

CopyRest(t) ==
  /\ At(t, "copy")
  /\ epg # Null
  /\ \E rest \in Remaining(request[t].slot) \ {array} : array' = rest
  /\ epg' \in Addresses \ {epg}
  /\ Overtake
  /\ Goto(t, "shorten", request[t].count)
  /\ UNCHANGED <<tuned, mutexes, epg_count, main, failures, outOfMemory>>

CopyFails(t) ==
  /\ At(t, "copy")
  /\ epg # Null
  /\ Remaining(request[t].slot) # {array}
  /\ outOfMemory < MaxOutOfMemory
  /\ outOfMemory' = outOfMemory + 1
  /\ Unlock
  /\ End(t)
  /\ UNCHANGED <<tuned, store, main, overtaken, failures>>

Shorten(t) ==
  /\ At(t, "shorten")
  /\ epg_count' = Len(array)
  /\ Overtake
  /\ Unlock
  /\ Goto(t, "insert", request[t].count)
  /\ UNCHANGED <<tuned, python, epg, array, main, failures, outOfMemory>>

(* epg_insert without its mutex, which is then not unlocked either. *)
LockForInsertNot(t) ==
  /\ At(t, "insert")
  /\ Goto(t, "grow", request[t].count)
  /\ UNCHANGED <<tuned, mutexes, store, main, overtaken, failures, outOfMemory>>

(* epg_insert: realloc leaves the block where it is or moves it; when it      *)
(* fails the address is lost and the length stays, for what the next realloc  *)
(* makes room for but never fills in.  realloc of a block to no size at all   *)
(* frees it and returns NULL, which looks like a failure; of no block to no   *)
(* size it returns one.                                                       *)
LockForInsert(t) ==
  /\ At(t, "insert")
  /\ Lock(t)
  /\ Goto(t, "grow", request[t].count)
  /\ UNCHANGED <<tuned, python, store, main, overtaken, failures, outOfMemory>>

UnlockIfLocked(t) == IF owner = t THEN Unlock ELSE UNCHANGED <<owner, depth>>

Grow(t) ==
  /\ At(t, "grow")
  /\ epg_count + request[t].count # 0 \/ epg = Null
  /\ epg' \in Addresses
  /\ Overtake
  /\ Goto(t, "fill", request[t].count)
  /\ UNCHANGED <<tuned, mutexes, epg_count, array, main, failures, outOfMemory>>

GrowFails(t) ==
  /\ At(t, "grow")
  /\ \/ /\ epg_count + request[t].count = 0 /\ epg # Null
        /\ outOfMemory' = outOfMemory
     \/ /\ outOfMemory < MaxOutOfMemory
        /\ outOfMemory' = outOfMemory + 1
  /\ epg' = Null
  /\ array' = [i \in 1..epg_count |-> Junk]
  /\ Overtake
  /\ UnlockIfLocked(t)
  /\ End(t)
  /\ UNCHANGED <<tuned, epg_count, main, failures>>

(* A program whose start or stop strptime refuses is skipped. *)
Fill(t) ==
  /\ At(t, "fill")
  /\ LET r == request[t]
         Kept(n) == [i \in 1..n |-> [slot |-> r.slot, channel |-> r.channel, from |-> t, nr |-> i]]
     IN \/ array' = array \o Kept(r.count) /\ UNCHANGED failures
        \/ /\ failures < MaxFailures /\ failures' = failures + 1
           /\ \E n \in 0..r.count : n < r.count /\ array' = array \o Kept(n)
  /\ epg_count' = Len(array')
  /\ Overtake
  /\ UnlockIfLocked(t)
  /\ End(t)
  /\ UNCHANGED <<tuned, epg, main, outOfMemory>>

-----------------------------------------------------------------------------
(* The main loop.                                                             *)

(* A channel change by a user or a schedule entry.  The channel is taken over *)
(* only if the slot has a remote and channel_change succeeds; the guide of    *)
(* the channel asked for is requested in any case.                            *)
Tune(s) ==
  /\ main.pc = "loop"
  /\ \E c \in Channels \ {tuned[s]} :
       /\ \/ s \in Remotes /\ tuned' = [tuned EXCEPT ![s] = c]
          \/ UNCHANGED tuned
       /\ Spawn({<<s, c>>})
  /\ UNCHANGED <<mutexes, store, main, overtaken, failures, outOfMemory>>

(* Every three hours each slot's channel is asked for again. *)
Refresh ==
  /\ main.pc = "loop"
  /\ Spawn({<<s, tuned[s]>> : s \in Slots})
  /\ UNCHANGED <<tuned, mutexes, store, main, overtaken, failures, outOfMemory>>

AtLoop == [pc |-> "loop", epg |-> Unread, epg_count |-> Unread, slots |-> {}]

(* get_current_epg is called by the loop, once per slot and pass, and by the  *)
(* stdin command "epg", which then looks every slot up with the mutex held.   *)
BeginLookup ==
  /\ main.pc = "loop"
  /\ \/ main' = [AtLoop EXCEPT !.pc = "read"]
     \/ main' = [AtLoop EXCEPT !.pc = "read", !.slots = Slots]
  /\ UNCHANGED <<tuned, request, mutexes, store, overtaken, failures, outOfMemory>>

(* The arguments, in the order the compiler likes. *)
ReadAddress ==
  /\ main.pc = "read" /\ main.epg = Unread
  /\ main' = [main EXCEPT !.epg = epg]
  /\ UNCHANGED <<tuned, request, mutexes, store, overtaken, failures, outOfMemory>>

ReadLength ==
  /\ main.pc = "read" /\ main.epg_count = Unread
  /\ main' = [main EXCEPT !.epg_count = epg_count]
  /\ UNCHANGED <<tuned, request, mutexes, store, overtaken, failures, outOfMemory>>

BeginScan ==
  /\ main.pc = "read" /\ Unread \notin {main.epg, main.epg_count}
  /\ Lock(Main)
  /\ main' = [main EXCEPT !.pc = "scan"]
  /\ UNCHANGED <<tuned, request, python, store, overtaken, failures, outOfMemory>>

BeginNested ==
  /\ main.pc = "scan" /\ main.epg # Null /\ main.slots # {}
  /\ Lock(Main)
  /\ main' = [main EXCEPT !.pc = "nested"]
  /\ UNCHANGED <<tuned, request, python, store, overtaken, failures, outOfMemory>>

EndNested ==
  /\ main.pc = "nested"
  /\ Unlock
  /\ \E s \in main.slots :
       main' = [main EXCEPT !.pc = "scan", !.slots = @ \ {s}]
  /\ UNCHANGED <<tuned, request, python, store, overtaken, failures, outOfMemory>>

EndScan ==
  /\ main.pc = "scan" /\ (main.epg = Null \/ main.slots = {})
  /\ Unlock
  /\ main' = AtLoop
  /\ overtaken' = FALSE
  /\ UNCHANGED <<tuned, request, python, store, failures, outOfMemory>>

Look == BeginLookup \/ ReadAddress \/ ReadLength \/ BeginScan \/ BeginNested \/ EndNested \/ EndScan

Init ==
  /\ tuned \in [Slots -> Channels]
  /\ request = [t \in Threads |-> Idle]
  /\ python = NoOne /\ owner = NoOne /\ depth = 0
  /\ epg = Null /\ epg_count = 0 /\ array = <<>>
  /\ main = AtLoop
  /\ overtaken = FALSE /\ failures = 0 /\ outOfMemory = 0

Script(t) == Answer(t) \/ ScriptFails(t)
Store(t) ==
  \/ NothingToDelete(t) \/ CopyRest(t) \/ CopyFails(t) \/ Shorten(t)
  \/ Grow(t) \/ GrowFails(t) \/ Fill(t)

Next ==
  \/ \E s \in Slots : Tune(s)
  \/ Refresh
  \/ Look
  \/ \E t \in Threads :
       TakePython(t) \/ Script(t) \/ LockForDelete(t) \/ LockForInsert(t) \/ Store(t)

Spec == Init /\ [][Next]_vars

(* Threads run, the script ends, and no thread starves at a mutex; the loop   *)
(* comes round, and the refresh is in it.                                     *)
Fairness ==
  /\ SF_vars(Refresh)
  /\ SF_vars(BeginScan)
  /\ WF_vars(ReadAddress \/ ReadLength \/ BeginNested \/ EndNested \/ EndScan)
  /\ \A t \in Threads :
       /\ SF_vars(TakePython(t) \/ LockForDelete(t) \/ LockForInsert(t))
       /\ WF_vars(Script(t) \/ Store(t))

FairSpec == Spec /\ Fairness

-----------------------------------------------------------------------------
(* Properties.                                                                *)

(* What a lookup finds of a slot, in the array's order.                       *)
Guide(s) == Picked(Own(s))

(* A slot's programs are those of one answer, for one channel, each once and  *)
(* in order: two answers for a slot, each stored in two critical sections     *)
(* (epg_request_callback), never mix, because the callback still runs under   *)
(* python_mutex.                                                              *)
OneAnswer ==
  \A s \in Slots : Guide(s) # <<>> => \E t \in Threads, c \in Channels :
    Guide(s) = [i \in 1..Len(Guide(s)) |-> [slot |-> s, channel |-> c, from |-> t, nr |-> i]]

(* epg_delete and epg_insert change no other slot's programs than the one the *)
(* answer is for, as long as the memory lasts.                                *)
OnlyItsOwn ==
  [][\A s \in Slots :
       Guide(s)' = Guide(s) \/ epg' = Null
         \/ \E t \in Threads : request[t] # Idle /\ python = t /\ request[t].slot = s]_vars

(* Once main is in the array, its address and length are those of the block   *)
(* that is there, and stay so until it leaves: the one way to read a freed    *)
(* block, or past the end of one, is a thread that replaces it between main's *)
(* reading the two variables and its getting the mutex (main.c 4108).         *)
ScanDefined ==
  main.pc \in {"scan", "nested"} /\ ~overtaken
    => /\ main.epg = epg
       /\ main.epg_count = Len(array)

(* Main gets out of every lookup: of the loop's, whatever the request threads *)
(* do with epg_mutex, and of the "epg" command's, which looks up with the     *)
(* mutex already held.                                                        *)
MainReturns == (main.pc # "loop") ~> (main.pc = "loop")

(* When a slot stays on a channel and no other channel is asked for any more, *)
(* its guide ends up as that channel's, and is at most missing, for the time  *)
(* of an update: requests for other channels, of before or of changes that    *)
(* came to nothing, may answer late and out of order, but the refresh makes   *)
(* up for it, and for scripts that fail.  While another channel goes on being *)
(* asked for in vain, without a remote or with one that fails, this is not    *)
(* so: each time its guide takes the place of the tuned channel's.            *)
ChannelOf(s) == Guide(s)[1].channel
AskedInVain(s) ==
  \E t \in Threads : /\ request[t] = Idle /\ request'[t] # Idle
                     /\ request'[t].slot = s /\ request'[t].channel # tuned'[s]

GuideCatchesUp ==
  \A s \in Slots, c \in Channels :
    <>[](tuned[s] = c) /\ <>[][~AskedInVain(s)]_vars
      => /\ <>[](Guide(s) = <<>> \/ ChannelOf(s) = c)
         /\ []<>(Guide(s) # <<>>)

=============================================================================
