------------------------------ MODULE EpgProofs ------------------------------
(* Theorems about the guide: EpgStore, for any slots, threads, addresses and   *)
(* bounds, and EpgParser, for any documents.                                   *)
EXTENDS EpgStore, EpgParser, FiniteSetTheorems, SequenceTheorems, TLAPS

\* Where a request thread holds epg_mutex, and where main does.
Holding == {"copy", "shorten", "grow", "fill"}
Scanning == {"scan", "nested"}

Addressable == Addresses \cup {Null}

Types ==
  /\ request = [t \in Threads |-> request[t]]
  /\ main \in [pc : {"loop", "read", "scan", "nested"},
               epg : Addressable \cup {Unread}, epg_count : Nat \cup {Unread},
               slots : SUBSET Slots]
  /\ epg \in Addressable
  /\ \A t \in Threads : request[t].pc \in {"delete", "insert"} \cup Holding
                         => request[t].count \in Nat

\* Who is inside holds epg_mutex: a request thread once, main once or, in the
\* lookup inside the "epg" command's, twice.
Exclusive ==
  /\ depth \in Nat /\ (depth = 0 <=> owner = NoOne)
  /\ \A t \in Threads : request[t].pc \in Holding <=> owner = t
  /\ main.pc \in Scanning <=> owner = Main
  /\ owner \in Threads => depth = 1
  /\ owner = Main => depth = IF main.pc = "scan" THEN 1 ELSE 2

\* The length is the array's but between epg_delete's two assignments.
Shortening == \E t \in Threads : request[t].pc = "shorten"
Measured ==
  /\ array = [i \in 1..Len(array) |-> array[i]] /\ Len(array) \in Nat
  /\ epg_count \in Nat
  /\ ~Shortening => epg_count = Len(array)

\* What main has read of the store's variables is what they are, unless a thread
\* has been there since.
ReadBack ==
  main.pc # "loop" /\ ~overtaken =>
    /\ main.epg \in {Unread, epg} /\ main.epg_count \in {Unread, epg_count}
    /\ main.pc \in Scanning => Unread \notin {main.epg, main.epg_count}

SInv == Types /\ Exclusive /\ Measured /\ ReadBack

\* A function on the first numbers is a sequence of that length.
LEMMA Sequence ==
  ASSUME NEW n \in Nat, NEW f, f = [i \in 1..n |-> f[i]]
  PROVE  f \in Seq({f[i] : i \in 1..n}) /\ Len(f) = n
OBVIOUS

\* Two sequences, one after the other, are a sequence.
LEMMA Joined ==
  ASSUME NEW m \in Nat, NEW f, f = [i \in 1..m |-> f[i]],
         NEW n \in Nat, NEW g, g = [i \in 1..n |-> g[i]]
  PROVE  /\ f \o g = [i \in 1..Len(f \o g) |-> (f \o g)[i]] /\ Len(f \o g) \in Nat
         /\ Len(f \o g) = m + n
         /\ \A i \in 1..m : (f \o g)[i] = f[i]
         /\ \A i \in 1..n : (f \o g)[m + i] = g[i]
<1> DEFINE S == {f[i] : i \in 1..m} \cup {g[i] : i \in 1..n}
<1>1. f \in Seq(S) /\ g \in Seq(S)
  <2>1. f \in Seq({f[i] : i \in 1..m}) /\ g \in Seq({g[i] : i \in 1..n}) BY Sequence
  <2>2. {f[i] : i \in 1..m} \subseteq S /\ {g[i] : i \in 1..n} \subseteq S OBVIOUS
  <2> HIDE DEF S
  <2> QED BY <2>1, <2>2, SeqMonotonic
<1>2. f \o g \in Seq(S) BY <1>1
<1>3. Len(f) = m /\ Len(g) = n BY Sequence
<1> HIDE DEF S
<1>4. Len(f \o g) \in Nat /\ f \o g \in [1..Len(f \o g) -> S] BY <1>2, LenProperties
<1>5. Len(f \o g) = m + n BY <1>1, <1>3, ConcatProperties
<1>6. \A i \in 1..(m + n) : (f \o g)[i] = IF i <= m THEN f[i] ELSE g[i - m]
  BY <1>1, <1>3, ConcatProperties
<1>7. \A i \in 1..m : (f \o g)[i] = f[i] BY <1>6
<1>8. ASSUME NEW i \in 1..n PROVE (f \o g)[m + i] = g[i]
  <2>1. m + i \in 1..(m + n) /\ ~(m + i <= m) /\ (m + i) - m = i OBVIOUS
  <2> QED BY <1>6, <2>1
<1> QED BY <1>4, <1>5, <1>7, <1>8

\* What epg_delete copies is a sequence.
LEMMA PickedSequence ==
  ASSUME NEW places, IsFiniteSet(places)
  PROVE  /\ Cardinality(places) \in Nat
         /\ Picked(places) = [n \in 1..Cardinality(places) |-> Picked(places)[n]]
<1>1. Cardinality(places) \in Nat BY FS_CardinalityType
<1> QED BY <1>1 DEF Picked

\* What it may leave is one too.
LEMMA RemainingSequence ==
  ASSUME Measured, NEW s, NEW rest \in Remaining(s)
  PROVE  rest = [i \in 1..Len(rest) |-> rest[i]] /\ Len(rest) \in Nat
<1>1. DOMAIN array = 1..Len(array) /\ Len(array) \in Nat BY DEF Measured
<1>2. IsFiniteSet(DOMAIN array)
  <2>1. 0 \in Int /\ 1 \in Int /\ Len(array) \in Int BY <1>1
  <2> QED BY <1>1, <2>1, FS_Interval
<1>3. IsFiniteSet(Others(s)) /\ IsFiniteSet(JunkOnly)
  BY <1>2, FS_Subset DEF Others, JunkOnly
<1>4. PICK n \in 0..Cardinality(JunkOnly) :
        rest = [i \in 1..n |-> Junk] \o Picked(Others(s))
  BY DEF Remaining
<1>5. n \in Nat BY <1>3, FS_CardinalityType
<1>6. [i \in 1..n |-> Junk] = [i \in 1..n |-> [j \in 1..n |-> Junk][i]] OBVIOUS
<1> QED BY <1>3, <1>4, <1>5, <1>6, PickedSequence, Joined

-----------------------------------------------------------------------------
(* What a step makes of the threads.                                          *)

\* The programs kept when n of an answer are.
KeptOf(t, n) ==
  [i \in 1..n |->
     [slot |-> request[t].slot, channel |-> request[t].channel, from |-> t, nr |-> i]]

\* What Fill puts behind the array is all of the answer, or less.
LEMMA FillAppends ==
  ASSUME NEW t \in Threads, Fill(t), request[t].count \in Nat
  PROVE  \E n \in 0..request[t].count : array' = array \o KeptOf(t, n)
<1>1. CASE array' = array \o KeptOf(t, request[t].count)
  <2>1. request[t].count \in 0..request[t].count OBVIOUS
  <2> QED BY <1>1, <2>1
<1>2. CASE array' # array \o KeptOf(t, request[t].count)
  BY <1>2 DEF Fill, KeptOf
<1> QED BY <1>1, <1>2

\* One thread moves.
Moves(t, from, to) ==
  /\ request' = [u \in Threads |-> request'[u]]
  /\ request[t].pc = from /\ request'[t].pc = to
  /\ \A u \in Threads : u # t => request'[u] = request[u]

\* A thread goes on, ...
LEMMA GotoMoves ==
  ASSUME Types, NEW t \in Threads, NEW to, NEW n, Goto(t, to, n)
  PROVE  Moves(t, request[t].pc, to) /\ request'[t].count = n
<1> DEFINE r == [pc |-> to, slot |-> request[t].slot, channel |-> request[t].channel, count |-> n]
<1>1. DOMAIN request = Threads BY DEF Types
<1>2. request' = [u \in Threads |-> IF u = t THEN r ELSE request[u]] BY <1>1 DEF Goto
<1>3. r.pc = to /\ r.count = n OBVIOUS
<1> HIDE DEF r
<1> QED BY <1>2, <1>3 DEF Moves

\* ... or ends.
LEMMA EndMoves ==
  ASSUME Types, NEW t \in Threads, request' = [request EXCEPT ![t] = Idle]
  PROVE  Moves(t, request[t].pc, "none")
<1>1. DOMAIN request = Threads BY DEF Types
<1>2. request' = [u \in Threads |-> IF u = t THEN Idle ELSE request[u]] BY <1>1
<1>3. Idle.pc = "none" BY DEF Idle
<1> QED BY <1>2, <1>3 DEF Moves

\* Threads begin at the mutex of the script.
LEMMA SpawnMoves ==
  ASSUME Types, NEW requests, Spawn(requests)
  PROVE  /\ request' = [t \in Threads |-> request'[t]]
         /\ \A t \in Threads :
              request'[t] = request[t] \/ (request[t].pc = "none" /\ request'[t].pc = "wait")
<1>1. PICK new \in [requests -> Threads] :
        /\ \A r \in requests : request[new[r]] = Idle
        /\ request' = [t \in Threads |->
             IF \E r \in requests : new[r] = t
             THEN LET r == CHOOSE r \in requests : new[r] = t
                  IN [pc |-> "wait", slot |-> r[1], channel |-> r[2]]
             ELSE request[t]]
  BY DEF Spawn
<1>2. Idle.pc = "none" BY DEF Idle
<1>3. ASSUME NEW t \in Threads
      PROVE  request'[t] = request[t] \/ (request[t].pc = "none" /\ request'[t].pc = "wait")
  <2>1. CASE \E r \in requests : new[r] = t BY <1>1, <1>2, <2>1
  <2>2. CASE ~ \E r \in requests : new[r] = t BY <1>1, <2>2
  <2> QED BY <2>1, <2>2
<1> QED BY <1>1, <1>3

-----------------------------------------------------------------------------
(* Each part of the invariant, step by step.                                  *)

\* A thread that moves keeps the types of the threads.
LEMMA MovedTypes ==
  ASSUME Types, NEW t \in Threads, NEW from, NEW to, Moves(t, from, to),
         to \in {"delete", "insert"} \cup Holding => request'[t].count \in Nat
  PROVE  /\ request' = [u \in Threads |-> request'[u]]
         /\ \A u \in Threads : request'[u].pc \in {"delete", "insert"} \cup Holding
                                => request'[u].count \in Nat
BY DEF Moves, Types

\* Every step keeps the types, ...
LEMMA TypesStep == SInv /\ [Next]_vars => Types'
<1> SUFFICES ASSUME SInv, [Next]_vars PROVE Types'
  OBVIOUS
<1> USE DEF SInv
<1>1. ASSUME UNCHANGED <<request, main, epg>> PROVE Types'
  BY <1>1 DEF Types
<1>2. ASSUME NEW t \in Threads, NEW from, NEW to, Moves(t, from, to),
             to \in {"delete", "insert"} \cup Holding => request'[t].count \in Nat,
             main' = main, epg' \in Addressable
      PROVE  Types'
  BY <1>2, MovedTypes DEF Types
<1>3. ASSUME NEW requests, Spawn(requests), UNCHANGED <<main, epg>> PROVE Types'
  <2>1. /\ request' = [t \in Threads |-> request'[t]]
        /\ \A t \in Threads :
             request'[t] = request[t] \/ (request[t].pc = "none" /\ request'[t].pc = "wait")
    BY <1>3, SpawnMoves
  <2> QED BY <1>3, <2>1 DEF Types, Holding
<1>4. epg \in Addressable BY DEF Types
<1>5. CASE \E s \in Slots : Tune(s) BY <1>3, <1>5 DEF Tune, store
<1>6. CASE Refresh BY <1>3, <1>6 DEF Refresh, store
<1>7. CASE Look
  <2>1. UNCHANGED <<request, epg>>
    BY <1>7 DEF Look, BeginLookup, ReadAddress, ReadLength, BeginScan, BeginNested,
                EndNested, EndScan, store
  <2>2. AtLoop \in [pc : {"loop", "read", "scan", "nested"},
               epg : Addressable \cup {Unread}, epg_count : Nat \cup {Unread},
               slots : SUBSET Slots]
    BY DEF AtLoop
  <2>3. main' \in [pc : {"loop", "read", "scan", "nested"},
               epg : Addressable \cup {Unread}, epg_count : Nat \cup {Unread},
               slots : SUBSET Slots]
    <3>1. CASE BeginLookup BY <2>2, <3>1 DEF BeginLookup
    <3>2. CASE ReadAddress BY <3>2 DEF ReadAddress, Types
    <3>3. CASE ReadLength BY <3>3 DEF ReadLength, Types, Measured
    <3>4. CASE BeginScan BY <3>4 DEF BeginScan, Types
    <3>5. CASE BeginNested BY <3>5 DEF BeginNested, Types
    <3>6. CASE EndNested BY <3>6 DEF EndNested, Types
    <3>7. CASE EndScan BY <2>2, <3>7 DEF EndScan
    <3> QED BY <1>7, <3>1, <3>2, <3>3, <3>4, <3>5, <3>6, <3>7 DEF Look
  <2> QED BY <2>1, <2>3 DEF Types
<1>8. ASSUME NEW t \in Threads, TakePython(t) PROVE Types'
  BY <1>2, <1>4, <1>8, GotoMoves DEF TakePython, store, Holding
<1>9. ASSUME NEW t \in Threads, Script(t) PROVE Types'
  <2>1. CASE Answer(t)
    <3>1. PICK n \in 0..MaxPrograms : Goto(t, "delete", n) BY <2>1 DEF Answer
    <3>2. n \in Nat BY BoundsAreNumbers
    <3> QED BY <1>2, <1>4, <2>1, <3>1, <3>2, GotoMoves DEF Answer, store
  <2>2. CASE ScriptFails(t)
    BY <1>2, <1>4, <2>2, EndMoves DEF ScriptFails, End, store, Holding
  <2> QED BY <1>9, <2>1, <2>2 DEF Script
<1>10. ASSUME NEW t \in Threads, LockForDelete(t) \/ LockForInsert(t) PROVE Types'
  <2>1. request[t].count \in Nat BY <1>10 DEF LockForDelete, LockForInsert, At, Types
  <2> QED BY <1>2, <1>4, <1>10, <2>1, GotoMoves DEF LockForDelete, LockForInsert, store
<1>11. ASSUME NEW t \in Threads, Store(t) PROVE Types'
  <2>1. CASE NothingToDelete(t) \/ CopyRest(t) \/ Shorten(t) \/ Grow(t)
    <3>1. request[t].count \in Nat
      BY <2>1 DEF NothingToDelete, CopyRest, Shorten, Grow, At, Types, Holding
    <3>2. epg' \in Addressable
      BY <1>4, <2>1 DEF NothingToDelete, CopyRest, Shorten, Grow, Addressable, store
    <3> QED BY <1>2, <2>1, <3>1, <3>2, GotoMoves DEF NothingToDelete, CopyRest, Shorten, Grow
  <2>2. CASE CopyFails(t) \/ GrowFails(t) \/ Fill(t)
    <3>1. epg' \in Addressable
      BY <1>4, <2>2 DEF CopyFails, GrowFails, Fill, Addressable, store
    <3> QED BY <1>2, <2>2, <3>1, EndMoves DEF CopyFails, GrowFails, Fill, End, Holding
  <2> QED BY <1>11, <2>1, <2>2 DEF Store
<1>12. CASE UNCHANGED vars BY <1>1, <1>12 DEF vars, store
<1> QED BY <1>5, <1>6, <1>7, <1>8, <1>9, <1>10, <1>11, <1>12 DEF Next

\* ... who is inside, ...
LEMMA ExclusiveStep == SInv /\ [Next]_vars => Exclusive'
<1> SUFFICES ASSUME SInv, [Next]_vars PROVE Exclusive'
  OBVIOUS
<1> USE DEF SInv
<1>1. ASSUME UNCHANGED <<owner, depth>>,
             main'.pc = main.pc \/ {main.pc, main'.pc} \cap Scanning = {},
             \A t \in Threads : request'[t].pc = request[t].pc
                                  \/ {request[t].pc, request'[t].pc} \cap Holding = {}
      PROVE  Exclusive'
  <2>1. \A t \in Threads : request'[t].pc \in Holding <=> request[t].pc \in Holding
    BY <1>1
  <2>2. main'.pc \in Scanning <=> main.pc \in Scanning BY <1>1
  <2>3. owner = Main => main'.pc = main.pc BY <1>1 DEF Exclusive
  <2> QED BY <1>1, <2>1, <2>2, <2>3 DEF Exclusive
<1>2. ASSUME UNCHANGED <<main, owner, depth>>, NEW t \in Threads, NEW from, NEW to,
             Moves(t, from, to), from \in Holding <=> to \in Holding
      PROVE  Exclusive'
  BY <1>2 DEF Exclusive, Moves
<1>3. ASSUME main' = main, NEW t \in Threads, NEW from, NEW to, Moves(t, from, to),
             from \notin Holding, to \in Holding, Lock(t)
      PROVE  Exclusive'
  <2>1. owner = NoOne /\ depth = 0 BY <1>3 DEF Exclusive, Moves, Lock, LockFree
  <2>2. owner' = t /\ depth' = 1 BY <1>3, <2>1 DEF Lock
  <2>3. \A u \in Threads : u # t => request'[u].pc \notin Holding
    BY <1>3, <2>1, ThreadsAreNotMain DEF Exclusive, Moves
  <2>4. main.pc \notin Scanning BY <2>1, ThreadsAreNotMain DEF Exclusive
  <2> QED BY <1>3, <2>2, <2>3, <2>4, ThreadsAreNotMain DEF Exclusive, Moves
<1>4. ASSUME main' = main, NEW t \in Threads, NEW from, NEW to, Moves(t, from, to),
             from \in Holding, to \notin Holding, Unlock \/ UnlockIfLocked(t)
      PROVE  Exclusive'
  <2>1. owner = t /\ depth = 1 BY <1>4 DEF Exclusive, Moves
  <2>2. owner' = NoOne /\ depth' = 0 BY <1>4, <2>1 DEF Unlock, UnlockIfLocked
  <2>3. \A u \in Threads : u # t => request'[u].pc \notin Holding
    BY <1>4, <2>1 DEF Exclusive, Moves
  <2>4. main.pc \notin Scanning BY <2>1, ThreadsAreNotMain DEF Exclusive
  <2> QED BY <1>4, <2>2, <2>3, <2>4, ThreadsAreNotMain DEF Exclusive, Moves
<1>5. ASSUME NEW requests, Spawn(requests), UNCHANGED <<main, owner, depth>>
      PROVE  Exclusive'
  <2>1. \A t \in Threads : request'[t].pc = request[t].pc
                             \/ {request[t].pc, request'[t].pc} \cap Holding = {}
    BY <1>5, SpawnMoves DEF Holding
  <2> QED BY <1>1, <1>5, <2>1
<1>6. CASE (\E s \in Slots : Tune(s)) \/ Refresh
  BY <1>5, <1>6 DEF Tune, Refresh, mutexes
<1>7. CASE BeginLookup \/ ReadAddress \/ ReadLength
  <2>1. UNCHANGED <<request, owner, depth>> BY <1>7 DEF BeginLookup, ReadAddress, ReadLength, mutexes
  <2>2. main'.pc = main.pc \/ {main.pc, main'.pc} \cap Scanning = {}
    BY <1>7 DEF BeginLookup, AtLoop, ReadAddress, ReadLength, Scanning, Types
  <2> QED BY <1>1, <2>1, <2>2
<1>8. CASE BeginScan
  <2>1. owner = NoOne /\ depth = 0 /\ owner' = Main /\ depth' = 1
    <3>1. owner # Main BY <1>8 DEF BeginScan, Exclusive, Scanning
    <3> QED BY <1>8, <3>1 DEF BeginScan, Lock, LockFree, Exclusive
  <2>2. main'.pc = "scan" /\ request' = request BY <1>8 DEF BeginScan, Types
  <2> QED BY <2>1, <2>2, ThreadsAreNotMain DEF Exclusive, Scanning
<1>9. CASE BeginNested
  <2>1. owner = Main /\ depth = 1 /\ owner' = Main /\ depth' = 2
    BY <1>9 DEF BeginNested, Exclusive, Scanning, Lock
  <2>2. main'.pc = "nested" /\ request' = request BY <1>9 DEF BeginNested, Types
  <2> QED BY <2>1, <2>2, ThreadsAreNotMain DEF Exclusive, Scanning
<1>10. CASE EndNested
  <2>1. owner = Main /\ depth = 2 BY <1>10 DEF EndNested, Exclusive, Scanning
  <2>2. owner' = Main /\ depth' = 1 BY <1>10, <2>1 DEF EndNested, Unlock
  <2>3. main'.pc = "scan" /\ request' = request BY <1>10 DEF EndNested, Types
  <2> QED BY <2>1, <2>2, <2>3, ThreadsAreNotMain DEF Exclusive, Scanning
<1>11. CASE EndScan
  <2>1. owner = Main /\ depth = 1 BY <1>11 DEF EndScan, Exclusive, Scanning
  <2>2. owner' = NoOne /\ depth' = 0 BY <1>11, <2>1 DEF EndScan, Unlock
  <2>3. main'.pc = "loop" /\ request' = request BY <1>11 DEF EndScan, AtLoop
  <2> QED BY <2>1, <2>2, <2>3, ThreadsAreNotMain DEF Exclusive, Scanning
<1>12. ASSUME NEW t \in Threads, TakePython(t) \/ Script(t) PROVE Exclusive'
  <2>1. PICK to \in {"script", "delete", "none"} : Moves(t, request[t].pc, to)
    BY <1>12, GotoMoves, EndMoves DEF TakePython, Script, Answer, ScriptFails, End
  <2>2. request[t].pc \in {"wait", "script"} /\ UNCHANGED <<main, owner, depth>>
    BY <1>12 DEF TakePython, Script, Answer, ScriptFails, At, mutexes
  <2> QED BY <1>2, <2>1, <2>2 DEF Holding
<1>13. ASSUME NEW t \in Threads, LockForDelete(t) \/ LockForInsert(t) PROVE Exclusive'
  <2>1. PICK to \in {"copy", "grow"} : Moves(t, request[t].pc, to)
    BY <1>13, GotoMoves DEF LockForDelete, LockForInsert
  <2>2. request[t].pc \in {"delete", "insert"} /\ main' = main /\ Lock(t)
    BY <1>13 DEF LockForDelete, LockForInsert, At
  <2> QED BY <1>3, <2>1, <2>2 DEF Holding
<1>14. ASSUME NEW t \in Threads, CopyRest(t) \/ Grow(t) PROVE Exclusive'
  <2>1. PICK to \in {"shorten", "fill"} : Moves(t, request[t].pc, to)
    BY <1>14, GotoMoves DEF CopyRest, Grow
  <2>2. request[t].pc \in {"copy", "grow"} /\ UNCHANGED <<main, owner, depth>>
    BY <1>14 DEF CopyRest, Grow, At, mutexes
  <2> QED BY <1>2, <2>1, <2>2 DEF Holding
<1>15. ASSUME NEW t \in Threads,
              NothingToDelete(t) \/ CopyFails(t) \/ Shorten(t) \/ GrowFails(t) \/ Fill(t)
       PROVE  Exclusive'
  <2>1. PICK to \in {"insert", "none"} : Moves(t, request[t].pc, to)
    BY <1>15, GotoMoves, EndMoves DEF NothingToDelete, CopyFails, Shorten, GrowFails, Fill, End
  <2>2. /\ request[t].pc \in {"copy", "shorten", "grow", "fill"} /\ main' = main
        /\ Unlock \/ UnlockIfLocked(t)
    BY <1>15 DEF NothingToDelete, CopyFails, Shorten, GrowFails, Fill, At
  <2> QED BY <1>4, <2>1, <2>2 DEF Holding
<1>16. CASE UNCHANGED vars BY <1>1, <1>16 DEF vars, mutexes
<1> QED BY <1>6, <1>7, <1>8, <1>9, <1>10, <1>11, <1>12, <1>13, <1>14, <1>15, <1>16
        DEF Next, Look, Store

\* ... the array's length, ...
LEMMA MeasuredStep == SInv /\ [Next]_vars => Measured'
<1> SUFFICES ASSUME SInv, [Next]_vars PROVE Measured'
  OBVIOUS
<1> USE DEF SInv
<1>1. ASSUME UNCHANGED <<array, epg_count>>, Shortening => Shortening' PROVE Measured'
  BY <1>1 DEF Measured
<1>2. ASSUME UNCHANGED <<array, epg_count>>, NEW t \in Threads, NEW from, NEW to,
             Moves(t, from, to), from # "shorten"
      PROVE  Measured'
  <2>1. Shortening => Shortening' BY <1>2 DEF Moves, Shortening
  <2> QED BY <1>1, <1>2, <2>1
<1>3. CASE (\E s \in Slots : Tune(s)) \/ Refresh
  <2>1. PICK requests : Spawn(requests) BY <1>3 DEF Tune, Refresh
  <2>2. Shortening => Shortening' BY <2>1, SpawnMoves DEF Shortening
  <2> QED BY <1>1, <1>3, <2>2 DEF Tune, Refresh, store
<1>4. CASE Look \/ UNCHANGED vars
  <2>1. UNCHANGED <<request, array, epg_count>>
    BY <1>4 DEF Look, BeginLookup, ReadAddress, ReadLength, BeginScan, BeginNested,
                EndNested, EndScan, vars, store
  <2>2. Shortening => Shortening' BY <2>1 DEF Shortening
  <2> QED BY <1>1, <2>1, <2>2
<1>5. ASSUME NEW t \in Threads, TakePython(t) \/ Script(t) PROVE Measured'
  <2>1. PICK to : Moves(t, request[t].pc, to)
    BY <1>5, GotoMoves, EndMoves DEF TakePython, Script, Answer, ScriptFails, End
  <2>2. request[t].pc # "shorten" /\ UNCHANGED <<array, epg_count>>
    BY <1>5 DEF TakePython, Script, Answer, ScriptFails, At, store
  <2> QED BY <1>2, <2>1, <2>2
<1>6. ASSUME NEW t \in Threads, LockForDelete(t) \/ LockForInsert(t) PROVE Measured'
  <2>1. PICK to : Moves(t, request[t].pc, to)
    BY <1>6, GotoMoves DEF LockForDelete, LockForInsert
  <2>2. request[t].pc # "shorten" /\ UNCHANGED <<array, epg_count>>
    BY <1>6 DEF LockForDelete, LockForInsert, At, store
  <2> QED BY <1>2, <2>1, <2>2
<1>7. ASSUME NEW t \in Threads, NothingToDelete(t) \/ CopyFails(t) \/ Grow(t) PROVE Measured'
  <2>1. PICK to : Moves(t, request[t].pc, to)
    BY <1>7, GotoMoves, EndMoves DEF NothingToDelete, CopyFails, Grow, End
  <2>2. request[t].pc # "shorten" /\ UNCHANGED <<array, epg_count>>
    BY <1>7 DEF NothingToDelete, CopyFails, Grow, At, store
  <2> QED BY <1>2, <2>1, <2>2
<1>8. ASSUME NEW t \in Threads, CopyRest(t) PROVE Measured'
  <2>1. array' \in Remaining(request[t].slot) /\ epg_count' = epg_count BY <1>8 DEF CopyRest
  <2>2. array' = [i \in 1..Len(array') |-> array'[i]] /\ Len(array') \in Nat
    BY <2>1, RemainingSequence
  <2>3. Moves(t, request[t].pc, "shorten") BY <1>8, GotoMoves DEF CopyRest
  <2>4. Shortening' BY <2>3 DEF Moves, Shortening
  <2> QED BY <2>1, <2>2, <2>4 DEF Measured
<1>9. ASSUME NEW t \in Threads, Shorten(t) PROVE Measured'
  BY <1>9 DEF Shorten, Measured
<1>10. ASSUME NEW t \in Threads, GrowFails(t) PROVE Measured'
  <2>1. array' = [i \in 1..epg_count |-> Junk] /\ epg_count' = epg_count BY <1>10 DEF GrowFails
  <2>2. epg_count \in Nat BY DEF Measured
  <2>3. array' = [i \in 1..epg_count |-> array'[i]] BY <2>1
  <2>4. Len(array') = epg_count BY <2>2, <2>3, Sequence
  <2> QED BY <2>1, <2>2, <2>3, <2>4 DEF Measured
<1>11. ASSUME NEW t \in Threads, Fill(t) PROVE Measured'
  <2>1. epg_count' = Len(array') BY <1>11 DEF Fill
  <2>2. request[t].count \in Nat BY <1>11 DEF Fill, At, Types, Holding
  <2>a. PICK n \in 0..request[t].count : array' = array \o KeptOf(t, n)
    BY <1>11, <2>2, FillAppends
  <2> DEFINE new == KeptOf(t, n)
  <2>3. new = [i \in 1..n |-> new[i]] /\ n \in Nat BY <2>2, <2>a DEF KeptOf
  <2>4. array = [i \in 1..Len(array) |-> array[i]] /\ Len(array) \in Nat BY DEF Measured
  <2>b. array' = array \o new BY <2>a
  <2> HIDE DEF new
  <2>5. array' = [i \in 1..Len(array') |-> array'[i]] /\ Len(array') \in Nat
    BY <2>b, <2>3, <2>4, Joined
  <2> QED BY <2>1, <2>5 DEF Measured
<1> QED BY <1>3, <1>4, <1>5, <1>6, <1>7, <1>8, <1>9, <1>10, <1>11 DEF Next, Store

\* ... and what main has read.
LEMMA ReadBackStep == SInv /\ [Next]_vars => ReadBack'
<1> SUFFICES ASSUME SInv, [Next]_vars PROVE ReadBack'
  OBVIOUS
<1> USE DEF SInv
<1>1. ASSUME UNCHANGED <<main, overtaken, epg, epg_count>> PROVE ReadBack'
  BY <1>1 DEF ReadBack
<1>2. ASSUME NEW t \in Threads, request[t].pc \in Holding, main' = main, Overtake
      PROVE  ReadBack'
  <2>1. main.pc \notin Scanning
    BY <1>2, ThreadsAreNotMain DEF Exclusive
  <2>2. main.pc = "read" /\ ~overtaken' => main.epg = Unread /\ main.epg_count = Unread
    BY <1>2 DEF Overtake
  <2>3. main.pc \in {"loop", "read"} BY <2>1 DEF Types, Scanning
  <2> QED BY <1>2, <2>1, <2>2, <2>3 DEF ReadBack
<1>3. CASE (\E s \in Slots : Tune(s)) \/ Refresh \/ UNCHANGED vars
  BY <1>1, <1>3 DEF Tune, Refresh, vars, store
<1>4. CASE Look
  <2>1. UNCHANGED <<epg, epg_count>>
    BY <1>4 DEF Look, BeginLookup, ReadAddress, ReadLength, BeginScan, BeginNested,
                EndNested, EndScan, store
  <2>2. CASE BeginLookup
    <3>1. main'.pc = "read" /\ main'.epg = Unread /\ main'.epg_count = Unread
      BY <2>2 DEF BeginLookup, AtLoop
    <3> QED BY <3>1 DEF ReadBack, Scanning
  <2>3. CASE ReadAddress
    <3>1. /\ main.pc = "read" /\ main'.pc = "read" /\ overtaken' = overtaken
          /\ main'.epg = epg /\ main'.epg_count = main.epg_count
      BY <2>3 DEF ReadAddress, Types
    <3> QED BY <2>1, <3>1 DEF ReadBack, Scanning
  <2>4. CASE ReadLength
    <3>1. /\ main.pc = "read" /\ main'.pc = "read" /\ overtaken' = overtaken
          /\ main'.epg = main.epg /\ main'.epg_count = epg_count
      BY <2>4 DEF ReadLength, Types
    <3> QED BY <2>1, <3>1 DEF ReadBack, Scanning
  <2>5. CASE BeginScan \/ BeginNested \/ EndNested
    <3>1. /\ main.pc # "loop" /\ overtaken' = overtaken
          /\ main'.epg = main.epg /\ main'.epg_count = main.epg_count
      BY <2>5 DEF BeginScan, BeginNested, EndNested, Types
    <3>2. Unread \notin {main.epg, main.epg_count} \/ main.pc \in Scanning
      BY <2>5 DEF BeginScan, BeginNested, EndNested, Scanning
    <3> QED BY <2>1, <3>1, <3>2 DEF ReadBack
  <2>6. CASE EndScan
    <3>1. main'.pc = "loop" BY <2>6 DEF EndScan, AtLoop
    <3> QED BY <3>1 DEF ReadBack
  <2> QED BY <1>4, <2>2, <2>3, <2>4, <2>5, <2>6 DEF Look
<1>5. ASSUME NEW t \in Threads,
             \/ TakePython(t) \/ Script(t) \/ LockForDelete(t) \/ LockForInsert(t)
             \/ NothingToDelete(t) \/ CopyFails(t)
      PROVE  ReadBack'
  BY <1>1, <1>5 DEF TakePython, Script, Answer, ScriptFails, LockForDelete, LockForInsert,
                    NothingToDelete, CopyFails, store
<1>6. ASSUME NEW t \in Threads,
             CopyRest(t) \/ Shorten(t) \/ Grow(t) \/ GrowFails(t) \/ Fill(t)
      PROVE  ReadBack'
  <2>1. request[t].pc \in Holding /\ main' = main /\ Overtake
    BY <1>6 DEF CopyRest, Shorten, Grow, GrowFails, Fill, At, Holding
  <2> QED BY <1>2, <2>1
<1> QED BY <1>3, <1>4, <1>5, <1>6 DEF Next, Store

-----------------------------------------------------------------------------

\* The invariant of the mutex, the array and what main has read of it.
THEOREM StoreInvariant == Spec => []SInv
<1>1. Init => SInv
  <2> SUFFICES ASSUME Init PROVE SInv
    OBVIOUS
  <2>1. Idle.pc = "none" BY DEF Idle
  <2>2. \A t \in Threads : request[t].pc = "none" BY <2>1 DEF Init
  <2>3. Types
    <3>1. main \in [pc : {"loop", "read", "scan", "nested"},
               epg : Addressable \cup {Unread}, epg_count : Nat \cup {Unread},
               slots : SUBSET Slots]
      BY DEF Init, AtLoop
    <3>2. request = [t \in Threads |-> request[t]] /\ epg \in Addressable
      BY DEF Init, Addressable
    <3> QED BY <2>2, <3>1, <3>2 DEF Types, Holding
  <2>4. main.pc = "loop" BY DEF Init, AtLoop
  <2>5. Exclusive
    BY <2>2, <2>4, ThreadsAreNotMain DEF Init, Exclusive, Holding, Scanning
  <2>6. Measured
    <3>1. array = <<>> /\ epg_count = 0 /\ Len(array) = 0 BY DEF Init
    <3>2. array = [i \in 1..0 |-> array[i]] BY <3>1
    <3> QED BY <3>1, <3>2 DEF Measured
  <2>7. ReadBack BY <2>4 DEF ReadBack
  <2> QED BY <2>3, <2>5, <2>6, <2>7 DEF SInv
<1>2. SInv /\ [Next]_vars => SInv'
  BY TypesStep, ExclusiveStep, MeasuredStep, ReadBackStep DEF SInv
<1> QED BY <1>1, <1>2, PTL DEF Spec

\* While get_current_epg walks the array, its arguments are the array's address
\* and length and no request thread replaces it, for any number of slots and
\* threads, whatever fails: but for a thread that replaced it between main's
\* reading the arguments and its getting the mutex.
THEOREM ScanAlwaysDefined == Spec => []ScanDefined
<1>1. SInv => ScanDefined
  <2> SUFFICES ASSUME SInv, main.pc \in Scanning, ~overtaken
               PROVE  main.epg = epg /\ main.epg_count = Len(array)
    BY DEF ScanDefined, Scanning
  <2>1. main.epg = epg /\ main.epg_count = epg_count BY DEF SInv, ReadBack, Scanning
  <2>2. \A t \in Threads : request[t].pc \notin Holding
    BY ThreadsAreNotMain DEF SInv, Exclusive
  <2>3. epg_count = Len(array) BY <2>2 DEF SInv, Measured, Shortening, Holding
  <2> QED BY <2>1, <2>3
<1> QED BY <1>1, StoreInvariant, PTL

-----------------------------------------------------------------------------
(* Picking from the array.                                                    *)

\* How many of S there are up to i.
Rank(S, i) == Cardinality({j \in S : j <= i})

\* The places of a set have the numbers 1, 2, ... in their order.
LEMMA Ranks ==
  ASSUME NEW S \in SUBSET Nat, IsFiniteSet(S)
  PROVE  /\ Cardinality(S) \in Nat
         /\ \A i \in S : Rank(S, i) \in 1..Cardinality(S)
         /\ \A i, j \in S : i < j => Rank(S, i) < Rank(S, j)
         /\ \A n \in 1..Cardinality(S) : Nth(S, n) \in S /\ Rank(S, Nth(S, n)) = n
         /\ \A i \in S : Nth(S, Rank(S, i)) = i
<1> DEFINE N == Cardinality(S)
           UpTo(i) == {j \in S : j <= i}
<1>1. N \in Nat BY FS_CardinalityType
<1>2. ASSUME NEW i \in S PROVE IsFiniteSet(UpTo(i)) /\ Rank(S, i) \in 1..N
  <2>1. UpTo(i) \in SUBSET S /\ i \in UpTo(i) OBVIOUS
  <2> HIDE DEF UpTo
  <2>2. IsFiniteSet(UpTo(i)) /\ Cardinality(UpTo(i)) <= N BY <2>1, FS_Subset
  <2>3. Cardinality(UpTo(i)) \in Nat /\ Cardinality(UpTo(i)) # 0
    BY <2>1, <2>2, FS_CardinalityType, FS_EmptySet
  <2> QED BY <1>1, <2>2, <2>3 DEF Rank, UpTo
<1>3. ASSUME NEW i \in S, NEW j \in S, i < j PROVE Rank(S, i) < Rank(S, j)
  <2>1. UpTo(i) \in SUBSET UpTo(j) /\ j \in UpTo(j) /\ j \notin UpTo(i)
    <3>1. i \in Nat /\ j \in Nat OBVIOUS
    <3>2. ASSUME NEW k \in S, k <= i PROVE k <= j
      <4>1. k \in Nat OBVIOUS
      <4> QED BY <1>3, <3>1, <3>2, <4>1
    <3>3. ~(j <= i) BY <1>3, <3>1
    <3>4. UpTo(i) \in SUBSET UpTo(j) BY <3>2
    <3>5. j <= j BY <3>1
    <3>6. j \in UpTo(j) BY <3>5
    <3>7. j \notin UpTo(i) BY <3>3
    <3> QED BY <3>4, <3>6, <3>7
  <2> HIDE DEF UpTo
  <2>2. /\ Cardinality(UpTo(i)) <= Cardinality(UpTo(j))
        /\ Cardinality(UpTo(j)) = Cardinality(UpTo(i)) => UpTo(j) = UpTo(i)
    BY <1>2, <2>1, FS_Subset
  <2>3. Cardinality(UpTo(i)) \in Nat /\ Cardinality(UpTo(j)) \in Nat BY <1>2, FS_CardinalityType
  <2>4. Cardinality(UpTo(i)) < Cardinality(UpTo(j)) BY <2>1, <2>2, <2>3
  <2> QED BY <2>4 DEF Rank, UpTo
<1>4. ASSUME NEW i \in S, NEW j \in S, Rank(S, i) = Rank(S, j) PROVE i = j
  <2>1. Rank(S, i) \in 1..N /\ Rank(S, j) \in 1..N BY <1>2
  <2> HIDE DEF N
  <2>2. ~(Rank(S, i) < Rank(S, j)) /\ ~(Rank(S, j) < Rank(S, i)) BY <1>1, <1>4, <2>1
  <2>3. ~(i < j) /\ ~(j < i) BY <1>3, <2>2
  <2>4. i \in Nat /\ j \in Nat OBVIOUS
  <2> QED BY <2>3, <2>4
<1>5. \A n \in 1..N : \E i \in S : Rank(S, i) = n
  <2> DEFINE rank == [i \in S |-> Rank(S, i)]
  <2>1. rank \in [S -> 1..N] BY <1>2
  <2>2. rank \in Injection(S, 1..N) BY <1>4, <2>1 DEF Injection, IsInjective
  <2> HIDE DEF rank
  <2>3. IsFiniteSet(1..N) /\ Cardinality(1..N) = N
    <3>1. 1 \in Int /\ N \in Int BY <1>1
    <3>2. IsFiniteSet(1..N) /\ Cardinality(1..N) = IF 1 > N THEN 0 ELSE N - 1 + 1
      BY <3>1, FS_Interval
    <3> QED BY <1>1, <3>2
  <2>4. rank \in Surjection(S, 1..N) BY <2>2, <2>3, FS_Injection
  <2>5. \A n \in 1..N : \E i \in S : rank[i] = n BY <2>4 DEF Surjection
  <2> QED BY <2>5 DEF rank
<1>6. ASSUME NEW n \in 1..N PROVE Nth(S, n) \in S /\ Rank(S, Nth(S, n)) = n
  BY <1>5 DEF Nth, Rank
<1>7. ASSUME NEW i \in S PROVE Nth(S, Rank(S, i)) = i
  BY <1>2, <1>4, <1>6
<1> QED BY <1>1, <1>2, <1>3, <1>6, <1>7

\* A set whose places moved, but kept their order, has them in the same order.
LEMMA RanksMoved ==
  ASSUME NEW S \in SUBSET Nat, IsFiniteSet(S), NEW T \in SUBSET Nat, IsFiniteSet(T),
         NEW moved \in [S -> T],
         \A i, j \in S : i < j => moved[i] < moved[j],
         \A k \in T : \E i \in S : moved[i] = k
  PROVE  /\ Cardinality(T) = Cardinality(S)
         /\ \A n \in 1..Cardinality(S) : Nth(T, n) = moved[Nth(S, n)]
<1>1. \A i, j \in S : i <= j <=> moved[i] <= moved[j]
  <2>1. ASSUME NEW i \in S, NEW j \in S PROVE i <= j <=> moved[i] <= moved[j]
    <3>1. i \in Nat /\ j \in Nat /\ moved[i] \in Nat /\ moved[j] \in Nat OBVIOUS
    <3>2. (i < j => moved[i] < moved[j]) /\ (j < i => moved[j] < moved[i]) /\ (i = j => moved[i] = moved[j])
      OBVIOUS
    <3> QED BY <3>1, <3>2
  <2> QED BY <2>1
<1>2. \A i, j \in S : moved[i] = moved[j] => i = j
  <2>1. ASSUME NEW i \in S, NEW j \in S, moved[i] = moved[j] PROVE i = j
    <3>1. i \in Nat /\ j \in Nat /\ moved[i] \in Nat /\ moved[j] \in Nat OBVIOUS
    <3>2. ~(i < j) /\ ~(j < i) BY <2>1, <3>1
    <3> QED BY <3>1, <3>2
  <2> QED BY <2>1
<1>3. Cardinality(T) = Cardinality(S)
  <2>1. moved \in Injection(S, T) BY <1>2 DEF Injection, IsInjective
  <2>2. moved \in Surjection(S, T) BY DEF Surjection
  <2>3. ExistsBijection(S, T) BY <2>1, <2>2 DEF ExistsBijection, Bijection
  <2> QED BY <2>3, FS_Bijection
<1>4. ASSUME NEW i \in S PROVE Rank(T, moved[i]) = Rank(S, i)
  <2> DEFINE A == {j \in S : j <= i}
             B == {k \in T : k <= moved[i]}
             f == [j \in A |-> moved[j]]
  <2>1. f \in [A -> B] BY <1>1
  <2>2. \A j, k \in A : f[j] = f[k] => j = k BY <1>2
  <2>3. \A k \in B : \E j \in A : f[j] = k
    <3>1. ASSUME NEW k \in B PROVE \E j \in A : f[j] = k
      <4>1. PICK j \in S : moved[j] = k OBVIOUS
      <4>2. j \in A BY <1>1, <4>1
      <4> QED BY <4>1, <4>2
    <3> QED BY <3>1
  <2>4. IsFiniteSet(A)
    <3>1. A \in SUBSET S OBVIOUS
    <3> HIDE DEF A
    <3> QED BY <3>1, FS_Subset
  <2> HIDE DEF A, B, f
  <2>5. f \in Injection(A, B) BY <2>1, <2>2 DEF Injection, IsInjective
  <2>6. f \in Surjection(A, B) BY <2>1, <2>3 DEF Surjection
  <2>7. ExistsBijection(A, B) BY <2>5, <2>6 DEF ExistsBijection, Bijection
  <2>8. Cardinality(B) = Cardinality(A) BY <2>4, <2>7, FS_Bijection
  <2> QED BY <2>8 DEF A, B, Rank
<1>5. ASSUME NEW n \in 1..Cardinality(S) PROVE Nth(T, n) = moved[Nth(S, n)]
  <2>1. Nth(S, n) \in S /\ Rank(S, Nth(S, n)) = n BY Ranks
  <2>2. Rank(T, moved[Nth(S, n)]) = n /\ moved[Nth(S, n)] \in T BY <1>4, <2>1
  <2>3. \A k \in T : Nth(T, Rank(T, k)) = k BY Ranks
  <2> QED BY <2>2, <2>3
<1> QED BY <1>3, <1>5

-----------------------------------------------------------------------------
(* Guides, of any array.                                                      *)

Array(a) == a = [i \in 1..Len(a) |-> a[i]] /\ Len(a) \in Nat
OwnIn(a, s) == {i \in DOMAIN a : a[i] # Junk /\ a[i].slot = s}
GuideIn(a, s) == [n \in 1..Cardinality(OwnIn(a, s)) |-> a[Nth(OwnIn(a, s), n)]]

\* A slot's places in an array are finitely many.
LEMMA OwnFinite ==
  ASSUME NEW a, Array(a), NEW s
  PROVE  /\ DOMAIN a = 1..Len(a) /\ Len(a) \in Nat
         /\ OwnIn(a, s) \in SUBSET Nat /\ IsFiniteSet(OwnIn(a, s))
<1>1. DOMAIN a = 1..Len(a) /\ Len(a) \in Nat BY DEF Array
<1>2. IsFiniteSet(1..Len(a))
  <2>1. 1 \in Int /\ Len(a) \in Int BY <1>1
  <2> QED BY <2>1, FS_Interval
<1>3. OwnIn(a, s) \in SUBSET (1..Len(a)) BY <1>1 DEF OwnIn
<1> QED BY <1>1, <1>2, <1>3, FS_Subset

\* A slot's programs that moved but kept their order are the same guide.
LEMMA GuideMoved ==
  ASSUME NEW a, Array(a), NEW b, Array(b), NEW s,
         NEW moved \in [OwnIn(a, s) -> OwnIn(b, s)],
         \A i, j \in OwnIn(a, s) : i < j => moved[i] < moved[j],
         \A k \in OwnIn(b, s) : \E i \in OwnIn(a, s) : moved[i] = k,
         \A i \in OwnIn(a, s) : b[moved[i]] = a[i]
  PROVE  GuideIn(b, s) = GuideIn(a, s)
<1> DEFINE S == OwnIn(a, s)
           T == OwnIn(b, s)
<1>1. S \in SUBSET Nat /\ IsFiniteSet(S) /\ T \in SUBSET Nat /\ IsFiniteSet(T) BY OwnFinite
<1> HIDE DEF S, T
<1>2. /\ Cardinality(T) = Cardinality(S)
      /\ \A n \in 1..Cardinality(S) : Nth(T, n) = moved[Nth(S, n)]
  BY <1>1, RanksMoved DEF S, T
<1>3. \A n \in 1..Cardinality(S) : Nth(S, n) \in S BY <1>1, Ranks
<1>4. \A n \in 1..Cardinality(S) : b[Nth(T, n)] = a[Nth(S, n)]
  BY <1>2, <1>3 DEF S
<1> QED BY <1>2, <1>4 DEF GuideIn, S, T

\* When places O of an array are copied one after the other, behind n unused
\* entries, a slot whose programs are all among them keeps its guide, and every
\* program of the copy is one of theirs.
LEMMA GuideCopied ==
  ASSUME NEW a, Array(a), NEW b, Array(b), NEW O \in SUBSET DOMAIN a, NEW n \in Nat,
         Len(b) = n + Cardinality(O),
         \A i \in 1..n : b[i] = Junk,
         \A k \in 1..Cardinality(O) : b[n + k] = a[Nth(O, k)],
         NEW s
  PROVE  /\ OwnIn(a, s) \subseteq O => GuideIn(b, s) = GuideIn(a, s)
         /\ \A k \in OwnIn(b, s) : \E i \in O : b[k] = a[i]
<1> DEFINE N == Cardinality(O)
<1>1. O \in SUBSET Nat /\ IsFiniteSet(O)
  <2>1. DOMAIN a = 1..Len(a) /\ Len(a) \in Nat BY OwnFinite
  <2>2. IsFiniteSet(1..Len(a))
    <3>1. 1 \in Int /\ Len(a) \in Int BY <2>1
    <3> QED BY <3>1, FS_Interval
  <2> QED BY <2>1, <2>2, FS_Subset
<1>2. /\ N \in Nat
      /\ \A i \in O : Rank(O, i) \in 1..N
      /\ \A i, j \in O : i < j => Rank(O, i) < Rank(O, j)
      /\ \A k \in 1..N : Nth(O, k) \in O /\ Rank(O, Nth(O, k)) = k
      /\ \A i \in O : Nth(O, Rank(O, i)) = i
  BY <1>1, Ranks
<1>3. DOMAIN b = 1..(n + N) BY OwnFinite
<1>4. \A k \in 1..N : b[n + k] = a[Nth(O, k)] OBVIOUS
<1> HIDE DEF N
<1>5. ASSUME NEW i \in OwnIn(b, s) PROVE \E k \in 1..N : i = n + k
  <2>1. i \in 1..(n + N) /\ b[i] # Junk BY <1>3 DEF OwnIn
  <2>2. i \notin 1..n BY <2>1
  <2>3. i \in Nat /\ n < i /\ i <= n + N BY <1>2, <2>1, <2>2
  <2>4. i - n \in 1..N /\ i = n + (i - n) BY <1>2, <2>3
  <2> QED BY <2>4
<1>6. ASSUME NEW k \in OwnIn(b, s) PROVE \E i \in O : b[k] = a[i]
  BY <1>2, <1>4, <1>5
<1>7. ASSUME OwnIn(a, s) \subseteq O PROVE GuideIn(b, s) = GuideIn(a, s)
  <2> DEFINE moved == [i \in OwnIn(a, s) |-> n + Rank(O, i)]
  <2>1. ASSUME NEW i \in OwnIn(a, s)
        PROVE  n + Rank(O, i) \in OwnIn(b, s) /\ b[n + Rank(O, i)] = a[i]
    <3>1. i \in O /\ a[i] # Junk /\ a[i].slot = s BY <1>7 DEF OwnIn
    <3>2. Rank(O, i) \in 1..N /\ Nth(O, Rank(O, i)) = i BY <1>2, <3>1
    <3>3. b[n + Rank(O, i)] = a[i] BY <1>4, <3>2
    <3>4. \A r \in 1..N : n + r \in 1..(n + N) BY <1>2
    <3>5. n + Rank(O, i) \in DOMAIN b BY <1>3, <3>2, <3>4
    <3> QED BY <3>1, <3>3, <3>5 DEF OwnIn
  <2>2. moved \in [OwnIn(a, s) -> OwnIn(b, s)] BY <2>1
  <2>3. \A i \in OwnIn(a, s) : moved[i] = n + Rank(O, i) OBVIOUS
  <2> HIDE DEF moved
  <2>4. ASSUME NEW i \in OwnIn(a, s), NEW j \in OwnIn(a, s), i < j
        PROVE  moved[i] < moved[j]
    <3>1. Rank(O, i) < Rank(O, j) BY <1>2, <1>7, <2>4
    <3>2. Rank(O, i) \in 1..N /\ Rank(O, j) \in 1..N BY <1>2, <1>7
    <3>3. \A p, q \in 1..N : p < q => n + p < n + q BY <1>2
    <3> QED BY <2>3, <3>1, <3>2, <3>3
  <2>5. ASSUME NEW k \in OwnIn(b, s) PROVE \E i \in OwnIn(a, s) : moved[i] = k
    <3>1. PICK r \in 1..N : k = n + r BY <1>5
    <3>2. Nth(O, r) \in O /\ Rank(O, Nth(O, r)) = r /\ b[k] = a[Nth(O, r)] BY <1>2, <1>4, <3>1
    <3>3. b[k] # Junk /\ b[k].slot = s BY DEF OwnIn
    <3>4. Nth(O, r) \in OwnIn(a, s) BY <3>2, <3>3 DEF OwnIn
    <3>5. moved[Nth(O, r)] = k BY <2>3, <3>1, <3>2, <3>4
    <3> QED BY <3>4, <3>5
  <2>6. \A i \in OwnIn(a, s) : b[moved[i]] = a[i] BY <2>1, <2>3
  <2> QED BY <2>2, <2>4, <2>5, <2>6, GuideMoved
<1> QED BY <1>6, <1>7

\* What epg_delete leaves holds nothing of the slot, and of every other slot the
\* same guide.
LEMMA Deleted ==
  ASSUME Measured, NEW s, NEW rest \in Remaining(s)
  PROVE  /\ Array(rest)
         /\ OwnIn(rest, s) = {}
         /\ \A r : r # s => GuideIn(rest, r) = GuideIn(array, r)
<1>1. Array(array) /\ Array(rest) BY RemainingSequence DEF Measured, Array
<1>2. IsFiniteSet(Others(s)) /\ IsFiniteSet(JunkOnly)
  <2>1. DOMAIN array = 1..Len(array) /\ Len(array) \in Nat BY <1>1, OwnFinite
  <2>2. IsFiniteSet(1..Len(array))
    <3>1. 1 \in Int /\ Len(array) \in Int BY <2>1
    <3> QED BY <3>1, FS_Interval
  <2> QED BY <2>1, <2>2, FS_Subset DEF Others, JunkOnly
<1>3. PICK n \in 0..Cardinality(JunkOnly) :
        rest = [i \in 1..n |-> Junk] \o Picked(Others(s))
  BY DEF Remaining
<1>4. n \in Nat BY <1>2, FS_CardinalityType
<1> DEFINE junk == [i \in 1..n |-> Junk]
           O == Others(s)
           N == Cardinality(O)
<1>5. junk = [i \in 1..n |-> junk[i]] OBVIOUS
<1>6. N \in Nat /\ Picked(O) = [k \in 1..N |-> Picked(O)[k]] BY <1>2, PickedSequence
<1>7. \A i \in 1..n : junk[i] = Junk OBVIOUS
<1>8. \A k \in 1..N : Picked(O)[k] = array[Nth(O, k)] BY DEF Picked
<1>9. O \in SUBSET DOMAIN array BY DEF Others
<1>10. rest = junk \o Picked(O) BY <1>3
<1> HIDE DEF junk, N
<1>11. /\ Len(rest) = n + N
       /\ \A i \in 1..n : rest[i] = junk[i]
       /\ \A k \in 1..N : rest[n + k] = Picked(O)[k]
  BY <1>4, <1>5, <1>6, <1>10, Joined
<1> HIDE DEF O
<1>12. ASSUME NEW r
       PROVE  /\ OwnIn(array, r) \subseteq O => GuideIn(rest, r) = GuideIn(array, r)
              /\ \A k \in OwnIn(rest, r) : \E i \in O : rest[k] = array[i]
  BY <1>1, <1>4, <1>7, <1>8, <1>9, <1>11, GuideCopied DEF N
<1>13. OwnIn(rest, s) = {}
  <2>1. ASSUME NEW k \in OwnIn(rest, s) PROVE FALSE
    <3>1. PICK i \in O : rest[k] = array[i] BY <1>12
    <3>2. rest[k] # Junk /\ rest[k].slot = s BY DEF OwnIn
    <3>3. i \in Own(s) BY <1>9, <3>1, <3>2 DEF Own
    <3> QED BY <3>3 DEF O, Others
  <2> QED BY <2>1
<1>14. ASSUME NEW r, r # s PROVE OwnIn(array, r) \subseteq O
  BY <1>14 DEF OwnIn, O, Others, Own, JunkOnly
<1> QED BY <1>1, <1>12, <1>13, <1>14

\* What epg_insert appends is the slot's guide, when the slot had none, and of
\* every other slot the guide stays.
LEMMA Inserted ==
  ASSUME NEW a, Array(a), NEW n \in Nat, NEW new, new = [k \in 1..n |-> new[k]],
         NEW s, OwnIn(a, s) = {}, \A k \in 1..n : new[k] # Junk /\ new[k].slot = s
  PROVE  /\ Array(a \o new)
         /\ GuideIn(a \o new, s) = new
         /\ \A r : r # s => GuideIn(a \o new, r) = GuideIn(a, r)
<1> DEFINE m == Len(a)
           b == a \o new
<1>1. DOMAIN a = 1..m /\ m \in Nat BY OwnFinite
<1>2. a = [i \in 1..m |-> a[i]] BY DEF Array
<1>3. /\ Array(b) /\ Len(b) = m + n
      /\ \A i \in 1..m : b[i] = a[i]
      /\ \A k \in 1..n : b[m + k] = new[k]
  BY <1>1, <1>2, Joined, SMTT(30) DEF Array
<1> HIDE DEF m, b
<1>4. DOMAIN b = 1..(m + n) BY <1>3, OwnFinite
<1>5. ASSUME NEW i \in 1..(m + n) PROVE i \in 1..m \/ \E k \in 1..n : i = m + k
  <2>1. CASE i <= m BY <1>1, <2>1
  <2>2. CASE ~(i <= m)
    <3>1. i - m \in 1..n /\ i = m + (i - m) BY <1>1, <2>2
    <3> QED BY <3>1
  <2> QED BY <2>1, <2>2
<1>6. \A k \in 1..n : m + k \in 1..(m + n) BY <1>1
<1>7. \A i \in 1..m : i \in 1..(m + n) BY <1>1
<1>8. ASSUME NEW r, r # s PROVE GuideIn(b, r) = GuideIn(a, r)
  <2>1. OwnIn(b, r) = OwnIn(a, r)
    <3>1. ASSUME NEW i \in OwnIn(b, r) PROVE i \in OwnIn(a, r)
      <4>1. i \in 1..(m + n) /\ b[i] # Junk /\ b[i].slot = r BY <1>4 DEF OwnIn
      <4>2. i \in 1..m BY <1>3, <1>5, <1>8, <4>1
      <4> QED BY <1>1, <1>3, <4>1, <4>2 DEF OwnIn
    <3>2. ASSUME NEW i \in OwnIn(a, r) PROVE i \in OwnIn(b, r)
      BY <1>1, <1>3, <1>4, <1>7 DEF OwnIn
    <3> QED BY <3>1, <3>2
  <2>2. \A i \in OwnIn(a, r) : b[i] = a[i] BY <1>1, <1>3 DEF OwnIn
  <2>3. OwnIn(a, r) \in SUBSET Nat /\ IsFiniteSet(OwnIn(a, r)) BY OwnFinite
  <2>4. \A k \in 1..Cardinality(OwnIn(a, r)) : Nth(OwnIn(a, r), k) \in OwnIn(a, r)
    BY <2>3, Ranks
  <2> QED BY <2>1, <2>2, <2>4 DEF GuideIn
<1>9. GuideIn(b, s) = new
  <2> DEFINE T == OwnIn(b, s)
             moved == [k \in 1..n |-> m + k]
  <2>1. T = {m + k : k \in 1..n}
    <3>1. ASSUME NEW i \in T PROVE i \in {m + k : k \in 1..n}
      <4>1. i \in 1..(m + n) /\ b[i] # Junk /\ b[i].slot = s BY <1>4 DEF OwnIn
      <4>2. i \notin 1..m BY <1>1, <1>3, <4>1 DEF OwnIn
      <4> QED BY <1>5, <4>1, <4>2
    <3>2. ASSUME NEW k \in 1..n PROVE m + k \in T
      BY <1>3, <1>4, <1>6 DEF OwnIn
    <3> QED BY <3>1, <3>2
  <2>2. T \in SUBSET Nat /\ IsFiniteSet(T) BY <1>3, OwnFinite
  <2> HIDE DEF T
  <2>3. moved \in [1..n -> T] /\ \A k \in T : \E i \in 1..n : moved[i] = k BY <2>1
  <2>4. \A i, j \in 1..n : i < j => moved[i] < moved[j] BY <1>1
  <2>5. \A k \in 1..n : moved[k] = m + k OBVIOUS
  <2>6. 1..n \in SUBSET Nat /\ IsFiniteSet(1..n) /\ Cardinality(1..n) = n
    <3>1. 1 \in Int /\ n \in Int OBVIOUS
    <3>2. IsFiniteSet(1..n) /\ Cardinality(1..n) = IF 1 > n THEN 0 ELSE n - 1 + 1
      BY <3>1, FS_Interval
    <3> QED BY <3>2
  <2>7. Cardinality(T) = n /\ \A k \in 1..n : Nth(T, k) = moved[Nth(1..n, k)]
    <3> DEFINE I == 1..n
    <3>1. I \in SUBSET Nat /\ IsFiniteSet(I) /\ Cardinality(I) = n BY <2>6
    <3>2. /\ moved \in [I -> T]
          /\ \A i, j \in I : i < j => moved[i] < moved[j]
          /\ \A k \in T : \E i \in I : moved[i] = k
      BY <2>3, <2>4
    <3> HIDE DEF I, moved
    <3>3. /\ Cardinality(T) = Cardinality(I)
          /\ \A k \in 1..Cardinality(I) : Nth(T, k) = moved[Nth(I, k)]
      BY <2>2, <3>1, <3>2, RanksMoved
    <3> QED BY <3>1, <3>3 DEF I
  <2> HIDE DEF moved
  <2>8. ASSUME NEW k \in 1..n PROVE Nth(1..n, k) = k
    <3>1. {j \in 1..n : j <= k} = 1..k OBVIOUS
    <3>2. Cardinality(1..k) = k
      <4>1. 1 \in Int /\ k \in Int OBVIOUS
      <4>2. Cardinality(1..k) = IF 1 > k THEN 0 ELSE k - 1 + 1 BY <4>1, FS_Interval
      <4> QED BY <4>2
    <3>3. Rank(1..n, k) = k BY <3>1, <3>2 DEF Rank
    <3>4. Nth(1..n, Rank(1..n, k)) = k BY <2>6, Ranks
    <3> QED BY <3>3, <3>4
  <2>9. \A k \in 1..n : b[Nth(T, k)] = new[k] BY <1>3, <2>5, <2>7, <2>8
  <2> QED BY <2>7, <2>9 DEF GuideIn, T
<1> QED BY <1>3, <1>8, <1>9 DEF b

-----------------------------------------------------------------------------
(* The guides the threads make.                                               *)

\* Every thread asks for a channel of a slot, ...
Asked ==
  /\ tuned \in [Slots -> Channels]
  /\ \A t \in Threads : request[t].pc # "none" =>
       request[t].slot \in Slots /\ request[t].channel \in Channels

\* ... from the script to its last assignment with python_mutex, ...
Serial ==
  \A t \in Threads : request[t].pc \in {"script", "delete", "insert"} \cup Holding
                       => python = t

\* ... and between epg_delete's copying and the end of epg_insert the slot has
\* no programs.
Emptied ==
  \A t \in Threads : request[t].pc \in {"shorten", "insert", "grow", "fill"}
                       => OwnIn(array, request[t].slot) = {}

\* There is no program where there is no block.
NoBlock ==
  /\ epg = Null => \A s \in Slots : OwnIn(array, s) = {}
  /\ \A t \in Threads : request[t].pc = "fill" => epg # Null

\* OneAnswer for one guide: what Fill appends for one thread.
Answered(g, s) ==
  g # <<>> => \E t \in Threads, c \in Channels :
    g = [i \in 1..Len(g) |-> [slot |-> s, channel |-> c, from |-> t, nr |-> i]]
AllAnswered == \A s \in Slots : Answered(GuideIn(array, s), s)

GInv == Asked /\ Serial /\ Emptied /\ NoBlock /\ AllAnswered

\* A thread that moves, with the request it has.
Carries(t, from, to) ==
  /\ Moves(t, from, to)
  /\ to # "none" => request'[t].slot = request[t].slot
                     /\ request'[t].channel = request[t].channel

\* A thread goes on for the same slot and channel, ...
LEMMA GotoCarries ==
  ASSUME Types, NEW t \in Threads, NEW to, NEW n, Goto(t, to, n)
  PROVE  Carries(t, request[t].pc, to)
<1> DEFINE r == [pc |-> to, slot |-> request[t].slot, channel |-> request[t].channel, count |-> n]
<1>1. DOMAIN request = Threads BY DEF Types
<1>2. request' = [u \in Threads |-> IF u = t THEN r ELSE request[u]] BY <1>1 DEF Goto
<1>3. r.slot = request[t].slot /\ r.channel = request[t].channel OBVIOUS
<1> HIDE DEF r
<1>4. request'[t] = r BY <1>2
<1> QED BY <1>3, <1>4, GotoMoves DEF Carries

\* ... or ends.
LEMMA EndCarries ==
  ASSUME Types, NEW t \in Threads, request' = [request EXCEPT ![t] = Idle]
  PROVE  Carries(t, request[t].pc, "none")
BY EndMoves DEF Carries

\* Threads are begun for slots and channels there are.
LEMMA SpawnAsks ==
  ASSUME Types, NEW requests \in SUBSET (Slots \X Channels), Spawn(requests), Asked,
         NEW t \in Threads, request'[t].pc # "none"
  PROVE  request'[t].slot \in Slots /\ request'[t].channel \in Channels
<1>1. PICK new \in [requests -> Threads] :
        /\ \A r \in requests : request[new[r]] = Idle
        /\ request' = [u \in Threads |->
             IF \E r \in requests : new[r] = u
             THEN LET r == CHOOSE r \in requests : new[r] = u
                  IN [pc |-> "wait", slot |-> r[1], channel |-> r[2]]
             ELSE request[u]]
  BY DEF Spawn
<1>2. CASE \E r \in requests : new[r] = t
  <2> DEFINE r == CHOOSE r \in requests : new[r] = t
  <2>1. r \in requests BY <1>2
  <2>2. request'[t] = [pc |-> "wait", slot |-> r[1], channel |-> r[2]] BY <1>1, <1>2
  <2> HIDE DEF r
  <2>3. r[1] \in Slots /\ r[2] \in Channels BY <2>1
  <2> QED BY <2>2, <2>3
<1>3. CASE ~ \E r \in requests : new[r] = t BY <1>1, <1>3 DEF Asked
<1> QED BY <1>2, <1>3

\* A guide without programs is empty.
LEMMA NoPrograms ==
  ASSUME NEW a, NEW s, OwnIn(a, s) = {}
  PROVE  GuideIn(a, s) = <<>>
<1>1. Cardinality({}) = 0 BY FS_EmptySet
<1>2. GuideIn(a, s) = [n \in 1..0 |-> a[Nth(OwnIn(a, s), n)]] BY <1>1 DEF GuideIn
<1> QED BY <1>2

\* A step that leaves the store alone keeps what the guides need, when each
\* thread stays where it was with its request, or goes where nothing is asked.
LEMMA GuidesStay ==
  ASSUME UNCHANGED <<epg, array>>, Emptied, NoBlock, AllAnswered,
         \A t \in Threads : request'[t] = request[t]
                             \/ request'[t].pc \notin {"shorten", "insert", "grow", "fill"}
                             \/ (/\ request[t].pc \in {"shorten", "insert"}
                                 /\ request'[t].pc \in {"insert", "grow"}
                                 /\ request'[t].slot = request[t].slot)
  PROVE  Emptied' /\ NoBlock' /\ AllAnswered'
<1>1. Emptied' BY DEF Emptied
<1>2. NoBlock' BY DEF NoBlock
<1>3. AllAnswered' BY DEF AllAnswered
<1> QED BY <1>1, <1>2, <1>3

\* Main's lookups change neither the threads nor the store.
LEMMA LookChangesNothing == Look => UNCHANGED <<tuned, request, python, epg, array>>
<1>1. CASE BeginLookup BY <1>1 DEF BeginLookup, mutexes, store
<1>2. CASE ReadAddress BY <1>2 DEF ReadAddress, mutexes, store
<1>3. CASE ReadLength BY <1>3 DEF ReadLength, mutexes, store
<1>4. CASE BeginScan BY <1>4 DEF BeginScan, store
<1>5. CASE BeginNested BY <1>5 DEF BeginNested, store
<1>6. CASE EndNested BY <1>6 DEF EndNested, store
<1>7. CASE EndScan BY <1>7 DEF EndScan, store
<1> QED BY <1>1, <1>2, <1>3, <1>4, <1>5, <1>6, <1>7 DEF Look

\* Every step keeps what the threads ask for, ...
LEMMA AskedStep == Types /\ Asked /\ [Next]_vars => Asked'
<1> SUFFICES ASSUME Types, Asked, [Next]_vars PROVE Asked'
  OBVIOUS
<1>1. ASSUME UNCHANGED <<tuned, request>> PROVE Asked'
  BY <1>1 DEF Asked
<1>2. ASSUME NEW requests \in SUBSET (Slots \X Channels), Spawn(requests),
             tuned' \in [Slots -> Channels]
      PROVE  Asked'
  BY <1>2, SpawnAsks DEF Asked
<1>3. ASSUME NEW t \in Threads, NEW from, NEW to, Carries(t, from, to), from # "none",
             tuned' = tuned
      PROVE  Asked'
  BY <1>3 DEF Asked, Carries, Moves
<1>4. ASSUME NEW s \in Slots, Tune(s) PROVE Asked'
  <2>1. PICK c \in Channels :
          (tuned' = [tuned EXCEPT ![s] = c] \/ UNCHANGED tuned) /\ Spawn({<<s, c>>})
    BY <1>4 DEF Tune
  <2>2. {<<s, c>>} \in SUBSET (Slots \X Channels) OBVIOUS
  <2>3. tuned' \in [Slots -> Channels] BY <2>1 DEF Asked
  <2> QED BY <1>2, <2>1, <2>2, <2>3
<1>5. CASE Refresh
  <2>1. {<<s, tuned[s]>> : s \in Slots} \in SUBSET (Slots \X Channels) BY DEF Asked
  <2>2. Spawn({<<s, tuned[s]>> : s \in Slots}) /\ tuned' = tuned BY <1>5 DEF Refresh
  <2>3. tuned' \in [Slots -> Channels] BY <2>2 DEF Asked
  <2> QED BY <1>2, <2>1, <2>2, <2>3
<1>6. CASE Look BY <1>1, <1>6, LookChangesNothing
<1>7. ASSUME NEW t \in Threads,
             \/ TakePython(t) \/ Script(t) \/ LockForDelete(t) \/ LockForInsert(t) \/ Store(t)
      PROVE  Asked'
  <2>1. PICK to : Carries(t, request[t].pc, to)
    <3>1. CASE TakePython(t) \/ Script(t)
      BY <3>1, GotoCarries, EndCarries DEF TakePython, Script, Answer, ScriptFails, End
    <3>2. CASE LockForDelete(t) \/ LockForInsert(t)
      BY <3>2, GotoCarries DEF LockForDelete, LockForInsert
    <3>3. CASE NothingToDelete(t) \/ CopyRest(t) \/ Shorten(t) \/ Grow(t)
      BY <3>3, GotoCarries DEF NothingToDelete, CopyRest, Shorten, Grow
    <3>4. CASE CopyFails(t) \/ GrowFails(t) \/ Fill(t)
      BY <3>4, EndCarries DEF CopyFails, GrowFails, Fill, End
    <3> QED BY <1>7, <3>1, <3>2, <3>3, <3>4 DEF Store
  <2>2. request[t].pc # "none"
    BY <1>7 DEF TakePython, Script, Answer, ScriptFails, LockForDelete, LockForInsert, Store,
                NothingToDelete, CopyRest, CopyFails, Shorten, Grow, GrowFails, Fill, At
  <2>3. tuned' = tuned
    BY <1>7 DEF TakePython, Script, Answer, ScriptFails, LockForDelete, LockForInsert, Store,
                NothingToDelete, CopyRest, CopyFails, Shorten, Grow, GrowFails, Fill
  <2> QED BY <1>3, <2>1, <2>2, <2>3
<1>8. CASE UNCHANGED vars BY <1>1, <1>8 DEF vars
<1> QED BY <1>4, <1>5, <1>6, <1>7, <1>8 DEF Next

\* Where a thread has python_mutex.
Serving == {"script", "delete", "insert"} \cup Holding

\* ... that one thread at a time has a script's answer to store, ...
LEMMA SerialStep == Types /\ Serial /\ [Next]_vars => Serial'
<1> SUFFICES ASSUME Types, Serial, [Next]_vars PROVE Serial'
  OBVIOUS
<1>1. Serial <=> \A t \in Threads : request[t].pc \in Serving => python = t
  BY DEF Serial, Serving
<1>2. Serial' <=> \A t \in Threads : request'[t].pc \in Serving => python' = t
  BY DEF Serial, Serving
<1>3. ASSUME UNCHANGED <<request, python>> PROVE Serial'
  BY <1>1, <1>2, <1>3
<1>4. ASSUME NEW requests, Spawn(requests), python' = python PROVE Serial'
  <2>1. \A t \in Threads : request'[t] = request[t] \/ request'[t].pc = "wait"
    BY <1>4, SpawnMoves
  <2>2. "wait" \notin Serving BY DEF Serving, Holding
  <2> QED BY <1>1, <1>2, <1>4, <2>1, <2>2
<1>5. ASSUME NEW t \in Threads, NEW from, NEW to, Moves(t, from, to), from \in Serving,
             python' = python
      PROVE  Serial'
  BY <1>1, <1>2, <1>5 DEF Moves
<1>6. ASSUME NEW t \in Threads, NEW from, NEW to, Moves(t, from, to), from \in Serving,
             to \notin Serving
      PROVE  Serial'
  BY <1>1, <1>2, <1>6 DEF Moves
<1>7. CASE (\E s \in Slots : Tune(s)) \/ Refresh
  BY <1>4, <1>7 DEF Tune, Refresh, mutexes
<1>8. CASE Look BY <1>3, <1>8, LookChangesNothing
<1>9. ASSUME NEW t \in Threads, TakePython(t) PROVE Serial'
  <2>1. Moves(t, request[t].pc, "script") BY <1>9, GotoMoves DEF TakePython
  <2>2. python = NoOne /\ python' = t BY <1>9 DEF TakePython
  <2>3. \A u \in Threads : request[u].pc \notin Serving BY <1>1, <2>2, ThreadsAreNotMain
  <2> QED BY <1>2, <2>1, <2>2, <2>3 DEF Moves
<1>10. ASSUME NEW t \in Threads,
              \/ Answer(t) \/ LockForDelete(t) \/ LockForInsert(t)
              \/ NothingToDelete(t) \/ CopyRest(t) \/ Shorten(t) \/ Grow(t)
       PROVE  Serial'
  <2>1. PICK to : Moves(t, request[t].pc, to)
    BY <1>10, GotoMoves DEF Answer, LockForDelete, LockForInsert, NothingToDelete, CopyRest,
                            Shorten, Grow
  <2>2. python' = python
    BY <1>10 DEF Answer, LockForDelete, LockForInsert, NothingToDelete, CopyRest, Shorten, Grow,
                 mutexes
  <2>3. request[t].pc \in Serving
    BY <1>10 DEF Answer, LockForDelete, LockForInsert, NothingToDelete, CopyRest, Shorten, Grow,
                 At, Serving, Holding
  <2> QED BY <1>5, <2>1, <2>2, <2>3
<1>11. ASSUME NEW t \in Threads, ScriptFails(t) \/ CopyFails(t) \/ GrowFails(t) \/ Fill(t)
       PROVE  Serial'
  <2>1. Moves(t, request[t].pc, "none")
    BY <1>11, EndMoves DEF ScriptFails, CopyFails, GrowFails, Fill, End
  <2>2. request[t].pc \in Serving
    BY <1>11 DEF ScriptFails, CopyFails, GrowFails, Fill, At, Serving, Holding
  <2>3. "none" \notin Serving BY DEF Serving, Holding
  <2> QED BY <1>6, <2>1, <2>2, <2>3
<1>12. CASE UNCHANGED vars BY <1>3, <1>12 DEF vars, mutexes
<1> QED BY <1>7, <1>8, <1>9, <1>10, <1>11, <1>12 DEF Next, Script, Store

\* What Fill stores is a guide of one answer.
LEMMA Filled ==
  ASSUME SInv, Emptied, Asked, NEW t \in Threads, Fill(t)
  PROVE  /\ Answered(GuideIn(array', request[t].slot), request[t].slot)
         /\ \A r : r # request[t].slot => GuideIn(array', r) = GuideIn(array, r)
         /\ Array(array')
<1> DEFINE s == request[t].slot
           c == request[t].channel
           entry(i) == [slot |-> s, channel |-> c, from |-> t, nr |-> i]
<1>2. request[t].pc = "fill" BY DEF Fill, At
<1>a. request[t].count \in Nat BY <1>2 DEF SInv, Types, Holding
<1>b. PICK n \in 0..request[t].count : array' = array \o KeptOf(t, n)
  BY <1>a, FillAppends
<1> DEFINE new == [i \in 1..n |-> entry(i)]
<1>1. array' = array \o new BY <1>b DEF KeptOf
<1>3. n \in Nat BY <1>a, <1>b
<1>4. s \in Slots /\ c \in Channels BY <1>2 DEF Asked
<1>5. OwnIn(array, s) = {} BY <1>2 DEF Emptied
<1>6. new = [i \in 1..n |-> new[i]] OBVIOUS
<1>7. \A i : entry(i).slot = s OBVIOUS
<1>8. Junk.slot = Null /\ s # Null BY <1>4, NullIsNoAddress DEF Junk
<1>9. \A i \in 1..n : new[i] # Junk /\ new[i].slot = s
  <2>1. \A i \in 1..n : new[i] = entry(i) OBVIOUS
  <2> HIDE DEF entry, new
  <2> QED BY <1>7, <1>8, <2>1
<1>10. Array(array) BY DEF SInv, Measured, Array
<1>11. Len(new) = n BY <1>3, <1>6, Sequence
<1>12. \E u \in Threads, d \in Channels :
         new = [i \in 1..Len(new) |-> [slot |-> s, channel |-> d, from |-> u, nr |-> i]]
  BY <1>4, <1>11
<1> HIDE DEF new, s
<1>13. /\ Array(array \o new) /\ GuideIn(array \o new, s) = new
       /\ \A r : r # s => GuideIn(array \o new, r) = GuideIn(array, r)
  BY <1>3, <1>5, <1>6, <1>9, <1>10, Inserted, SMTT(30)
<1>14. Answered(new, s) BY <1>12 DEF Answered
<1> QED BY <1>1, <1>13, <1>14 DEF s

\* Deleting and inserting touch only the guide of the slot that is asked for.
LEMMA OwnOnly ==
  ASSUME SInv, Emptied, NEW t \in Threads, CopyRest(t) \/ Fill(t), Asked
  PROVE  \A r : r # request[t].slot => GuideIn(array', r) = GuideIn(array, r)
<1> DEFINE s == request[t].slot
<1>1. CASE CopyRest(t)
  <2>1. array' \in Remaining(s) BY <1>1 DEF CopyRest
  <2> QED BY <2>1, Deleted DEF SInv
<1>2. CASE Fill(t)
  BY <1>2, Filled
<1> QED BY <1>1, <1>2

\* Where the slot's programs are deleted already.
Between == {"shorten", "insert", "grow", "fill"}

\* ... so that every step leaves each slot one answer's programs or none.
LEMMA GuidesStep == SInv /\ GInv /\ [Next]_vars => Emptied' /\ NoBlock' /\ AllAnswered'
<1> SUFFICES ASSUME SInv, GInv, [Next]_vars PROVE Emptied' /\ NoBlock' /\ AllAnswered'
  OBVIOUS
<1>a. Types /\ Measured /\ Array(array) BY DEF SInv, Measured, Array
<1>b. Asked /\ Serial /\ Emptied /\ NoBlock /\ AllAnswered BY DEF GInv
<1>c. \A t \in Threads : request[t].pc \in Between => OwnIn(array, request[t].slot) = {}
  BY <1>b DEF Emptied, Between
<1>1. ASSUME UNCHANGED <<epg, array>>,
             \A t \in Threads : request'[t] = request[t] \/ request'[t].pc \notin Between
      PROVE  Emptied' /\ NoBlock' /\ AllAnswered'
  BY <1>1, <1>b, GuidesStay DEF Between
<1>2. ASSUME UNCHANGED <<epg, array>>, NEW t \in Threads, NEW from, NEW to,
             Carries(t, from, to), from \in {"shorten", "insert"}, to \in {"insert", "grow"}
      PROVE  Emptied' /\ NoBlock' /\ AllAnswered'
  <2>1. \A u \in Threads : request'[u] = request[u]
                             \/ (/\ request[u].pc \in {"shorten", "insert"}
                                 /\ request'[u].pc \in {"insert", "grow"}
                                 /\ request'[u].slot = request[u].slot)
    BY <1>2 DEF Carries, Moves
  <2> QED BY <1>2, <1>b, <2>1, GuidesStay
\* A thread that stores is alone, so only it is between deleting and inserting.
<1>3. ASSUME NEW t \in Threads, request[t].pc \in Holding, NEW to,
             Carries(t, request[t].pc, to)
      PROVE  \A u \in Threads : request'[u].pc \in Between
                                 => u = t /\ request'[u].slot = request[t].slot
  <2>1. \A u \in Threads : u # t => request[u].pc \notin Between
    BY <1>3, <1>b DEF Serial, Between, Holding
  <2>2. \A u \in Threads : u # t => request'[u] = request[u] BY <1>3 DEF Carries, Moves
  <2>3. request'[t].pc \in Between => request'[t].slot = request[t].slot
    BY <1>3 DEF Carries, Moves, Between
  <2> QED BY <2>1, <2>2, <2>3
<1>4. CASE (\E s \in Slots : Tune(s)) \/ Refresh
  <2>1. UNCHANGED <<epg, array>> /\ \E requests : Spawn(requests)
    BY <1>4 DEF Tune, Refresh, store
  <2>2. \A t \in Threads : request'[t] = request[t] \/ request'[t].pc = "wait"
    BY <1>a, <2>1, SpawnMoves
  <2> QED BY <1>1, <2>1, <2>2 DEF Between
<1>5. CASE Look BY <1>1, <1>5, LookChangesNothing
<1>6. CASE UNCHANGED vars BY <1>1, <1>6 DEF vars, store
<1>7. ASSUME NEW t \in Threads,
             TakePython(t) \/ Script(t) \/ LockForDelete(t) \/ CopyFails(t)
      PROVE  Emptied' /\ NoBlock' /\ AllAnswered'
  <2>1. PICK to \in {"script", "delete", "copy", "none"} : Moves(t, request[t].pc, to)
    BY <1>7, <1>a, GotoMoves, EndMoves
       DEF TakePython, Script, Answer, ScriptFails, LockForDelete, CopyFails, End
  <2>2. UNCHANGED <<epg, array>>
    BY <1>7 DEF TakePython, Script, Answer, ScriptFails, LockForDelete, CopyFails, store
  <2>3. \A u \in Threads : request'[u] = request[u] \/ request'[u].pc \notin Between
    BY <2>1 DEF Moves, Between
  <2> QED BY <1>1, <2>2, <2>3
<1>8. ASSUME NEW t \in Threads, LockForInsert(t) \/ Shorten(t)
      PROVE  Emptied' /\ NoBlock' /\ AllAnswered'
  <2>1. PICK to \in {"insert", "grow"} : Carries(t, request[t].pc, to)
    BY <1>8, <1>a, GotoCarries DEF LockForInsert, Shorten
  <2>2. UNCHANGED <<epg, array>> /\ request[t].pc \in {"insert", "shorten"}
    BY <1>8 DEF LockForInsert, Shorten, At, store
  <2> QED BY <1>2, <2>1, <2>2
<1>9. ASSUME NEW t \in Threads, NothingToDelete(t) PROVE Emptied' /\ NoBlock' /\ AllAnswered'
  <2>1. UNCHANGED <<epg, array>> /\ request[t].pc = "copy"
    BY <1>9 DEF NothingToDelete, At, store
  <2>2. Carries(t, request[t].pc, "insert") BY <1>9, <1>a, GotoCarries DEF NothingToDelete
  <2>3. OwnIn(array, request[t].slot) = {}
    <3>1. CASE epg = Null
      <4>1. request[t].slot \in Slots BY <1>b, <2>1 DEF Asked
      <4> QED BY <1>b, <3>1, <4>1 DEF NoBlock
    <3>2. CASE array \in Remaining(request[t].slot) BY <1>a, <3>2, Deleted
    <3> QED BY <1>9, <3>1, <3>2 DEF NothingToDelete
  <2>4. \A u \in Threads : request'[u].pc \in Between
                            => u = t /\ request'[u].slot = request[t].slot
    BY <1>3, <2>1, <2>2 DEF Holding
  <2>5. Emptied' BY <2>1, <2>3, <2>4 DEF Emptied, Between
  <2>6. request'[t].pc = "insert" BY <2>2 DEF Carries, Moves
  <2>7. NoBlock' BY <1>b, <2>1, <2>4, <2>6 DEF NoBlock, Between
  <2>8. AllAnswered' BY <1>b, <2>1 DEF AllAnswered
  <2> QED BY <2>5, <2>7, <2>8
<1>10. ASSUME NEW t \in Threads, CopyRest(t) PROVE Emptied' /\ NoBlock' /\ AllAnswered'
  <2> DEFINE s == request[t].slot
  <2>1. request[t].pc = "copy" /\ array' \in Remaining(s) /\ epg' \in Addresses
    BY <1>10 DEF CopyRest, At
  <2>2. Carries(t, request[t].pc, "shorten") BY <1>10, <1>a, GotoCarries DEF CopyRest
  <2>3. /\ OwnIn(array', s) = {}
        /\ \A r : r # s => GuideIn(array', r) = GuideIn(array, r)
    BY <1>a, <2>1, Deleted
  <2>4. \A u \in Threads : request'[u].pc \in Between => u = t /\ request'[u].slot = s
    BY <1>3, <2>1, <2>2 DEF Holding
  <2>5. Emptied' BY <2>3, <2>4 DEF Emptied, Between
  <2>6. request'[t].pc = "shorten" BY <2>2 DEF Carries, Moves
  <2>7. NoBlock' BY <2>1, <2>4, <2>6, NullIsNoAddress DEF NoBlock, Between
  <2>8. GuideIn(array', s) = <<>> BY <2>3, NoPrograms
  <2>9. \A r \in Slots : Answered(GuideIn(array', r), r)
    BY <1>b, <2>3, <2>8 DEF AllAnswered, Answered
  <2> QED BY <2>5, <2>7, <2>9 DEF AllAnswered
<1>11. ASSUME NEW t \in Threads, Grow(t) PROVE Emptied' /\ NoBlock' /\ AllAnswered'
  <2>1. request[t].pc = "grow" /\ array' = array /\ epg' \in Addresses BY <1>11 DEF Grow, At
  <2>2. Carries(t, request[t].pc, "fill") BY <1>11, <1>a, GotoCarries DEF Grow
  <2>3. OwnIn(array, request[t].slot) = {} BY <1>c, <2>1 DEF Between
  <2>4. \A u \in Threads : request'[u].pc \in Between
                            => u = t /\ request'[u].slot = request[t].slot
    BY <1>3, <2>1, <2>2 DEF Holding
  <2>5. Emptied' BY <2>1, <2>3, <2>4 DEF Emptied, Between
  <2>6. NoBlock' BY <2>1, NullIsNoAddress DEF NoBlock
  <2>7. AllAnswered' BY <1>b, <2>1 DEF AllAnswered
  <2> QED BY <2>5, <2>6, <2>7
<1>12. ASSUME NEW t \in Threads, GrowFails(t) PROVE Emptied' /\ NoBlock' /\ AllAnswered'
  <2>1. request[t].pc = "grow" /\ array' = [i \in 1..epg_count |-> Junk]
    BY <1>12 DEF GrowFails, At
  <2>2. Carries(t, request[t].pc, "none") BY <1>12, <1>a, EndCarries DEF GrowFails, End
  <2>3. \A s : OwnIn(array', s) = {} BY <2>1 DEF OwnIn
  <2>4. \A u \in Threads : request'[u].pc \in Between => u = t
    BY <1>3, <2>1, <2>2 DEF Holding
  <2>5. request'[t].pc = "none" BY <2>2 DEF Carries, Moves
  <2>6. Emptied' BY <2>3 DEF Emptied
  <2>7. NoBlock' BY <2>3, <2>4, <2>5 DEF NoBlock, Between
  <2>8. \A s : GuideIn(array', s) = <<>> BY <2>3, NoPrograms
  <2>9. AllAnswered' BY <2>8 DEF AllAnswered, Answered
  <2> QED BY <2>6, <2>7, <2>9
<1>13. ASSUME NEW t \in Threads, Fill(t) PROVE Emptied' /\ NoBlock' /\ AllAnswered'
  <2>1. request[t].pc = "fill" /\ epg' = epg BY <1>13 DEF Fill, At
  <2>2. Carries(t, request[t].pc, "none") BY <1>13, <1>a, EndCarries DEF Fill, End
  <2>3. \A u \in Threads : request'[u].pc \in Between => u = t
    BY <1>3, <2>1, <2>2 DEF Holding
  <2>4. request'[t].pc = "none" BY <2>2 DEF Carries, Moves
  <2>5. \A u \in Threads : request'[u].pc \notin Between BY <2>3, <2>4 DEF Between
  <2>6. Emptied' BY <2>5 DEF Emptied, Between
  <2>7. NoBlock' BY <1>b, <2>1, <2>5 DEF NoBlock, Between
  <2>8. \A r \in Slots : Answered(GuideIn(array', r), r)
    BY <1>13, <1>b, Filled DEF AllAnswered
  <2> QED BY <2>6, <2>7, <2>8 DEF AllAnswered
<1> QED BY <1>4, <1>5, <1>6, <1>7, <1>8, <1>9, <1>10, <1>11, <1>12, <1>13 DEF Next, Store

\* The invariant of the guides, along the invariant of the store.
THEOREM GuideInvariant == Spec => [](SInv /\ GInv)
<1>1. Init => GInv
  <2> SUFFICES ASSUME Init PROVE GInv
    OBVIOUS
  <2>1. Idle.pc = "none" BY DEF Idle
  <2>2. \A t \in Threads : request[t].pc = "none" BY <2>1 DEF Init
  <2>3. array = <<>> BY DEF Init
  <2>4. \A s : OwnIn(array, s) = {} BY <2>3 DEF OwnIn
  <2>5. \A s : GuideIn(array, s) = <<>> BY <2>4, NoPrograms
  <2>6. Asked BY <2>2 DEF Init, Asked
  <2>7. Serial BY <2>2 DEF Serial, Holding
  <2>8. Emptied BY <2>2 DEF Emptied
  <2>9. NoBlock BY <2>2, <2>4 DEF NoBlock
  <2>10. AllAnswered BY <2>5 DEF AllAnswered, Answered
  <2> QED BY <2>6, <2>7, <2>8, <2>9, <2>10 DEF GInv
<1>2. SInv /\ GInv /\ [Next]_vars => GInv'
  <2> SUFFICES ASSUME SInv, GInv, [Next]_vars PROVE GInv'
    OBVIOUS
  <2>1. Asked' /\ Serial' BY AskedStep, SerialStep DEF GInv, SInv
  <2>2. Emptied' /\ NoBlock' /\ AllAnswered' BY GuidesStep
  <2> QED BY <2>1, <2>2 DEF GInv
<1> QED BY <1>1, <1>2, StoreInvariant, PTL DEF Spec

\* What a lookup finds of a slot is one answer of the script, in order, whole,
\* whoever stores at the same time and whatever fails (epg_request_callback).
THEOREM GuidesOfOneAnswer == Spec => []OneAnswer
<1>1. GInv => OneAnswer
  <2> SUFFICES ASSUME GInv, NEW s \in Slots PROVE Answered(Guide(s), s)
    BY DEF OneAnswer, Answered
  <2>1. Guide(s) = GuideIn(array, s) BY DEF Guide, GuideIn, Own, OwnIn, Picked
  <2> QED BY <2>1 DEF GInv, AllAnswered
<1> QED BY <1>1, GuideInvariant, PTL

\* No step changes a slot's guide but those of the thread that has python_mutex
\* and an answer for that slot, or a realloc that fails.
THEOREM GuidesChangedByTheirOwn == Spec => OnlyItsOwn
<1> DEFINE ByItsOwn(s) ==
             Guide(s)' = Guide(s) \/ epg' = Null
               \/ \E t \in Threads : request[t] # Idle /\ python = t /\ request[t].slot = s
<1>1. SInv /\ GInv /\ [Next]_vars => \A s \in Slots : ByItsOwn(s)
  <2> SUFFICES ASSUME SInv, GInv, [Next]_vars, NEW s \in Slots PROVE ByItsOwn(s)
    OBVIOUS
  <2>1. Guide(s) = GuideIn(array, s) BY DEF Guide, GuideIn, Own, OwnIn, Picked
  <2>2. Guide(s)' = GuideIn(array', s) BY DEF Guide, GuideIn, Own, OwnIn, Picked
  <2>3. CASE array' = array BY <2>1, <2>2, <2>3
  <2>4. ASSUME NEW t \in Threads, CopyRest(t) \/ Fill(t) PROVE ByItsOwn(s)
    <3>1. CASE s = request[t].slot
      <4>1. request[t].pc \in Holding BY <2>4 DEF CopyRest, Fill, At, Holding
      <4>2. python = t BY <4>1 DEF GInv, Serial
      <4>3. request[t] # Idle
        <5>1. Idle.pc = "none" BY DEF Idle
        <5> QED BY <4>1, <5>1 DEF Holding
      <4> QED BY <3>1, <4>2, <4>3
    <3>2. CASE s # request[t].slot
      <4>1. GuideIn(array', s) = GuideIn(array, s) BY <2>4, <3>2, OwnOnly DEF GInv
      <4> QED BY <2>1, <2>2, <4>1
    <3> QED BY <3>1, <3>2
  <2>5. ASSUME NEW t \in Threads, GrowFails(t) PROVE ByItsOwn(s) BY <2>5 DEF GrowFails
  <2>6. CASE (\E r \in Slots : Tune(r)) \/ Refresh \/ UNCHANGED vars
    BY <2>3, <2>6 DEF Tune, Refresh, vars, store
  <2>7. CASE Look BY <2>3, <2>7, LookChangesNothing
  <2>8. ASSUME NEW t \in Threads,
               \/ TakePython(t) \/ Script(t) \/ LockForDelete(t) \/ LockForInsert(t)
               \/ NothingToDelete(t) \/ CopyFails(t) \/ Shorten(t) \/ Grow(t)
        PROVE  array' = array
    BY <2>8 DEF TakePython, Script, Answer, ScriptFails, LockForDelete, LockForInsert,
                NothingToDelete, CopyFails, Shorten, Grow, store
  <2> QED BY <2>3, <2>4, <2>5, <2>6, <2>7, <2>8 DEF Next, Store
<1>2. SInv /\ GInv /\ [Next]_vars =>
        [\A s \in Slots :
           Guide(s)' = Guide(s) \/ epg' = Null
             \/ \E t \in Threads : request[t] # Idle /\ python = t /\ request[t].slot = s]_vars
  BY <1>1
<1> QED BY <1>2, GuideInvariant, PTL DEF Spec, OnlyItsOwn

-----------------------------------------------------------------------------
(* The parser                                                                  *)

Entries == [programme : Nat, title : Nat]

ParserTypes ==
  /\ nodes \in Documents /\ nodes \in Seq(Nodes)
  /\ expects \in {"tv", "programme", "title", "text", "done", "failed"}
  /\ at \in Nat \ {0} /\ at <= Len(nodes) + 1
  /\ current \in Nat /\ current <= Len(nodes)
  /\ data \in Seq(Entries)

\* The reader is behind what was read, and the programme at hand behind the last
\* text that was taken.
Forward ==
  /\ \A k \in 1..Len(data) : data[k].programme < data[k].title /\ data[k].title < at
  /\ \A k, l \in 1..Len(data) : k < l => data[k].title < data[l].programme
  /\ expects \in {"title", "text"} =>
       current > 0 /\ current < at /\ \A k \in 1..Len(data) : data[k].title < current

\* Up to where the parser has taken the programmes.
TakenBefore(i) ==
  /\ \A k \in 1..Len(data) : data[k].programme \in Programmes /\ data[k].programme < i
  /\ \A p \in Programmes : p < i => \E k \in 1..Len(data) : data[k].programme = p

\* What it knows of a document that is well formed, by what it searches for.
InTitle ==
  /\ current \in Programmes /\ TakenBefore(current)
  /\ \A i \in current + 1..at - 1 : i \notin Programmes
Walk ==
  /\ expects # "failed"
  /\ expects = "tv" => data = <<>> /\ \A i \in 1..at - 1 : nodes[i].kind # "open"
  /\ expects = "programme" => at > 1 /\ at <= Len(nodes) /\ TakenBefore(at)
  /\ expects = "title" => InTitle /\ \A i \in current + 1..at - 1 : ~Opens(i, "title")
  /\ expects = "text" =>
       InTitle /\ at <= Len(nodes) /\ IsTitleOf(at, current)
  /\ expects = "done" => TakenBefore(Len(nodes) + 1)
  /\ \A k \in 1..Len(data) : IsTitleOf(data[k].title, data[k].programme)

PInv ==
  /\ ParserTypes /\ Forward
  /\ expects = "failed" => data = <<>>
  /\ WellFormed => Walk

\* The invariant holds before anything is read.
LEMMA ParserStart == ParserInit => PInv
<1> SUFFICES ASSUME ParserInit PROVE PInv
  OBVIOUS
<1>1. ParserTypes
  BY DocumentsAreNodes DEF ParserInit, ParserTypes
<1>2. Forward /\ Walk /\ (expects = "failed" => data = <<>>)
  BY DEF ParserInit, Forward, Walk
<1> QED BY <1>1, <1>2 DEF PInv

\* The title a programme of a well formed document has.
LEMMA HasTitle ==
  ASSUME ParserTypes, WellFormed, NEW p \in Programmes
  PROVE  /\ nodes[p].timed
         /\ \E t \in Nat :
              /\ t > p + 1 /\ t < Len(nodes)
              /\ nodes[t].kind = "text" /\ Opens(t - 1, "title")
              /\ \A i \in p + 1..t - 2 : ~Opens(i, "title")
              /\ \A i \in p + 1..t : i \notin Programmes
<1>1. PICK t \in DOMAIN nodes : IsTitleOf(t, p) /\ \A i \in p + 1..t : i \notin Programmes
  BY DEF WellFormed
<1>2. t \in 1..Len(nodes) /\ Len(nodes) \in Nat
  BY DEF ParserTypes
<1>3. t # Len(nodes)
  <2>1. nodes[t].kind = "text"
    BY <1>1 DEF IsTitleOf
  <2>2. t = Len(nodes) => Closes(t, "tv")
    BY DEF WellFormed
  <2> QED BY <2>1, <2>2 DEF Closes
<1>4. nodes[p].timed
  BY DEF WellFormed
<1>5. t \in Nat /\ t > p + 1 /\ t < Len(nodes)
  BY <1>1, <1>2, <1>3 DEF IsTitleOf
<1> QED BY <1>1, <1>4, <1>5 DEF IsTitleOf

\* A program is read: it is the last one.
LEMMA OneMore ==
  ASSUME ParserTypes, data' = Append(data, [programme |-> current, title |-> at])
  PROVE  /\ data' \in Seq(Entries) /\ Len(data) \in Nat /\ Len(data') = Len(data) + 1
         /\ \A k \in 1..Len(data) : data'[k] = data[k]
         /\ data'[Len(data) + 1].programme = current /\ data'[Len(data) + 1].title = at
<1>1. [programme |-> current, title |-> at] \in Entries
  BY DEF ParserTypes, Entries
<1> QED BY <1>1 DEF ParserTypes

\* The document stays as it is.
LEMMA SameDocument ==
  ASSUME UNCHANGED nodes
  PROVE  /\ Programmes' = Programmes /\ WellFormed' = WellFormed
         /\ \A i, name : Opens(i, name)' = Opens(i, name)
         /\ \A t, q : IsTitleOf(t, q)' = IsTitleOf(t, q)
BY DEF Programmes, WellFormed, Opens, Closes, IsTitleOf

\* The two steps that may go wrong.
LEMMA Rooted ==
  ASSUME FindRoot
  PROVE  /\ expects = "tv" /\ at <= Len(nodes) /\ UNCHANGED <<nodes, current>>
         /\ \/ Opens(at, "tv") /\ at' = at + 1 /\ expects' = "programme" /\ data' = data
            \/ ~Opens(at, "tv") /\ at' = at /\ expects' = "failed" /\ data' = <<>>
BY DEF FindRoot, Searching, Read, Fail, Opens

LEMMA Begun ==
  ASSUME FindProgramme
  PROVE  /\ expects = "programme" /\ at <= Len(nodes) /\ UNCHANGED nodes /\ Opens(at, "programme")
         /\ \/ /\ nodes[at].timed
               /\ current' = at /\ at' = at + 1 /\ expects' = "title" /\ data' = data
            \/ /\ ~nodes[at].timed
               /\ UNCHANGED <<current, at>> /\ expects' = "failed" /\ data' = <<>>
<1>1. \/ nodes[at].timed /\ current' = at /\ Read("title") /\ UNCHANGED data
      \/ ~nodes[at].timed /\ Fail /\ UNCHANGED <<at, current>>
  BY DEF FindProgramme
<1>2. Searching("programme") /\ Opens(at, "programme") /\ UNCHANGED nodes
  BY DEF FindProgramme
<1>3. CASE nodes[at].timed /\ current' = at /\ Read("title") /\ UNCHANGED data
  BY <1>2, <1>3 DEF Read, Searching
<1>4. CASE ~nodes[at].timed /\ Fail /\ UNCHANGED <<at, current>>
  BY <1>2, <1>4 DEF Fail, Searching
<1> QED BY <1>1, <1>3, <1>4

\* No step leaves the document or takes a node that is not in it.
LEMMA ParserTypesStep == ParserTypes /\ [ParserNext]_parserVars => ParserTypes'
<1> SUFFICES ASSUME ParserTypes, [ParserNext]_parserVars PROVE ParserTypes'
  OBVIOUS
<1> USE DEF ParserTypes
<1>0. <<>> \in Seq(Entries) /\ Len(nodes) \in Nat
  OBVIOUS
<1>1. CASE ReadFails
  BY <1>0, <1>1 DEF ReadFails, Fail
<1>2. CASE FindRoot
  <2>1. /\ UNCHANGED <<nodes, current>> /\ at <= Len(nodes)
        /\ at' = at \/ at' = at + 1
        /\ expects' \in {"programme", "title", "failed"}
        /\ data' \in Seq(Entries)
    BY <1>0, <1>2, Rooted
  <2> QED BY <1>0, <2>1
<1>3. CASE EndOfProgrammes
  BY <1>3 DEF EndOfProgrammes, Succeed
<1>4. CASE FindProgramme
  <2>1. /\ UNCHANGED nodes /\ at <= Len(nodes) /\ (current' = current \/ current' = at)
        /\ at' = at \/ at' = at + 1
        /\ expects' \in {"programme", "title", "failed"}
        /\ data' \in Seq(Entries)
    BY <1>0, <1>4, Begun
  <2> QED BY <1>0, <2>1
<1>5. CASE FindTitle
  BY <1>0, <1>5 DEF FindTitle, Searching, Read
<1>6. CASE FindText
  BY <1>0, <1>6, OneMore DEF FindText, Searching, Read
<1>7. CASE Skip
  BY <1>0, <1>7 DEF Skip, Searching, Read
<1>8. CASE UNCHANGED parserVars
  BY <1>8 DEF parserVars
<1> QED BY <1>1, <1>2, <1>3, <1>4, <1>5, <1>6, <1>7, <1>8 DEF ParserNext

\* What is taken lies behind what was taken before.
LEMMA ForwardStep == ParserTypes /\ Forward /\ [ParserNext]_parserVars => Forward'
<1> SUFFICES ASSUME ParserTypes, Forward, [ParserNext]_parserVars PROVE Forward'
  OBVIOUS
<1>0. /\ at \in Nat \ {0} /\ current \in Nat /\ Len(data) \in Nat /\ Len(<<>>) = 0
      /\ \A k \in 1..Len(data) : data[k].title \in Nat /\ data[k].programme \in Nat
  <2>1. \A k \in 1..Len(data) : data[k] \in Entries
    BY DEF ParserTypes
  <2> QED BY <2>1 DEF ParserTypes, Entries
<1>1. CASE ReadFails
  BY <1>0, <1>1 DEF ReadFails, Fail, Forward
<1>2. CASE FindRoot
  <2>1. /\ at' \in {at, at + 1} /\ data' \in {data, <<>>} /\ expects' \in {"programme", "failed"}
    BY <1>2, Rooted
  <2> QED BY <1>0, <2>1 DEF Forward
<1>3. CASE EndOfProgrammes
  BY <1>3 DEF EndOfProgrammes, Succeed, Forward
<1>4. CASE FindProgramme
  BY <1>0, <1>4, Begun DEF Forward
<1>5. CASE FindTitle
  BY <1>0, <1>5 DEF FindTitle, Searching, Read, Forward
<1>6. CASE FindText
  <2>1. /\ expects = "text" /\ expects' = "programme" /\ at' = at + 1
        /\ data' = Append(data, [programme |-> current, title |-> at])
    BY <1>6 DEF FindText, Searching, Read
  <2>2. /\ Len(data') = Len(data) + 1
        /\ \A k \in 1..Len(data) : data'[k] = data[k]
        /\ data'[Len(data) + 1].programme = current /\ data'[Len(data) + 1].title = at
    BY <2>1, OneMore
  <2>3. ASSUME NEW k \in 1..Len(data') PROVE data'[k].programme < data'[k].title /\ data'[k].title < at'
    <3>1. CASE k \in 1..Len(data)
      BY <1>0, <2>1, <2>2, <3>1 DEF Forward
    <3>2. CASE k = Len(data) + 1
      BY <1>0, <2>1, <2>2, <3>2 DEF Forward
    <3> QED BY <1>0, <2>2, <3>1, <3>2
  <2>4. ASSUME NEW k \in 1..Len(data'), NEW l \in 1..Len(data'), k < l
        PROVE  data'[k].title < data'[l].programme
    <3>1. k \in 1..Len(data)
      BY <1>0, <2>2, <2>4
    <3>2. CASE l \in 1..Len(data)
      BY <2>2, <2>4, <3>1, <3>2 DEF Forward
    <3>3. CASE l = Len(data) + 1
      BY <2>1, <2>2, <3>1, <3>3 DEF Forward
    <3> QED BY <1>0, <2>2, <3>2, <3>3
  <2> QED BY <2>1, <2>3, <2>4 DEF Forward
<1>7. CASE Skip
  BY <1>0, <1>7 DEF Skip, Searching, Read, Forward
<1>8. CASE UNCHANGED parserVars
  BY <1>8 DEF parserVars, Forward
<1> QED BY <1>1, <1>2, <1>3, <1>4, <1>5, <1>6, <1>7, <1>8 DEF ParserNext

\* Between at and the text of the title the parser looks for there is only that.
LEMMA TitleAhead ==
  ASSUME ParserTypes, Forward, WellFormed, Walk, expects = "title"
  PROVE  /\ at < Len(nodes) /\ at \notin Programmes
         /\ Opens(at, "title") => IsTitleOf(at + 1, current) /\ at + 1 \notin Programmes
                                  /\ at + 1 < Len(nodes)
<1>1. /\ current \in Programmes /\ current < at /\ at \in Nat /\ current \in Nat /\ Len(nodes) \in Nat
      /\ \A i \in current + 1..at - 1 : ~Opens(i, "title")
  BY DEF Walk, InTitle, Forward, ParserTypes
<1>2. PICK t \in Nat :
        /\ t > current + 1 /\ t < Len(nodes)
        /\ nodes[t].kind = "text" /\ Opens(t - 1, "title")
        /\ \A i \in current + 1..t - 2 : ~Opens(i, "title")
        /\ \A i \in current + 1..t : i \notin Programmes
  BY <1>1, HasTitle
<1>3. t - 1 >= at
  <2>1. t - 1 \in current + 1..t - 1
    BY <1>1, <1>2
  <2>2. t - 1 \notin current + 1..at - 1
    BY <1>1, <1>2
  <2> QED BY <1>1, <1>2, <2>1, <2>2
<1>4. at \in current + 1..t
  BY <1>1, <1>2, <1>3
<1>5. ASSUME Opens(at, "title") PROVE t = at + 1
  <2>1. at \notin current + 1..t - 2
    BY <1>2, <1>5
  <2> QED BY <1>1, <1>2, <1>3, <2>1
<1>6. IsTitleOf(t, current)
  <2>1. t \in DOMAIN nodes
    BY <1>1, <1>2 DEF ParserTypes
  <2> QED BY <1>2, <2>1 DEF IsTitleOf
<1>7. t \in current + 1..t
  BY <1>1, <1>2
<1> QED BY <1>1, <1>2, <1>3, <1>4, <1>5, <1>6, <1>7

\* In a well formed document every step is one of the walk from a programme to
\* its title and on to the next programme.
LEMMA WalkStep ==
  ParserTypes /\ Forward /\ WellFormed /\ Walk /\ [ParserNext]_parserVars => Walk'
<1> SUFFICES ASSUME ParserTypes, Forward, WellFormed, Walk, [ParserNext]_parserVars PROVE Walk'
  OBVIOUS
<1>0. /\ at \in Nat \ {0} /\ current \in Nat /\ Len(data) \in Nat /\ Len(nodes) \in Nat
      /\ DOMAIN nodes = 1..Len(nodes)
  BY DEF ParserTypes
<1>d. UNCHANGED nodes
  BY DEF ParserNext, ReadFails, FindRoot, EndOfProgrammes, FindProgramme, FindTitle, FindText, Skip,
         parserVars
<1>e. /\ Programmes' = Programmes /\ Len(nodes') = Len(nodes)
      /\ \A i, name : Opens(i, name)' = Opens(i, name)
      /\ \A t, q : IsTitleOf(t, q)' = IsTitleOf(t, q)
  BY <1>d, SameDocument
<1>l. /\ Closes(Len(nodes), "tv") /\ Len(nodes) \in 1..Len(nodes)
      /\ \A i \in 1..Len(nodes) : Closes(i, "tv") => i = Len(nodes)
  <2>1. \A i \in 1..Len(nodes) : Closes(i, "tv") <=> i = Len(nodes)
    <3> SUFFICES ASSUME NEW i \in 1..Len(nodes) PROVE Closes(i, "tv") <=> i = Len(nodes)
      OBVIOUS
    <3>1. i \in DOMAIN nodes
      BY <1>0
    <3> QED BY <3>1 DEF WellFormed
  <2>2. Len(nodes) \in 1..Len(nodes)
    <3>1. PICK i \in DOMAIN nodes : Opens(i, "tv")
      BY DEF WellFormed
    <3> QED BY <1>0, <3>1
  <2> QED BY <2>1, <2>2
<1>m. Len(nodes) \notin Programmes
  BY <1>l DEF Programmes, Opens, Closes
<1>r. ASSUME expects = "tv"
      PROVE  /\ data = <<>> /\ at < Len(nodes)
             /\ nodes[at].kind = "open" => Opens(at, "tv")
             /\ \A i \in 1..at - 1 : nodes[i].kind # "open"
  <2>1. PICK t \in DOMAIN nodes : Opens(t, "tv") /\ \A i \in 1..t - 1 : nodes[i].kind # "open"
    BY DEF WellFormed
  <2>2. t \in 1..Len(nodes) /\ nodes[t].kind = "open"
    BY <1>0, <2>1 DEF Opens
  <2>3. \A i \in 1..at - 1 : nodes[i].kind # "open"
    BY <1>r DEF Walk
  <2>4. t >= at
    BY <1>0, <2>2, <2>3
  <2>5. t # Len(nodes)
    <3> SUFFICES ASSUME t = Len(nodes) PROVE FALSE
      OBVIOUS
    <3>1. nodes[t].kind = "close"
      BY <1>l DEF Closes
    <3> QED BY <2>2, <3>1
  <2>6. at < Len(nodes)
    BY <1>0, <2>2, <2>4, <2>5
  <2>7. ASSUME nodes[at].kind = "open" PROVE at = t
    <3>1. at \notin 1..t - 1
      BY <2>1, <2>7
    <3> QED BY <1>0, <2>2, <2>4, <3>1
  <2>8. data = <<>>
    BY <1>r DEF Walk
  <2> QED BY <2>1, <2>3, <2>6, <2>7, <2>8
<1>t. ASSUME data' = data
      PROVE  (\A k \in 1..Len(data) : IsTitleOf(data[k].title, data[k].programme))'
  BY <1>d, <1>t DEF Walk, IsTitleOf, Opens
<1>1. CASE ReadFails
  <2>1. expects \in {"tv", "programme", "title", "text"} /\ at > Len(nodes)
    BY <1>1 DEF ReadFails, ParserTypes
  <2>2. expects # "title"
    BY <1>0, <2>1, TitleAhead
  <2>3. expects # "tv"
    BY <1>0, <1>r, <2>1
  <2>4. expects \in {"programme", "text"} => at <= Len(nodes)
    BY DEF Walk
  <2> QED BY <1>0, <2>1, <2>2, <2>3, <2>4
<1>2. CASE FindRoot
  <2>1. expects = "tv" /\ nodes[at].kind = "open"
    BY <1>2 DEF FindRoot, Searching
  <2>2. /\ data = <<>> /\ at < Len(nodes) /\ Opens(at, "tv")
        /\ \A i \in 1..at - 1 : nodes[i].kind # "open"
    BY <1>r, <2>1
  <2>3. at' = at + 1 /\ expects' = "programme" /\ data' = <<>>
    BY <1>2, <2>2, Rooted
  <2>4. \A q \in Programmes : q \in 1..Len(nodes) /\ nodes[q].kind = "open" /\ q # at
    BY <1>0, <2>2 DEF Programmes, Opens
  <2>5. \A q \in Programmes : ~(q < at')
    BY <1>0, <2>2, <2>3, <2>4
  <2>6. TakenBefore(at)'
    BY <1>e, <2>3, <2>5 DEF TakenBefore
  <2>7. (at > 1 /\ at <= Len(nodes))'
    BY <1>0, <1>e, <2>2, <2>3
  <2> QED BY <1>t, <2>2, <2>3, <2>6, <2>7 DEF Walk
<1>3. CASE EndOfProgrammes
  <2>1. /\ expects = "programme" /\ expects' = "done" /\ at = Len(nodes) /\ UNCHANGED <<at, current, data>>
    <3>1. at \in 1..Len(nodes) /\ Closes(at, "tv")
      BY <1>0, <1>3 DEF EndOfProgrammes, Searching
    <3>2. at = Len(nodes)
      BY <1>l, <3>1
    <3> QED BY <1>3, <3>2 DEF EndOfProgrammes, Searching, Succeed
  <2>2. TakenBefore(Len(nodes))
    BY <2>1 DEF Walk
  <2>3. \A q \in Programmes : q \in Nat /\ q < Len(nodes)
    BY <1>0, <1>m DEF Programmes
  <2>4. TakenBefore(Len(nodes) + 1)'
    <3>1. \A k \in 1..Len(data) : data[k].programme \in Programmes
      BY <2>2 DEF TakenBefore
    <3>2. \A k \in 1..Len(data) : data[k].programme < Len(nodes) + 1
      BY <1>0, <2>3, <3>1
    <3>3. \A q \in Programmes : \E k \in 1..Len(data) : data[k].programme = q
      BY <2>2, <2>3 DEF TakenBefore
    <3> QED BY <1>e, <2>1, <3>1, <3>2, <3>3 DEF TakenBefore
  <2> QED BY <1>t, <2>1, <2>4 DEF Walk
<1>4. CASE FindProgramme
  <2>1. at \in Programmes /\ expects = "programme" /\ at <= Len(nodes)
    BY <1>0, <1>4, Begun DEF Programmes
  <2>2. nodes[at].timed
    BY <2>1, HasTitle
  <2>3. current' = at /\ at' = at + 1 /\ expects' = "title" /\ data' = data
    BY <1>4, <2>2, Begun
  <2>4. TakenBefore(at)
    BY <2>1 DEF Walk
  <2>5. TakenBefore(current)'
    BY <1>e, <2>3, <2>4 DEF TakenBefore
  <2>6. current' + 1..at' - 1 = {}
    BY <1>0, <2>3
  <2>7. InTitle' /\ (\A i \in current + 1..at - 1 : ~Opens(i, "title"))'
    BY <1>e, <2>1, <2>3, <2>5, <2>6 DEF InTitle
  <2> QED BY <1>t, <2>3, <2>7 DEF Walk
<1>5. CASE FindTitle
  <2>1. expects = "title" /\ Opens(at, "title")
    BY <1>5 DEF FindTitle, Searching
  <2>2. at' = at + 1 /\ expects' = "text" /\ UNCHANGED <<current, data>>
    BY <1>5 DEF FindTitle, Read
  <2>3. at \notin Programmes /\ at + 1 < Len(nodes) /\ IsTitleOf(at + 1, current)
    BY <2>1, TitleAhead
  <2>4. InTitle
    BY <2>1 DEF Walk
  <2>5. TakenBefore(current)'
    BY <1>e, <2>2, <2>4 DEF InTitle, TakenBefore
  <2>6. \A i \in current + 1..at' - 1 : i \notin Programmes
    BY <1>0, <2>2, <2>3, <2>4 DEF InTitle
  <2>7. InTitle'
    BY <1>e, <2>2, <2>4, <2>5, <2>6 DEF InTitle
  <2>8. IsTitleOf(at, current)'
    BY <1>d, <2>2, <2>3 DEF IsTitleOf, Opens
  <2>9. (at <= Len(nodes))'
    BY <1>0, <1>e, <2>2, <2>3
  <2> QED BY <1>t, <2>2, <2>7, <2>8, <2>9 DEF Walk
<1>6. CASE FindText
  <2>1. /\ expects = "text" /\ expects' = "programme" /\ at' = at + 1 /\ nodes[at].kind = "text"
        /\ data' = Append(data, [programme |-> current, title |-> at])
    BY <1>6 DEF FindText, Searching, Read
  <2>2. InTitle /\ at <= Len(nodes) /\ IsTitleOf(at, current)
    BY <2>1 DEF Walk
  <2>3. /\ Len(data') = Len(data) + 1
        /\ \A k \in 1..Len(data) : data'[k] = data[k]
        /\ data'[Len(data) + 1].programme = current /\ data'[Len(data) + 1].title = at
    BY <2>1, OneMore
  <2>4. current \in Programmes /\ current < at /\ TakenBefore(current)
    BY <2>1, <2>2 DEF InTitle, Forward
  <2>5. at < Len(nodes)
    <3>1. at # Len(nodes)
      <4> SUFFICES ASSUME at = Len(nodes) PROVE FALSE
        OBVIOUS
      <4>1. nodes[at].kind = "close"
        BY <1>l DEF Closes
      <4> QED BY <2>1, <4>1
    <3>2. at <= Len(nodes) /\ at \in Nat /\ Len(nodes) \in Nat
      BY <1>0, <2>2
    <3> QED BY <3>1, <3>2
  <2>6. at \notin Programmes
    BY <2>1 DEF Programmes, Opens
  <2>7. ASSUME NEW k \in 1..Len(data')
        PROVE  /\ data'[k].programme \in Programmes /\ data'[k].programme < at'
               /\ IsTitleOf(data'[k].title, data'[k].programme)
    <3>1. CASE k \in 1..Len(data)
      <4>1. data[k].programme \in Programmes /\ data[k].programme < current
        BY <2>4, <3>1 DEF TakenBefore
      <4>2. data[k].programme \in Nat
        BY <1>0, <4>1 DEF Programmes
      <4>3. IsTitleOf(data[k].title, data[k].programme)
        BY <3>1 DEF Walk
      <4> QED BY <1>0, <2>1, <2>3, <2>4, <3>1, <4>1, <4>2, <4>3
    <3>2. CASE k = Len(data) + 1
      BY <1>0, <2>1, <2>2, <2>3, <2>4, <3>2
    <3> QED BY <1>0, <2>3, <3>1, <3>2
  <2>8. ASSUME NEW q \in Programmes, q < at'
        PROVE  \E k \in 1..Len(data') : data'[k].programme = q
    <3>1. q \in Nat
      BY <1>0 DEF Programmes
    <3>2. CASE q < current
      <4>1. PICK k \in 1..Len(data) : data[k].programme = q
        BY <2>4, <3>2 DEF TakenBefore
      <4>2. k \in 1..Len(data')
        BY <1>0, <2>3
      <4> QED BY <2>3, <4>1, <4>2
    <3>3. CASE q = current
      <4>1. Len(data) + 1 \in 1..Len(data')
        BY <1>0, <2>3
      <4> QED BY <2>3, <3>3, <4>1
    <3>4. CASE q > current
      <4>1. q \in current + 1..at
        BY <1>0, <2>1, <2>8, <3>1, <3>4
      <4>2. q # at
        BY <2>6
      <4> QED BY <1>0, <2>2, <4>1, <4>2 DEF InTitle
    <3> QED BY <1>0, <3>1, <3>2, <3>3, <3>4
  <2>9. TakenBefore(at)'
    BY <1>e, <2>7, <2>8 DEF TakenBefore
  <2>10. (\A k \in 1..Len(data) : IsTitleOf(data[k].title, data[k].programme))'
    BY <1>d, <2>7 DEF IsTitleOf, Opens
  <2>11. (at > 1 /\ at <= Len(nodes))'
    BY <1>0, <1>e, <2>1, <2>5
  <2> QED BY <2>1, <2>9, <2>10, <2>11 DEF Walk
<1>7. CASE Skip
  <2>1. at' = at + 1 /\ UNCHANGED <<expects, current, data>>
    BY <1>7 DEF Skip, Read
  <2>2. CASE expects = "tv"
    <3>1. nodes[at].kind # "open"
      BY <1>7, <2>2 DEF Skip, Searching
    <3>2. data = <<>> /\ \A i \in 1..at - 1 : nodes[i].kind # "open"
      BY <1>r, <2>2
    <3>3. \A i \in 1..at' - 1 : nodes'[i].kind # "open"
      BY <1>0, <1>d, <2>1, <3>1, <3>2
    <3> QED BY <1>t, <2>1, <2>2, <3>2, <3>3 DEF Walk
  <2>3. CASE expects = "programme"
    <3>1. at > 1 /\ at <= Len(nodes) /\ TakenBefore(at)
      BY <2>3 DEF Walk
    <3>2. ~Opens(at, "programme") /\ ~Closes(at, "tv")
      BY <1>7, <2>3 DEF Skip, Searching
    <3>3. at < Len(nodes) /\ at \notin Programmes
      <4>1. at # Len(nodes)
        <5> SUFFICES ASSUME at = Len(nodes) PROVE FALSE
          OBVIOUS
        <5>1. Closes(at, "tv")
          BY <1>l DEF Closes
        <5> QED BY <3>2, <5>1
      <4>2. at \notin Programmes
        BY <3>2 DEF Programmes
      <4>3. at <= Len(nodes) /\ at \in Nat /\ Len(nodes) \in Nat
        BY <1>0, <3>1
      <4> QED BY <4>1, <4>2, <4>3
    <3>4. \A k \in 1..Len(data) : data[k].programme \in Programmes /\ data[k].programme < at
      BY <3>1 DEF TakenBefore
    <3>5. \A k \in 1..Len(data) : data[k].programme < at + 1
      BY <1>0, <3>4 DEF Programmes
    <3>6. \A q \in Programmes : q < at + 1 => q < at
      BY <1>0, <3>3 DEF Programmes
    <3>7. \A q \in Programmes : q < at + 1 => \E k \in 1..Len(data) : data[k].programme = q
      BY <3>1, <3>6 DEF TakenBefore
    <3>8. TakenBefore(at)'
      BY <1>e, <2>1, <3>4, <3>5, <3>7 DEF TakenBefore
    <3>9. (at > 1 /\ at <= Len(nodes))'
      BY <1>0, <1>e, <2>1, <3>1, <3>3
    <3> QED BY <1>t, <2>1, <2>3, <3>8, <3>9 DEF Walk
  <2>4. CASE expects = "title"
    <3>1. at \notin Programmes /\ ~Opens(at, "title")
      BY <1>7, <2>4, TitleAhead DEF Skip, Searching
    <3>2. InTitle /\ \A i \in current + 1..at - 1 : ~Opens(i, "title")
      BY <2>4 DEF Walk
    <3>3. \A i \in current + 1..at' - 1 : i \notin Programmes /\ ~Opens(i, "title")
      BY <1>0, <2>1, <3>1, <3>2 DEF InTitle
    <3>4. TakenBefore(current)'
      BY <1>e, <2>1, <3>2 DEF InTitle, TakenBefore
    <3>5. InTitle' /\ (\A i \in current + 1..at - 1 : ~Opens(i, "title"))'
      BY <1>e, <2>1, <3>2, <3>3, <3>4 DEF InTitle
    <3> QED BY <1>t, <2>1, <2>4, <3>5 DEF Walk
  <2>5. CASE expects = "text"
    <3>1. nodes[at].kind # "text" /\ IsTitleOf(at, current)
      BY <1>7, <2>5 DEF Skip, Searching, Walk
    <3> QED BY <3>1 DEF IsTitleOf
  <2> QED BY <1>7, <2>2, <2>3, <2>4, <2>5 DEF Skip, Searching
<1>8. CASE UNCHANGED parserVars
  BY <1>8, <1>d, <1>e DEF parserVars, Walk, InTitle, TakenBefore
<1> QED BY <1>1, <1>2, <1>3, <1>4, <1>5, <1>6, <1>7, <1>8 DEF ParserNext

\* The invariant holds in every state.
THEOREM ParserInvariant == ParserSpec => []PInv
<1>1. PInv /\ [ParserNext]_parserVars => PInv'
  <2> SUFFICES ASSUME PInv, [ParserNext]_parserVars PROVE PInv'
    OBVIOUS
  <2>1. ParserTypes' /\ Forward'
    BY ParserTypesStep, ForwardStep DEF PInv
  <2>2. (expects = "failed" => data = <<>>)'
    BY DEF PInv, ParserNext, ReadFails, FindRoot, EndOfProgrammes, FindProgramme, FindTitle, FindText,
           Skip, Searching, Read, Succeed, Fail, parserVars
  <2>3. (WellFormed => Walk)'
    <3>1. UNCHANGED nodes
      BY DEF ParserNext, ReadFails, FindRoot, EndOfProgrammes, FindProgramme, FindTitle, FindText,
             Skip, parserVars
    <3>2. WellFormed' = WellFormed
      BY <3>1, SameDocument
    <3> QED BY <3>2, WalkStep DEF PInv
  <2> QED BY <2>1, <2>2, <2>3 DEF PInv
<1> QED BY <1>1, ParserStart, PTL DEF ParserSpec

\* The parser stays inside the document, and what it returns is a list of
\* programmes and titles.
THEOREM ParserTypeCorrect == ParserSpec => []ParserTypeOK
<1>1. PInv => ParserTypeOK
  BY DEF PInv, ParserTypes, ParserTypeOK, Entries
<1> QED BY <1>1, ParserInvariant, PTL

\* Texts are taken forward: parse_epg_xml never gives a program the text of an
\* earlier one, nor a text to two programs, whatever document is read.
THEOREM TextsAlwaysForward == ParserSpec => []TextsForward
<1>1. PInv => TextsForward
  <2> SUFFICES ASSUME PInv, NEW k \in 1..Len(data)
               PROVE  /\ data[k].programme < data[k].title
                      /\ k < Len(data) => data[k].title < data[k + 1].programme
    BY DEF TextsForward
  <2>1. Len(data) \in Nat
    BY DEF PInv, ParserTypes
  <2>2. k < Len(data) => k + 1 \in 1..Len(data) /\ k < k + 1
    BY <2>1
  <2> QED BY <2>2 DEF PInv, Forward
<1> QED BY <1>1, ParserInvariant, PTL

\* What parse_epg_xml returns of a document that is well formed, of any length and
\* with any other elements, are its programmes in order, each with its own title,
\* and of a document it cannot read to the end nothing.
THEOREM AlwaysParsesExactly == ParserSpec => []ParsesExactly
<1>1. PInv => ParsesExactly
  <2> SUFFICES ASSUME PInv PROVE ParsesExactly
    OBVIOUS
  <2>0. DOMAIN data = 1..Len(data) /\ Len(data) \in Nat /\ Len(nodes) \in Nat
        /\ DOMAIN nodes = 1..Len(nodes)
    BY DEF PInv, ParserTypes
  <2>1. ASSUME WellFormed, expects = "done"
        PROVE  {data[k].programme : k \in DOMAIN data} = Programmes
    <3>1. TakenBefore(Len(nodes) + 1)
      BY <2>1 DEF PInv, Walk
    <3>2. \A q \in Programmes : q < Len(nodes) + 1
      BY <2>0 DEF Programmes
    <3>3. \A q \in Programmes : \E k \in DOMAIN data : data[k].programme = q
      BY <2>0, <3>1, <3>2 DEF TakenBefore
    <3>4. \A k \in DOMAIN data : data[k].programme \in Programmes
      BY <2>0, <3>1 DEF TakenBefore
    <3> QED BY <3>3, <3>4
  <2>2. ASSUME WellFormed, NEW k \in DOMAIN data PROVE IsTitleOf(data[k].title, data[k].programme)
    <3>1. k \in 1..Len(data)
      BY <2>0
    <3> QED BY <2>2, <3>1 DEF PInv, Walk
  <2>3. ASSUME NEW k \in DOMAIN data, NEW l \in DOMAIN data, k < l
        PROVE  data[k].programme < data[l].programme
    <3>1. k \in 1..Len(data) /\ l \in 1..Len(data)
      BY <2>0
    <3>2. data[k].programme < data[k].title /\ data[k].title < data[l].programme
      BY <2>3, <3>1 DEF PInv, Forward
    <3>3. data[k] \in Entries /\ data[l] \in Entries
      BY <3>1 DEF PInv, ParserTypes
    <3> QED BY <3>2, <3>3 DEF Entries
  <2>4. WellFormed => expects # "failed"
    BY DEF PInv, Walk
  <2> QED BY <2>1, <2>2, <2>3, <2>4 DEF ParsesExactly, PInv
<1> QED BY <1>1, ParserInvariant, PTL

==============================================================================
