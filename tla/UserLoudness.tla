---------------------------- MODULE UserLoudness ----------------------------
(* Loudness a user measured: the controller's handlers of USER_LOUDNESS and   *)
(* USER_LOUDNESS_REQUEST (controller/main.c) over the tables USER_LOUDNESS,   *)
(* USER_LOUDNESS_SECTION and PLAYBACK_LIST (controller/database.c).           *)
(*                                                                            *)
(* A message has files, each with a name of its own, the recording it is      *)
(* about, and sections.  It is acknowledged first and then saved by a series  *)
(* of statements with no transaction around them, any of which may fail, and  *)
(* the controller may be killed between any two: the files' sections one file *)
(* after another, then their rows, then a copy of each recording's entry in   *)
(* the playback list under the file's name.                                   *)
EXTENDS Integers, Sequences, FiniteSetsExt

CONSTANTS
  Names,       \* names of files with user loudness
  Recordings,  \* names of recordings ...
  Recorded,    \* ... and those in the playback list
  None,
  MaxFaults    \* bound: failed calls and crashes

ASSUME RecordedAreRecordings == Recorded \subseteq Recordings
ASSUME Distinct == Names \cap Recordings = {} /\ None \notin Names \cup Recordings
ASSUME Bounds == MaxFaults \in Nat
ASSUME NamesAreFinite == IsFiniteSet(Names \cup Recordings)

\* A section of a file, an entry of the playback list, and what is expected of
\* a name: None is a value of its own.
Sections == [start : STRING, end : STRING, loudness : Int, comment : STRING]
Entries == [of : Recordings, over : BOOLEAN, type : {0, 1}]
Expectations ==
  [record_name : Recordings, sections : Seq(Sections), copy : Entries \cup {None},
   first : BOOLEAN, whole : BOOLEAN]

ASSUME NoneIsNoRecord == None \notin Entries /\ None \notin Expectations

VARIABLES
  pc,            \* main: at its loop head, or the statement it comes to next
  files,         \* the message being saved
  file,          \* the file of it at hand
  section,       \* the section of that
  list_data,     \* per file of it, the entry to put into the playback list or None
  user_loudness, user_loudness_section, playback_list,   \* the tables
  faults,
  expected       \* history: by the last message, what the tables should say of a name

tables == <<user_loudness, user_loudness_section, playback_list>>
cursor == <<files, file, section, list_data>>
userVars == <<pc, cursor, tables, faults, expected>>

Fault == {"crash", "call"}
Faults == faults["crash"] + faults["call"]

\* An entry of the playback list: the recording it tells of, whether that is
\* over (END and LOUDNESS are known), and 1 for a copy under a user's name.
Entry(recording, over, type) == [of |-> recording, over |-> over, type |-> type]

UserInit ==
  /\ pc = "loop"
  /\ files = <<>> /\ file = 1 /\ section = 1 /\ list_data = <<>>
  /\ user_loudness = [n \in Names |-> None]
  /\ user_loudness_section = [n \in Names |-> <<>>]
  /\ playback_list = [n \in Names \cup Recordings |->
                        IF n \in Recorded THEN Entry(n, FALSE, 0) ELSE None]
  /\ faults = [f \in Fault |-> 0]
  /\ expected = [n \in Names |-> None]

\* A statement that fails, or a kill: what was being saved is not whole.
Fails(f) ==
  /\ Faults < MaxFaults
  /\ faults' = [faults EXCEPT ![f] = @ + 1]
  /\ expected' = [n \in Names |->
       IF \E i \in DOMAIN files : files[i].of["name"] = n
       THEN [expected[n] EXCEPT !.whole = FALSE] ELSE expected[n]]

-----------------------------------------------------------------------------
(* Saving a message                                                           *)

Name(i) == files[i].of["name"]
RecordName(i) == files[i].of["record_name"]

\* The entry of a recording, to be put under another name.
Copy(r) == [playback_list[r] EXCEPT !.type = 1]

\* What the tables say of n once `message` is saved without a fault.  A file
\* without sections leaves the ones there are; a recording that is not in the
\* playback list leaves the copy there is.
ExpectedOf(n, message) ==
  LET mine == {i \in DOMAIN message : message[i].of["name"] = n}
      measured == {i \in mine : message[i].sections # <<>>}
      listed == {i \in mine : playback_list[message[i].of["record_name"]] # None}
  IN [record_name |-> message[Max(mine)].of["record_name"],
      sections |-> IF measured = {} THEN user_loudness_section[n] ELSE message[Max(measured)].sections,
      copy |-> IF listed = {} THEN playback_list[n]
               ELSE Copy(message[Max(listed)].of["record_name"]),
      first |-> expected[n] = None,
      whole |-> TRUE]

\* Rows first: a name is listed before its sections are there.
SaveRowsFirst(message) ==
  /\ pc = "loop" /\ message # <<>>
  /\ pc' = "sections"
  /\ files' = message /\ file' = 1
  /\ expected' = [n \in Names |->
       IF \E i \in DOMAIN message : message[i].of["name"] = n
       THEN ExpectedOf(n, message) ELSE expected[n]]
  /\ user_loudness' = [n \in Names |->
       IF expected'[n] # None THEN expected'[n].record_name ELSE user_loudness[n]]
  /\ UNCHANGED <<section, list_data, user_loudness_section, playback_list, faults>>

Save(message) ==
  /\ pc = "loop"
  /\ IF message = <<>>
     THEN UNCHANGED <<pc, cursor, expected>>
     ELSE /\ pc' = "sections"
          /\ files' = message /\ file' = 1
          /\ UNCHANGED <<section, list_data>>
          /\ expected' = [n \in Names |->
               IF \E i \in DOMAIN message : message[i].of["name"] = n
               THEN ExpectedOf(n, message) ELSE expected[n]]
  /\ UNCHANGED <<tables, faults>>

\* On to the next file, or to `after` when this was the last.
NextFile(after) ==
  IF file < Len(files) THEN file' = file + 1 /\ pc' = pc
                       ELSE file' = 1 /\ pc' = after

ToNextFile == IF file < Len(files) THEN file' = file + 1 /\ pc' = "sections"
                                   ELSE file' = 1 /\ pc' = "rows"

Leave == pc' = "loop" /\ files' = <<>> /\ file' = 1 /\ section' = 1 /\ list_data' = <<>>

NoSections ==
  /\ pc = "sections"
  /\ files[file].sections = <<>>
  /\ ToNextFile
  /\ UNCHANGED <<files, section, list_data, tables, faults, expected>>

\* The delete is left out: the sections are added to those there are.
DeleteNothing ==
  /\ pc = "sections"
  /\ files[file].sections # <<>>
  /\ pc' = "insert" /\ section' = 1
  /\ UNCHANGED <<files, file, list_data, tables, faults, expected>>

DeleteSections ==
  /\ pc = "sections"
  /\ files[file].sections # <<>>
  /\ user_loudness_section' = [user_loudness_section EXCEPT ![Name(file)] = <<>>]
  /\ pc' = "insert" /\ section' = 1
  /\ UNCHANGED <<files, file, list_data, user_loudness, playback_list, faults, expected>>

InsertSection ==
  /\ pc = "insert"
  /\ user_loudness_section' =
       [user_loudness_section EXCEPT ![Name(file)] = Append(@, files[file].sections[section])]
  /\ IF section < Len(files[file].sections)
     THEN section' = section + 1 /\ UNCHANGED <<pc, file>>
     ELSE section' = 1 /\ ToNextFile
  /\ UNCHANGED <<files, list_data, user_loudness, playback_list, faults, expected>>

\* A delete or insert fails: on with the next file.
SectionsFail ==
  /\ \/ pc = "sections" /\ files[file].sections # <<>>
     \/ pc = "insert"
  /\ Fails("call")
  /\ section' = 1 /\ ToNextFile
  /\ UNCHANGED <<files, list_data, tables>>

\* No memory for the files, before the first of them, or for the sections of
\* one: the rows are not saved either.
NoMemory ==
  /\ pc = "sections"
  /\ file = 1 \/ files[file].sections # <<>>
  /\ Fails("call")
  /\ Leave
  /\ UNCHANGED tables

SaveRow ==
  /\ pc = "rows"
  /\ user_loudness' = [user_loudness EXCEPT ![Name(file)] = RecordName(file)]
  /\ NextFile("copies")
  /\ UNCHANGED <<files, section, list_data, user_loudness_section, playback_list,
                 faults, expected>>

\* The entry of each file's recording is looked up.  One that is not there, or
\* cannot be read, is left out.
Copies(unread) ==
  [i \in DOMAIN files |->
     IF playback_list[RecordName(i)] = None \/ i \in unread THEN None ELSE Copy(RecordName(i))]

FindCopies ==
  /\ pc = "copies"
  /\ list_data' = Copies({})
  /\ pc' = "list" /\ file' = 1
  /\ UNCHANGED <<files, section, tables, faults, expected>>

FindCopiesFails ==
  /\ pc = "copies"
  /\ \E i \in DOMAIN files : list_data' = Copies({i})
  /\ Fails("call")
  /\ pc' = "list" /\ file' = 1
  /\ UNCHANGED <<files, section, tables>>

SaveCopy ==
  /\ pc = "list"
  /\ file <= Len(files)
  /\ playback_list' = IF list_data[file] = None THEN playback_list
                      ELSE [playback_list EXCEPT ![Name(file)] = list_data[file]]
  /\ file' = file + 1
  /\ UNCHANGED <<pc, files, section, list_data, user_loudness, user_loudness_section,
                 faults, expected>>

Saved ==
  /\ pc = "list"
  /\ file > Len(files)
  /\ Leave
  /\ UNCHANGED <<tables, faults, expected>>

\* A row or a copy cannot be saved, or there is no memory for the rows or the
\* copies: the rest of the message is not saved.
SaveFails ==
  /\ pc \in {"rows", "copies", "list"} /\ file <= Len(files)
  /\ pc = "list" => list_data[file] # None
  /\ Fails("call")
  /\ Leave
  /\ UNCHANGED tables

-----------------------------------------------------------------------------
(* What goes on around it                                                     *)

\* The controller is killed and starts again: the tables are what it has.
Crash ==
  /\ Fails("crash")
  /\ Leave
  /\ UNCHANGED tables

\* A recording ends and its loudness is reported: both are saved by name.
RecordingEnds(r) ==
  /\ pc = "loop"
  /\ playback_list[r] # None /\ ~playback_list[r].over
  /\ playback_list' = [playback_list EXCEPT ![r].over = TRUE]
  /\ UNCHANGED <<pc, cursor, user_loudness, user_loudness_section, faults, expected>>

SaveStep ==
  \/ NoSections \/ DeleteSections \/ InsertSection \/ SectionsFail \/ NoMemory
  \/ SaveRow \/ FindCopies \/ FindCopiesFails \/ SaveCopy \/ Saved \/ SaveFails

-----------------------------------------------------------------------------
(* Loading for a request                                                      *)

\* As many rows are read as there are, for the first names asked for: where one
\* of those has no row the buffer holds what the heap left in it, which may be
\* an old row of any name, or nothing that is a name.
Listed(n) == user_loudness[n] # None
CountAll(names) == Len(names)

CountOf(names) == Cardinality({i \in DOMAIN names : Listed(names[i])})

Leftover == {[name |-> None, record_name |-> None]}
              \cup {[name |-> n, record_name |-> r] : n \in Names, r \in Recordings}

RowsRead(names) ==
  {rows \in [1..CountOf(names) -> Leftover] :
     \A i \in 1..CountOf(names) :
       Listed(names[i]) => rows[i] = [name |-> names[i], record_name |-> user_loudness[names[i]]]}

SectionsRead(n) == IF n = None THEN <<>> ELSE user_loudness_section[n]

\* The answers to a request: one without sections spoils the whole.
Loaded(names) ==
  {[i \in DOMAIN rows |-> [of |-> rows[i], sections |-> SectionsRead(rows[i].name)]] :
     rows \in {r \in RowsRead(names) : \A i \in DOMAIN r : SectionsRead(r[i].name) # <<>>}}

\* A request finds nothing to answer with when some row it reads has no
\* sections, or a query fails.
LoadFails(names) ==
  \E r \in RowsRead(names) : \E i \in DOMAIN r : SectionsRead(r[i].name) = <<>>

-----------------------------------------------------------------------------
(* Properties                                                                 *)

\* A message saved without a fault is in the tables exactly as it was sent,
\* once, whatever was there before it: a part of an earlier one, or the same
\* one when a client that missed the acknowledgement sends it again.
SavedWhole ==
  pc = "loop" =>
    \A n \in Names : expected[n] # None /\ expected[n].whole =>
      /\ user_loudness[n] = expected[n].record_name
      /\ user_loudness_section[n] = expected[n].sections
      /\ playback_list[n] = expected[n].copy

\* What is listed is there: a name in the playback list has its row, and a name
\* with a row that was sent once has all its sections, wherever the controller
\* was killed, as long as no statement failed.
ListedComplete ==
  \A n \in Names :
    /\ playback_list[n] # None => user_loudness[n] # None
    /\ user_loudness[n] # None /\ faults["call"] = 0 /\ expected[n].first =>
         user_loudness_section[n] = expected[n].sections
=============================================================================
