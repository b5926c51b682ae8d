----------------------------- MODULE EpgParser -----------------------------
(* parse_epg_xml: the programs of a guide, read node by node from the XML the *)
(* python script leaves.  The parser never looks at the depth of a node: it   *)
(* searches forward for the next start tag of a name, then for the next text, *)
(* and an error anywhere gives up everything read so far.  (Memory for the    *)
(* programs there always is.)                                                 *)
EXTENDS Naturals, Sequences

(* A node is a start tag, an end tag, a text or something else; whitespace    *)
(* between tags is no text for the reader, and an element without content may *)
(* have no end tag.  A programme's start tag may have its times as attributes *)
(* or lack one.                                                               *)
Nodes == [kind : {"open", "close", "text", "other"}, name : STRING, timed : BOOLEAN]

CONSTANT Documents \* the nodes the reader delivers, up to an error if there is one

ASSUME DocumentsAreNodes == Documents \subseteq Seq(Nodes)

VARIABLES
  nodes,      \* the document
  at,         \* the node the reader is on
  expects,    \* what the parser searches for, or how it ended
  current,    \* the start tag of the programme whose times were read last
  data        \* the programs read so far: where their times and titles stood

parserVars == <<nodes, at, expects, current, data>>

ParserInit ==
  /\ nodes \in Documents
  /\ at = 1
  /\ expects = "tv"
  /\ current = 0
  /\ data = <<>>

(* What the parser has returned: 0 with the programs, -1 without. *)
Succeed == expects' = "done" /\ UNCHANGED data
Fail == expects' = "failed" /\ data' = <<>>

Searching(what) == expects = what /\ at <= Len(nodes)
Opens(i, name) == nodes[i].kind = "open" /\ nodes[i].name = name
Closes(i, name) == nodes[i].kind = "close" /\ nodes[i].name = name
Read(next) == at' = at + 1 /\ expects' = next

(* The reader cannot go on: an error, or the end of the document. *)
ReadFails ==
  /\ expects \notin {"done", "failed"} /\ at > Len(nodes)
  /\ Fail
  /\ UNCHANGED <<nodes, at, current>>

FindRoot ==
  /\ Searching("tv")
  /\ nodes[at].kind = "open"
  /\ \/ nodes[at].name = "tv" /\ Read("programme") /\ UNCHANGED data
     \/ nodes[at].name # "tv" /\ Fail /\ UNCHANGED at
  /\ UNCHANGED <<nodes, current>>

EndOfProgrammes ==
  /\ Searching("programme")
  /\ Closes(at, "tv")
  /\ Succeed
  /\ UNCHANGED <<nodes, at, current>>

(* The attributes start and stop are read, or missing. *)
FindProgramme ==
  /\ Searching("programme")
  /\ Opens(at, "programme")
  /\ \/ /\ nodes[at].timed
        /\ current' = at
        /\ Read("title")
        /\ UNCHANGED data
     \/ /\ ~nodes[at].timed
        /\ Fail
        /\ UNCHANGED <<at, current>>
  /\ UNCHANGED nodes

(* Mutant: the text of any element is taken for the title's. *)
FindTitleInAny ==
  /\ Searching("title")
  /\ nodes[at].kind = "open"
  /\ Read("text")
  /\ UNCHANGED <<nodes, current, data>>

FindTitle ==
  /\ Searching("title")
  /\ Opens(at, "title")
  /\ Read("text")
  /\ UNCHANGED <<nodes, current, data>>

(* Mutant: after a text the parser searches for a title, not a programme. *)
FindTextThenTitle ==
  /\ Searching("text")
  /\ nodes[at].kind = "text"
  /\ data' = Append(data, [programme |-> current, title |-> at])
  /\ Read("title")
  /\ UNCHANGED <<nodes, current>>

FindText ==
  /\ Searching("text")
  /\ nodes[at].kind = "text"
  /\ data' = Append(data, [programme |-> current, title |-> at])
  /\ Read("programme")
  /\ UNCHANGED <<nodes, current>>

Skip ==
  /\ \/ Searching("tv") /\ nodes[at].kind # "open"
     \/ Searching("programme") /\ ~Opens(at, "programme") /\ ~Closes(at, "tv")
     \/ Searching("title") /\ ~Opens(at, "title")
     \/ Searching("text") /\ nodes[at].kind # "text"
  /\ Read(expects)
  /\ UNCHANGED <<nodes, current, data>>

ParserNext ==
  \/ ReadFails \/ FindRoot \/ EndOfProgrammes \/ FindProgramme \/ FindTitle \/ FindText \/ Skip

ParserSpec == ParserInit /\ [][ParserNext]_parserVars

-----------------------------------------------------------------------------
(* Properties.                                                                *)

ParserTypeOK ==
  /\ nodes \in Documents
  /\ at \in 1..Len(nodes) + 1
  /\ expects \in {"tv", "programme", "title", "text", "done", "failed"}
  /\ current \in 0..Len(nodes)
  /\ data \in Seq([programme : Nat, title : Nat])

(* The reference: what a document says, told without walking through it.  Its *)
(* programmes are the start tags of that name, and the title of one is the    *)
(* text right after the next start tag of a title.                            *)
Programmes == {i \in DOMAIN nodes : Opens(i, "programme")}
IsTitleOf(t, p) ==
  /\ t \in DOMAIN nodes /\ t > p + 1
  /\ nodes[t].kind = "text" /\ Opens(t - 1, "title")
  /\ \A i \in p + 1..t - 2 : ~Opens(i, "title")

(* Well formed is a document that has no other element than one tv, which     *)
(* ends it, and whose programmes have their times and a title that is not     *)
(* empty, before the next one begins.                                         *)
WellFormed ==
  /\ \E r \in DOMAIN nodes : Opens(r, "tv") /\ \A i \in 1..r - 1 : nodes[i].kind # "open"
  /\ \A i \in DOMAIN nodes : Closes(i, "tv") <=> i = Len(nodes)
  /\ \A p \in Programmes :
       /\ nodes[p].timed
       /\ \E t \in DOMAIN nodes : IsTitleOf(t, p) /\ \A i \in p + 1..t : i \notin Programmes

(* A document that is well formed is parsed to exactly its programmes, in     *)
(* order, each with its own title, whatever else the programmes contain; an   *)
(* error at any node leaves no programs, so that the slot keeps its guide and *)
(* never gets a part of a new one (epg_request_callback returns first).       *)
ParsesExactly ==
  /\ WellFormed =>
       /\ expects # "failed"
       /\ expects = "done" => {data[k].programme : k \in DOMAIN data} = Programmes
       /\ \A k \in DOMAIN data : IsTitleOf(data[k].title, data[k].programme)
       /\ \A k, l \in DOMAIN data : k < l => data[k].programme < data[l].programme
  /\ expects = "failed" => data = <<>>

(* A programme without a title takes the text of a later one, which is then   *)
(* lost; it never takes an earlier one's, and no text is taken twice.         *)
TextsForward ==
  \A k \in 1..Len(data) :
    /\ data[k].programme < data[k].title
    /\ k < Len(data) => data[k].title < data[k + 1].programme

=============================================================================
