---------------------------- MODULE MCEpgParser ----------------------------
(* Documents of up to MaxProgrammes programmes: with times or without, and    *)
(* with a title, a title after or before a description, two titles, an empty  *)
(* title before a description, no title, nothing; with another root; after a  *)
(* document type and a channel, as the script writes them, or without; and    *)
(* cut short at every node.                                                   *)
EXTENDS EpgParser, SequencesExt

CONSTANT MaxProgrammes

Contents ==
  {<<<<"title", TRUE>>>>,
   <<<<"desc", TRUE>>, <<"title", TRUE>>>>,
   <<<<"title", TRUE>>, <<"desc", TRUE>>>>,
   <<<<"title", TRUE>>, <<"title", TRUE>>>>,
   <<<<"title", FALSE>>, <<"desc", TRUE>>>>,
   <<<<"title", FALSE>>>>,
   <<<<"desc", FALSE>>>>,
   <<>>}

Node(kind, name) == [kind |-> kind, name |-> name, timed |-> FALSE]

Element(name, content) == <<Node("open", name)>> \o content \o <<Node("close", name)>>
Timed(element, timed) == [element EXCEPT ![1].timed = timed]

Programme(programme) ==
  Timed(Element("programme",
          FlattenSeq([n \in DOMAIN programme.content |->
            LET e == programme.content[n]
            IN Element(e[1], IF e[2] THEN <<Node("text", e[1])>> ELSE <<>>)])),
        programme.timed)

Guides == UNION {[1..n -> [timed : BOOLEAN, content : Contents]] : n \in 0..MaxProgrammes}

Programmed(guide) == FlattenSeq([i \in DOMAIN guide |-> Programme(guide[i])])

MCDocuments ==
  UNION {Prefixes(prolog \o Element(root, channels \o Programmed(guide))) :
           prolog \in {<<>>, <<Node("other", "doctype")>>}, root \in {"tv", "html"},
           channels \in {<<>>, Element("channel", <<Node("text", "channel")>>)}, guide \in Guides}
=============================================================================
