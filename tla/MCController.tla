---------------------------- MODULE MCController ----------------------------
(* Instances of Controller for TLC.                                         *)
EXTENDS Controller

From(s, e, c) == [start |-> s, end |-> e, channel |-> c]

\* Two programs of channel 1 and one of channel 2.
Programs == {From(1, 3, 1), From(3, 6, 1), From(1, 6, 2)}

ProgramsOfOne == {From(1, 2, 1), From(2, 6, 1)}

\* An entry that begins after the guide's first program and ends with it, or,
\* sent again with another end, after it.
EmptyOrProlonged == {<<>>, <<From(2, 3, 1)>>, <<From(2, 4, 1)>>}

\* No entry, or two of which the second begins when the first ends.
EmptyOrAdjacent == {<<>>, <<From(1, 2, 1), From(2, 3, 1)>>}
=============================================================================
