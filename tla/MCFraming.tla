----------------------------- MODULE MCFraming -----------------------------
(* Two clients, the first with up to two messages of any kind, the second     *)
(* with a broken one and a good one.                                          *)
EXTENDS Framing

Streams == UNION {[1..n -> Kinds] : n \in 1..2}
MCConnections == {<<first, second>> : first \in Streams, second \in {<<"broken", "good">>}}
=============================================================================
