-------------------------- MODULE MCClientSession --------------------------
(* Two clients: one that is served and one that waits, or the same one again. *)
EXTENDS ClientSession
=============================================================================
