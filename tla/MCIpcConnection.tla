-------------------------- MODULE MCIpcConnection --------------------------
(* Four controllers, so that one finds the backlog of the code full, and      *)
(* commands enough to fill a direction and to have some on either side of a   *)
(* restart.                                                                   *)
EXTENDS IpcConnection
=============================================================================
