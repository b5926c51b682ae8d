----------------------------- MODULE MCBroadcast -----------------------------
(* The instance of Broadcast for TLC: samples captured below, at and above a  *)
(* frame, and bytes read below, at and above a packet and two.                *)
EXTENDS Broadcast
=============================================================================
