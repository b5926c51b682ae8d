----------------------------- MODULE MCEpgStore -----------------------------
(* Instances of EpgStore.  Slots, threads and so on are interchangeable *)
(* in the runs without liveness.                                              *)
EXTENDS EpgStore, TLC

Symmetry == Permutations(Threads) \cup Permutations(Addresses) \cup Permutations(Channels)
              \cup Permutations(Slots)

(* One fault of either kind in a behaviour. *)
OneFault == failures + outOfMemory <= 1
=============================================================================
