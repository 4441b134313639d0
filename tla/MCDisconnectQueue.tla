-------------------------- MODULE MCDisconnectQueue --------------------------
(* Instances of DisconnectQueue for TLC. *)
EXTENDS DisconnectQueue, TLC

Symmetry == Permutations(Beats) \cup Permutations(Admins)
=============================================================================
