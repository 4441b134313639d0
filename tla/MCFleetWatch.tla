---------------------------- MODULE MCFleetWatch ----------------------------
(* Instances of FleetWatch for TLC. *)
EXTENDS FleetWatch, TLC

Symmetry == Permutations(Procs)
=============================================================================
