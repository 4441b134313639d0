-------------------------- MODULE MCDeviceRegistry --------------------------
(* Instances of DeviceRegistry for TLC. *)
EXTENDS DeviceRegistry, TLC

Symmetry == Permutations(Ids) \cup Permutations(Workers)

UuidSymmetry == Permutations(Uuids) \cup Permutations(Workers)
=============================================================================
