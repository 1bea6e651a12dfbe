---------------------------- MODULE MCDeviceSync ----------------------------
(* Instances of MoCADeviceSync for TLC. *)
EXTENDS MoCADeviceSync

Symmetry == Permutations(Device)

=============================================================================
