---------------------------- MODULE MCBridgeCalls ----------------------------
(* Instances of BridgeCalls for TLC. *)
EXTENDS BridgeCalls, TLC

RelayerSymmetry == Permutations(Relayers)
=============================================================================
