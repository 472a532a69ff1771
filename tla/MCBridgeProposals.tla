-------------------------- MODULE MCBridgeProposals --------------------------
(* Instances of BridgeProposals for TLC. *)
EXTENDS BridgeProposals, TLC

CONSTANTS owner, r1, r2, r3, t1, res, h1, h2

MCAccounts == {owner, r1, r2, r3}
ThreeRelayers == {r1, r2, r3}
MCResourceOf == [t \in Transfers |-> res]

RelayerSymmetry == Permutations({r1, r2, r3})
=============================================================================
