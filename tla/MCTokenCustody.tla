--------------------------- MODULE MCTokenCustody ---------------------------
(* Instances of TokenCustody for TLC. *)
EXTENDS TokenCustody

CONSTANTS u, bridge, k1, t1, wei

MCHolders == {u, k1, bridge}
MCPayable == {u, k1}

(* The user starts with some of every token and of ether. *)
CONSTANTS StartTokens, StartEther
MCInitialLedger ==
    [a \in Assets |-> [k \in Holders |->
        IF k # u THEN 0 ELSE IF a = Ether THEN StartEther ELSE StartTokens]]
=============================================================================
