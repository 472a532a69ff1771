--------------------------- MODULE MCSignatureHub ---------------------------
(* Instances of SignatureHub for TLC. *)
EXTENDS SignatureHub

CONSTANTS owner, s1, s2, s3, d1, d2

MCAccounts == {owner, s1, s2, s3}
Both == {s1, s2}
TwoSigners == [role \in Role |-> IF role = "RELAYER" THEN Both ELSE {}]

(* Two deposits for one destination. *)
SameDestination == [d \in Deposits |-> 1]
=============================================================================
