----------------------------- MODULE MCForwarder -----------------------------
(* Instances of Forwarder for TLC. *)
EXTENDS Forwarder

CONSTANTS f1, f2, alice

Request(f, s, n, g, d) == [forwarder |-> f, from |-> s, nonce |-> n, gas |-> g, data |-> d]

(* Two requests with one nonce, one that follows and one for another        *)
(* forwarder; the gas they ask for is around a multiple of 64, where the    *)
(* division rounds.                                                         *)
Alternatives ==
    {Request(f1, alice, 0, 64, "vote"), Request(f1, alice, 0, 0, "deposit"),
     Request(f1, alice, 1, 63, "vote"), Request(f2, alice, 0, 0, "vote")}
=============================================================================
