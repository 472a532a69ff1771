----------------------------- MODULE BridgedAsset -----------------------------
(***************************************************************************)
(* What the bridges of several chains promise together about one asset:    *)
(* a transfer takes its amount out of circulation on the chain it leaves,  *)
(* and puts that amount into circulation on the chain it is for, at most   *)
(* once.  Apart from that only an administrator brings tokens out.         *)
(***************************************************************************)
EXTENDS Naturals

CONSTANTS Chains, Transfers, InitialOutside

VARIABLES
    outside,      \* outside[c]: what is in circulation on c, outside of the bridge
    sent,         \* the transfers that have left
    delivered,    \* those that have arrived
    paid          \* paid[c]: what administrators have brought out on c

vars == <<outside, sent, delivered, paid>>

Init ==
    /\ outside = InitialOutside
    /\ sent = {} /\ delivered = {}
    /\ paid = [c \in Chains |-> 0]

Send(t) ==
    /\ t \notin sent
    /\ outside[t.from] >= t.amount
    /\ outside' = [outside EXCEPT ![t.from] = @ - t.amount]
    /\ sent' = sent \union {t}
    /\ UNCHANGED <<delivered, paid>>

Deliver(t) ==
    /\ t \in sent \ delivered
    /\ outside' = [outside EXCEPT ![t.to] = @ + t.amount]
    /\ delivered' = delivered \union {t}
    /\ UNCHANGED <<sent, paid>>

PayOut(c) ==
    /\ paid'[c] > paid[c]
    /\ paid' = [paid EXCEPT ![c] = paid'[c]]
    /\ outside' = [outside EXCEPT ![c] = @ + (paid'[c] - paid[c])]
    /\ UNCHANGED <<sent, delivered>>

Next == (\E t \in Transfers : Send(t) \/ Deliver(t)) \/ \E c \in Chains : PayOut(c)

Spec == Init /\ [][Next]_vars
=============================================================================
