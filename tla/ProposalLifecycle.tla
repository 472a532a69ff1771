-------------------------- MODULE ProposalLifecycle --------------------------
(***************************************************************************)
(* What Bridge.sol promises of one proposal, without saying how: it is     *)
(* decided at most once, its handler's effect happens exactly when it is   *)
(* decided in favour and never again, and a rejected proposal has no       *)
(* effect at all.                                                          *)
(***************************************************************************)
EXTENDS Naturals

CONSTANT Proposals

VARIABLES
    decision,     \* decision[p]: "Open", "Approved", "Released" or "Rejected"
    effects       \* effects[p]: how many times p's handler has taken effect

vars == <<decision, effects>>

Init ==
    /\ decision = [p \in Proposals |-> "Open"]
    /\ effects = [p \in Proposals |-> 0]

(* The relayers have agreed on p; its effect is still to come. *)
Approve(p) ==
    /\ decision[p] = "Open"
    /\ decision' = [decision EXCEPT ![p] = "Approved"]
    /\ UNCHANGED effects

Release(p) ==
    /\ decision[p] \in {"Open", "Approved"}
    /\ effects[p] = 0
    /\ decision' = [decision EXCEPT ![p] = "Released"]
    /\ effects' = [effects EXCEPT ![p] = 1]

Reject(p) ==
    /\ decision[p] \in {"Open", "Approved"}
    /\ effects[p] = 0
    /\ decision' = [decision EXCEPT ![p] = "Rejected"]
    /\ UNCHANGED effects

Next == \E p \in Proposals : Approve(p) \/ Release(p) \/ Reject(p)

Spec == Init /\ [][Next]_vars
=============================================================================
