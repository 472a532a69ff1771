---------------------------- MODULE MCPeriphery ----------------------------
(* An instance of Periphery for TLC: its parts side by side in one run,     *)
(* where a behaviour moves one of them (part) and the others stay as they   *)
(* were at first.                                                           *)
EXTENDS Periphery, Integers, Sequences, TLC

CONSTANTS u, s, o1, o2

VARIABLE part

token == <<balance, allowance, totalSupply, minters, blackList, paused, nonces, now,
           granted, spent, used>>
fees == <<_oracleAddress, _gasUsed, _feePercent, feeNow, collected>>
deployment == <<proxies, proxyFile, proxyTask, proxiesStarted>>
registration == <<deployed, file, task, tokenOf, resourceOf, isNative, started>>
vars == <<part, token, fees, deployment, registration>>

MCHolders == {u, s}
MCAdmins == {s}
MCInitialMinters == {s}
MCAmounts == {1, 2}

(* Two permits for the first nonce of an owner, one for the second. *)
Permit(n, v, d) == [owner |-> u, spender |-> s, value |-> v, nonce |-> n, deadline |-> d]
MCPermits == {Permit(0, 1, 0), Permit(0, 2, 1), Permit(1, 1, 1)}

(* Bounds of the part in which admins act and time goes on: the supply, and *)
(* what an owner approves for a spender.                                    *)
FrozenSupply == 2
FrozenGrants == 1

(* A word of four bits, and the scales in proportion. *)
MCOracles == {o1, o2}
MCRoutes == {1, 2}
MCGasPrices == {1, 3}
MCRates == {1, 3}
MCGasUses == {0, 2, 3}
MCPercents == {0, 1, 4}
MCFeeAmounts == {0, 3, 5}

MCOperators == {o1, o2}
MCHandlerNames == <<"erc20Handler", "erc721Handler">>
MCProxyDomains == {"0", "1"}
MCDomains == {1, 2}

ASSUME AssumptionsOfTheParts == PeripheryAssumption

Init ==
    /\ part \in {"permits", "freezing", "fees", "deployment", "registration"}
    /\ Token!Init /\ Fees!Init /\ Deployment!Init /\ Registration!Init

(* The token is used by its owners and spenders, or fewer of them under an  *)
(* admin who acts meanwhile.                                                *)
Next ==
    \/ /\ part = "permits" /\ UNCHANGED <<part, fees, deployment, registration>>
       /\ Token!Next /\ UNCHANGED <<minters, blackList, paused, now>>
    \/ /\ part = "freezing" /\ UNCHANGED <<part, fees, deployment, registration>>
       /\ Token!Next
       /\ totalSupply' <= FrozenSupply /\ \A a, b \in Holders : granted'[a][b] <= FrozenGrants
    \/ part = "fees" /\ Fees!Next /\ UNCHANGED <<part, token, deployment, registration>>
    \/ part = "deployment" /\ Deployment!Next /\ UNCHANGED <<part, token, fees, registration>>
    \/ part = "registration" /\ Registration!Next /\ UNCHANGED <<part, token, fees, deployment>>

Spec == Init /\ [][Next]_vars

Symmetry == Permutations({o1, o2})
=============================================================================
