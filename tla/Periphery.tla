----------------------------- MODULE Periphery ------------------------------
(***************************************************************************)
(* The token of the bridge, the oracle's fees and the two kinds of tasks,  *)
(* and what each of them promises.  They share no state; the properties    *)
(* are stated and explained in their modules.                              *)
(***************************************************************************)
CONSTANTS
    Holders, Zero, Admins, InitialMinters, Amounts, Permits, MaxSupply, MaxGranted,
    MaxTime,                                            \* of the token and of the fees
    MaxUint, TerScale, PercentScale, Oracles, NoOracle, Routes,
    GasPrices, Rates, GasUses, Percents, FeeAmounts,
    Operators,
    Handlers, ProxyDomains, MaxProxies, MaxProxyTasks,
    Domains, Id, MaxTokens, MaxTasks

VARIABLES
    balance, allowance, totalSupply, minters, blackList, paused, nonces, now,
    granted, spent, used,
    _oracleAddress, _gasUsed, _feePercent, feeNow, collected,
    proxies, proxyFile, proxyTask, proxiesStarted,
    deployed, file, task, tokenOf, resourceOf, isNative, started

Token == INSTANCE BridgeToken WITH Accounts <- Holders

Fees == INSTANCE FeeOracle WITH Amounts <- FeeAmounts, now <- feeNow

Deployment == INSTANCE ProxyTasks WITH
    Domains <- ProxyDomains, MaxTasks <- MaxProxyTasks,
    file <- proxyFile, task <- proxyTask, started <- proxiesStarted

Registration == INSTANCE TokenTasks

PeripheryAssumption ==
    /\ Token!BridgeTokenAssumption /\ Fees!FeeOracleAssumption
    /\ Deployment!ProxyTasksAssumption /\ Registration!TokenTasksAssumption
-----------------------------------------------------------------------------
(* Nobody moves more of an owner's tokens than the owner approved, and of   *)
(* the permits signed for one nonce at most one is ever used.               *)
PermitsAccounted == Token!PermitsAccounted

(* A black-listed account's tokens go nowhere; in a pause none do.          *)
FrozenStays == [][Token!BalancesFrozen]_(Token!vars)

(* A fee that is collected covers what it was computed to cover.            *)
FeeCovers == Fees!FeeCovers

(* The handlers that config-proxy.json names serve its bridge, the bridge   *)
(* is of the domain that it names, and no task takes a part back to an      *)
(* older proxy than it has read.                                            *)
FileFits ==
    /\ [](Deployment!HandlersFit /\ Deployment!IdOfBridge)
    /\ [][Deployment!MovesOn]_(Deployment!vars)

(* What is registered for a resource stays, and whatever task registers the *)
(* network's coin, it is known to be native by then.                        *)
RegisteredRight ==
    /\ []Registration!NativeKnown
    /\ [][Registration!Registered]_(Registration!vars)
-----------------------------------------------------------------------------
(* What names, docs and descriptions in the repository say and the code     *)
(* does not: a permit's deadline, the percentage of a fee, the domain of a  *)
(* bridge deployed without --domain, the token of another network's coin.   *)
DeadlineKept == Token!DeadlineKept
PercentAdded == Fees!PercentAdded
DefaultDomain == Deployment!DefaultDomain
ForeignIsToken == Registration!ForeignIsToken
=============================================================================
