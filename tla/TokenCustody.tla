---------------------------- MODULE TokenCustody ----------------------------
(***************************************************************************)
(* One chain's bridge (BridgeUpgradeable.sol: deposits, fees, resources)   *)
(* with its ERC20 handlers, the tokens and the ether they hold.            *)
(*                                                                         *)
(* Votes are not part of this module: a transfer arrives when the bridge   *)
(* calls executeProposal of the handler, which BridgeProposals shows to    *)
(* happen once per approved proposal.  Who holds the admin role is left to *)
(* BridgeProposals too: the actions named admin... are an admin's.         *)
(***************************************************************************)
EXTENDS ERC20Handler, Sequences, FiniteSets

CONSTANTS
    Users, Bridge, Handlers, NoHandler,
    InitialLedger,     \* what users hold before the bridge is used
    Domains,           \* destination domain IDs
    MaxNonce,          \* 2^64 - 1
    Fees, NoFee,       \* the fees an admin sets; no special fee
    Amounts, Values,   \* token amounts; ether sent with a call
    Nonces,            \* arguments of adminSetDepositNonce
    MaxDeposits,       \* bound on the number of deposits
    MaxBalance,        \* bound on anyone's balance of a token (minting has none)
    MaxChanges         \* bound on the number of changes of the configuration

ASSUME CustodyAssumption ==
    /\ Holders = Users \union Handlers \union {Bridge}
    /\ Bridge \notin Users \union Handlers /\ Users \intersect Handlers = {}
    /\ Payable = Users \union Handlers     \* the bridge has no receive function
    /\ NoHandler \notin Handlers
    /\ InitialLedger \in Ledger
    /\ \A a \in Assets, k \in Holders \ Users : InitialLedger[a][k] = 0
    /\ MaxNonce \in Nat
    /\ Fees \subseteq Nat /\ NoFee \notin Nat
    /\ Amounts \subseteq Nat /\ Values \subseteq Nat /\ Nonces \subseteq 0..MaxNonce
    /\ MaxDeposits \in Nat /\ MaxBalance \in Nat /\ MaxChanges \in Nat

VARIABLES
    paused,
    _resourceIDToHandlerAddress,
    _depositCounts, _fee_, specialFee, _feeReserve,
    handlers,            \* the storage of each handler
    ledger,
    \* history
    deposits,            \* the Deposit events
    distributed,         \* the ether paid out by transferFee
    nudged,              \* destinations whose nonce an admin has set
    changes              \* changes of the configuration so far

fees == <<_fee_, specialFee>>
counts == <<_depositCounts, deposits, nudged>>
vars == <<paused, _resourceIDToHandlerAddress, counts, fees, _feeReserve, handlers, ledger,
          distributed, changes>>

Deposit == [destination : Domains, nonce : 1..MaxNonce, resource : Resources,
            user : Users, amount : Amounts]

Init ==
    /\ paused = FALSE
    /\ _resourceIDToHandlerAddress = [r \in Resources |-> NoHandler]
    /\ _depositCounts = [n \in Domains |-> 0]
    /\ _fee_ = 0
    /\ specialFee = [n \in Domains |-> NoFee]
    /\ _feeReserve = 0
    /\ handlers = [k \in Handlers |-> NewHandler]
    /\ ledger = InitialLedger
    /\ deposits = <<>>
    /\ distributed = 0
    /\ nudged = {}
    /\ changes = 0

_getFee(n) == IF specialFee[n] # NoFee THEN specialFee[n] ELSE _fee_

UseOutcome(k, outcome) ==
    /\ handlers' = [handlers EXCEPT ![k] = outcome.handler]
    /\ ledger' = outcome.ledger
    /\ \A t \in Tokens, holder \in Holders : outcome.ledger[t][holder] <= MaxBalance
-----------------------------------------------------------------------------
AllForwarded(n, value) == value   \* as Forwarded, the fee not taken off

(* What is left of the ether sent with a deposit goes on to the handler. *)
Forwarded(n, value) == value - _getFee(n)

NextNonce(n) == _depositCounts[n] + 1

NonceFits(n) == NextNonce(n) <= MaxNonce

deposit(user, n, resource, amount, value) ==
    LET k == _resourceIDToHandlerAddress[resource]
        paid == Move(Move(ledger, Ether, user, Bridge, value), Ether, Bridge, k, Forwarded(n, value))
    IN  /\ Len(deposits) < MaxDeposits
        /\ ~paused
        /\ ledger[Ether][user] >= value
        /\ value >= _getFee(n)
        /\ _feeReserve' = _feeReserve + _getFee(n)
        /\ k # NoHandler
        /\ NonceFits(n)
        /\ _depositCounts' = [_depositCounts EXCEPT ![n] = NextNonce(n)]
        /\ \E outcome \in Take(k, handlers[k], paid, resource, user, amount, Forwarded(n, value)) :
              UseOutcome(k, outcome)
        /\ deposits' = Append(deposits, [destination |-> n, nonce |-> NextNonce(n),
                                         resource |-> resource, user |-> user, amount |-> amount])
        /\ UNCHANGED <<paused, _resourceIDToHandlerAddress, fees, distributed, nudged>>

(* An approved transfer is carried out by the handler of its resource. *)
executeProposal(resource, recipient, amount) ==
    LET k == _resourceIDToHandlerAddress[resource]
    IN  /\ ~paused
        /\ k # NoHandler
        /\ \E outcome \in Give(k, handlers[k], ledger, resource, recipient, amount) :
              UseOutcome(k, outcome)
        /\ UNCHANGED <<paused, _resourceIDToHandlerAddress, counts, fees, _feeReserve, distributed>>

(* Anyone may send a handler ether. *)
receive(user, k, value) ==
    /\ ledger[Ether][user] >= value
    /\ ledger' = Move(ledger, Ether, user, k, value)
    /\ UNCHANGED <<paused, _resourceIDToHandlerAddress, counts, fees, _feeReserve, handlers,
                   distributed>>
-----------------------------------------------------------------------------
SetPaused(value) ==
    /\ paused = ~value
    /\ paused' = value
    /\ UNCHANGED <<_resourceIDToHandlerAddress, counts, fees, _feeReserve, handlers, ledger,
                   distributed>>

SetHandlerState(k, h) ==
    /\ handlers' = [handlers EXCEPT ![k] = h]
    /\ UNCHANGED <<paused, counts, fees, _feeReserve, ledger, distributed>>

adminSetResource(k, resource, token, isNative) ==
    LET h == _setResource(handlers[k], resource, token)
    IN  /\ _resourceIDToHandlerAddress' = [_resourceIDToHandlerAddress EXCEPT ![resource] = k]
        /\ SetHandlerState(k, IF isNative THEN setNative(h, token, TRUE) ELSE h)

(* The token is the admin's word, not looked up. *)
adminRemoveResourceId(resource, token, isNative) ==
    LET k == _resourceIDToHandlerAddress[resource]
        h == _removeResource(handlers[k], resource, token)
    IN  /\ k # NoHandler
        /\ _resourceIDToHandlerAddress' =
              [_resourceIDToHandlerAddress EXCEPT ![resource] = NoHandler]
        /\ SetHandlerState(k, IF isNative THEN setNative(h, token, FALSE) ELSE h)

adminSetBurnable(k, token) ==
    /\ \E h \in _setBurnable(handlers[k], token) : SetHandlerState(k, h)
    /\ UNCHANGED _resourceIDToHandlerAddress

adminWithdraw(k, token, recipient, amount) ==
    /\ \E outcome \in releaseERC20(k, handlers[k], ledger, token, recipient, amount) :
          UseOutcome(k, outcome)
    /\ UNCHANGED <<paused, _resourceIDToHandlerAddress, counts, fees, _feeReserve, distributed>>

adminWithdrawETH(k, recipient, amount) ==
    /\ \E outcome \in withdrawETH(k, handlers[k], ledger, recipient, amount) :
          UseOutcome(k, outcome)
    /\ UNCHANGED <<paused, _resourceIDToHandlerAddress, counts, fees, _feeReserve, distributed>>

NotOlder(n, nonce) == nonce >= _depositCounts[n] - 1   \* as Newer, with room below

Newer(n, nonce) == nonce > _depositCounts[n]

adminSetDepositNonce(n, nonce) ==
    /\ Newer(n, nonce)
    /\ _depositCounts' = [_depositCounts EXCEPT ![n] = nonce]
    /\ nudged' = nudged \union {n}
    /\ UNCHANGED <<paused, _resourceIDToHandlerAddress, deposits, fees, _feeReserve, handlers,
                   ledger, distributed>>

SetFees(newFee, newSpecialFee) ==
    /\ _fee_' = newFee
    /\ specialFee' = newSpecialFee
    /\ UNCHANGED <<paused, _resourceIDToHandlerAddress, counts, _feeReserve, handlers, ledger,
                   distributed>>

adminSetFee(newFee) == _fee_ # newFee /\ SetFees(newFee, specialFee)

adminSetSpecialFee(n, newFee) == SetFees(_fee_, [specialFee EXCEPT ![n] = newFee])

adminRemoveSpecialFee(n) == SetFees(_fee_, [specialFee EXCEPT ![n] = NoFee])

(* One payment of transferFee; a list of them is as many payments. *)
transferFee(recipient, amount) ==
    /\ recipient \in Payable
    /\ ledger[Ether][Bridge] >= amount
    /\ ledger' = Move(ledger, Ether, Bridge, recipient, amount)
    /\ distributed' = distributed + amount
    /\ UNCHANGED <<paused, _resourceIDToHandlerAddress, counts, fees, _feeReserve, handlers>>
-----------------------------------------------------------------------------
UserSteps ==
    /\ \/ \E user \in Users, n \in Domains, r \in Resources, a \in Amounts, v \in Values :
             deposit(user, n, r, a, v)
       \/ \E r \in Resources, to \in Holders, a \in Amounts : executeProposal(r, to, a)
       \/ \E user \in Users, k \in Handlers, v \in Values : receive(user, k, v)
    /\ UNCHANGED changes

PayOut ==
    /\ \/ \E k \in Handlers, t \in Tokens, to \in Holders, a \in Amounts :
             adminWithdraw(k, t, to, a)
       \/ \E k \in Handlers, to \in Holders, a \in Amounts : adminWithdrawETH(k, to, a)
       \/ \E to \in Holders, a \in Amounts : transferFee(to, a)
    /\ UNCHANGED changes

Configure ==
    /\ changes < MaxChanges
    /\ changes' = changes + 1
    /\ \/ \E value \in BOOLEAN : SetPaused(value)
       \/ \E n \in Domains, nonce \in Nonces : adminSetDepositNonce(n, nonce)
       \/ \E f \in Fees : adminSetFee(f)
       \/ \E n \in Domains, f \in Fees : adminSetSpecialFee(n, f)
       \/ \E n \in Domains : adminRemoveSpecialFee(n)
       \/ \E k \in Handlers, t \in Tokens : adminSetBurnable(k, t)
       \/ \E r \in Resources, t \in Tokens, native \in BOOLEAN :
             \/ \E k \in Handlers : adminSetResource(k, r, t, native)
             \/ adminRemoveResourceId(r, t, native)

Next == UserSteps \/ PayOut \/ Configure

Spec == Init /\ [][Next]_vars
-----------------------------------------------------------------------------
(* Every variable has its type; in particular no balance becomes negative. *)
CustodyTypeOK ==
    /\ paused \in BOOLEAN
    /\ _resourceIDToHandlerAddress \in [Resources -> Handlers \union {NoHandler}]
    /\ _depositCounts \in [Domains -> 0..MaxNonce]
    /\ _fee_ \in Nat /\ specialFee \in [Domains -> Nat \union {NoFee}]
    /\ _feeReserve \in Nat /\ distributed \in Nat
    /\ handlers \in [Handlers -> HandlerState]
    /\ ledger \in Ledger
    /\ deposits \in Seq(Deposit)
    /\ nudged \subseteq Domains /\ changes \in Nat

(* The places of the deposits to n among the first i. *)
DepositsTo(events, i, n) == {j \in 1..i : events[j].destination = n}

(* The deposits to one destination have increasing nonces, through failed   *)
(* deposits and settings of the nonce: destination and nonce name one       *)
(* deposit, as relayers and the destination's proposals take for granted.   *)
(* Without settings there is no gap.                                        *)
NoncesIncrease ==
    \A i \in DOMAIN deposits :
        LET n == deposits[i].destination
        IN  /\ deposits[i].nonce <= _depositCounts[n]
            /\ \A j \in 1..(i - 1) :
                  deposits[j].destination = n => deposits[j].nonce < deposits[i].nonce
            /\ n \notin nudged =>
                  deposits[i].nonce = Cardinality(DepositsTo(deposits, i, n))

(* A handler's recorded reserve never exceeds the ether it has, whatever    *)
(* ether reached it unrecorded: the check of depositETH against the reserve *)
(* never turns a native deposit away.                                       *)
ReserveBacked == \A k \in Handlers : handlers[k].ETHReserve <= ledger[Ether][k]

(* The bridge holds exactly the fees it has taken and not yet paid out: no  *)
(* deposit leaves other ether behind, and transferFee can pay with nothing  *)
(* but fees.                                                                *)
FeesAccounted == ledger[Ether][Bridge] + distributed = _feeReserve

(* The inductive invariant: the above, and that the count of a destination  *)
(* whose nonce was never set is the number of its deposits.                 *)
CountsExact ==
    \A n \in Domains \ nudged :
        _depositCounts[n] = Cardinality(DepositsTo(deposits, Len(deposits), n))

CustodyIInv ==
    CustodyTypeOK /\ NoncesIncrease /\ CountsExact /\ ReserveBacked /\ FeesAccounted

(* What the comment on setResource says of the two maps of a handler.       *)
ResourceMapsInverse ==
    \A k \in Handlers, r \in Resources :
        LET t == handlers[k].tokenOf[r]
        IN  t # NoToken => handlers[k].resourceOf[t] = r
=============================================================================
