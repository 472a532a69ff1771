---------------------------- MODULE ERC20Handler ----------------------------
(***************************************************************************)
(* handlers/ERC20HandlerUpgradeable.sol with HandlerHelpersUpgradeable.sol *)
(* and ERC20Safe.sol, as operators on a handler's storage and a ledger.    *)
(* An operation gives the set of its outcomes: one if the call succeeds,   *)
(* none if it reverts.                                                     *)
(*                                                                         *)
(* The ledger says who holds how much of each asset.  Tokens are ordinary  *)
(* ERC20s: they transfer what they are asked to if the owner has it (and   *)
(* has allowed it), and let the handler mint and burn.  Ether is an asset. *)
(***************************************************************************)
EXTENDS Naturals

CONSTANTS
    Tokens, Ether, Resources, NoToken, NoResource,
    Holders,      \* the accounts that hold assets
    Payable       \* those that accept ether

ASSUME AssetAssumption ==
    /\ Ether \notin Tokens /\ NoToken \notin Tokens
    /\ NoResource \notin Resources
    /\ Payable \subseteq Holders

Assets == Tokens \union {Ether}

Ledger == [Assets -> [Holders -> Nat]]

Move(ledger, asset, from, to, amount) ==
    LET less == [ledger[asset] EXCEPT ![from] = @ - amount]
    IN  [ledger EXCEPT ![asset] = [less EXCEPT ![to] = @ + amount]]

Minted(ledger, token, to, amount) == [ledger EXCEPT ![token][to] = @ + amount]

Burned(ledger, token, from, amount) == [ledger EXCEPT ![token][from] = @ - amount]

HandlerState == [tokenOf : [Resources -> Tokens \union {NoToken}],
                 resourceOf : [Tokens -> Resources \union {NoResource}],
                 whitelist : SUBSET Tokens,
                 burnList : SUBSET Tokens,
                 isNative : SUBSET Tokens,
                 ETHReserve : Nat]

NewHandler == [tokenOf |-> [r \in Resources |-> NoToken],
               resourceOf |-> [t \in Tokens |-> NoResource],
               whitelist |-> {}, burnList |-> {}, isNative |-> {}, ETHReserve |-> 0]

(* How a handler takes and gives a token. *)
Mode(h, token) ==
    IF token \in h.burnList THEN "burn" ELSE IF token \in h.isNative THEN "native" ELSE "lock"
-----------------------------------------------------------------------------
_setResource(h, resource, token) ==
    [h EXCEPT !.tokenOf = [h.tokenOf EXCEPT ![resource] = token],
              !.resourceOf = [h.resourceOf EXCEPT ![token] = resource],
              !.whitelist = @ \union {token}]

(* The burn list keeps the token. *)
_removeResource(h, resource, token) ==
    [h EXCEPT !.tokenOf = [h.tokenOf EXCEPT ![resource] = NoToken],
              !.resourceOf = [h.resourceOf EXCEPT ![token] = NoResource],
              !.whitelist = @ \ {token}]

setNative(h, token, native) ==
    [h EXCEPT !.isNative = IF native THEN @ \union {token} ELSE @ \ {token}]

When(guard, outcome) == {o \in {outcome} : guard}

_setBurnable(h, token) == When(token \in h.whitelist, [h EXCEPT !.burnList = @ \union {token}])
-----------------------------------------------------------------------------
Outcome(h, ledger) == [handler |-> h, ledger |-> ledger]

(* The ether of the call is already in ledger. *)
depositETH(self, h, ledger, amount, value) ==
    LET balance == ledger[Ether][self]
    IN  When(amount = value /\ balance >= h.ETHReserve + amount,
             Outcome([h EXCEPT !.ETHReserve = balance], ledger))

ReserveStays(h, balance) == h   \* as Reduced, forgotten

Reduced(h, balance) == [h EXCEPT !.ETHReserve = balance]

(* Ether that comes back during the call, as it does when the handler is    *)
(* the recipient, makes it revert.                                          *)
withdrawETH(self, h, ledger, recipient, amount) ==
    LET moved == Move(ledger, Ether, self, recipient, amount)
    IN  When(/\ recipient \in Payable /\ ledger[Ether][self] >= amount
             /\ moved[Ether][self] = ledger[Ether][self] - amount,
             Outcome(Reduced(h, moved[Ether][self]), moved))

lockERC20(self, h, ledger, token, owner, amount) ==
    When(ledger[token][owner] >= amount, Outcome(h, Move(ledger, token, owner, self, amount)))

releaseERC20(self, h, ledger, token, recipient, amount) ==
    When(ledger[token][self] >= amount, Outcome(h, Move(ledger, token, self, recipient, amount)))

burnERC20(h, ledger, token, owner, amount) ==
    When(ledger[token][owner] >= amount, Outcome(h, Burned(ledger, token, owner, amount)))

mintERC20(h, ledger, token, recipient, amount) ==
    {Outcome(h, Minted(ledger, token, recipient, amount))}

(* deposit of the handler: called with value wei by the bridge. *)
Take(self, h, ledger, resource, depositor, amount, value) ==
    UNION {IF Mode(h, token) = "burn" THEN burnERC20(h, ledger, token, depositor, amount)
           ELSE IF Mode(h, token) = "native" THEN depositETH(self, h, ledger, amount, value)
           ELSE lockERC20(self, h, ledger, token, depositor, amount)
              : token \in {h.tokenOf[resource]} \intersect h.whitelist}

(* executeProposal of the handler. *)
Give(self, h, ledger, resource, recipient, amount) ==
    UNION {IF Mode(h, token) = "burn" THEN mintERC20(h, ledger, token, recipient, amount)
           ELSE IF Mode(h, token) = "native" THEN withdrawETH(self, h, ledger, recipient, amount)
           ELSE releaseERC20(self, h, ledger, token, recipient, amount)
              : token \in {h.tokenOf[resource]} \intersect h.whitelist}
=============================================================================
