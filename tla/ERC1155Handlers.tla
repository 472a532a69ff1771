-------------------------- MODULE ERC1155Handlers --------------------------
(***************************************************************************)
(* An ERC1155 token bridged between two chains by their ERC1155 handlers   *)
(* (handlers/ERC1155HandlerUpgradeable.sol, ERC1155Safe.sol), in batches   *)
(* of IDs and amounts that may name an ID several times.  As in            *)
(* ERC721Handlers a deposit is executed at most once, or cancelled, and    *)
(* users have approved the handlers.                                       *)
(***************************************************************************)
EXTENDS Sequences, Integers, FiniteSums

CONSTANTS
    Chains, Home,         \* two chains; where the token exists at first
    IDs, Users, Handler,
    Supply,               \* of every ID for every user at Home
    Batches,              \* [ids, amounts : sequences], also of different lengths
    MaxDeposits, MaxChanges

ERC1155Assumption ==
    /\ IsFiniteSet(Chains) /\ Cardinality(Chains) = 2 /\ Home \in Chains
    /\ Handler \notin Users /\ IsFiniteSet(Users)
    /\ Supply \in Nat
    /\ \A b \in Batches : b.ids \in Seq(IDs) /\ b.amounts \in Seq(Nat)
    /\ MaxDeposits \in Nat /\ MaxChanges \in Nat

VARIABLES
    listing,      \* of the token in each handler: mapped to the resource, white-listed, burnable
    balance,      \* of the users and the handler of each chain
    transfers,    \* the deposits, each "Pending", "Delivered" or "Cancelled"
    \* history, amounts of each ID
    stray,        \* given to a handler without a deposit
    withdrawn,    \* paid out by admins
    changes

vars == <<listing, balance, transfers, stray, withdrawn, changes>>

Holders == Users \union {Handler}
Other(c) == CHOOSE d \in Chains : d # c
None == [id \in IDs |-> 0]

Init ==
    /\ listing = [c \in Chains |-> [mapped |-> TRUE, listed |-> TRUE, burnable |-> FALSE]]
    /\ balance = [c \in Chains |-> [k \in Holders |->
                     IF c = Home /\ k \in Users THEN [id \in IDs |-> Supply] ELSE None]]
    /\ transfers = <<>>
    /\ stray = None
    /\ withdrawn = None
    /\ changes = 0
-----------------------------------------------------------------------------
(* What a batch has of an ID. *)
Amount(b, id) == Total(b.amounts, {i \in DOMAIN b.ids : b.ids[i] = id})

Plus(amounts, b) == [id \in IDs |-> amounts[id] + Amount(b, id)]
Minus(amounts, b) == [id \in IDs |-> amounts[id] - Amount(b, id)]

(* What the token makes of the balances of chain c when the handler calls   *)
(* it; no outcome if it reverts.  A holder needs all that a batch takes,     *)
(* but to pay itself only each entry.                                       *)
SameLength(b) == Len(b.ids) = Len(b.amounts)

mintBatch(c, to, b) ==
    IF SameLength(b) THEN {[balance EXCEPT ![c][to] = Plus(@, b)]} ELSE {}

BurnPerEntry(c, from, b) ==   \* as burnBatch, each entry compared by itself
    IF SameLength(b) /\ \A i \in DOMAIN b.ids : b.amounts[i] <= balance[c][from][b.ids[i]]
    THEN {[balance EXCEPT ![c][from] = Minus(@, b)]} ELSE {}

burnBatch(c, from, b) ==
    IF SameLength(b) /\ \A id \in IDs : Amount(b, id) <= balance[c][from][id]
    THEN {[balance EXCEPT ![c][from] = Minus(@, b)]} ELSE {}

safeBatchTransferFrom(c, from, to, b) ==
    IF from # to
    THEN {[new EXCEPT ![c][to] = Plus(@, b)] : new \in burnBatch(c, from, b)}
    ELSE IF SameLength(b) /\ \A i \in DOMAIN b.ids : b.amounts[i] <= balance[c][from][b.ids[i]]
    THEN {balance} ELSE {}
-----------------------------------------------------------------------------
AlwaysBurn(c, user, b) ==   \* as Take, the burn list not asked
    IF ~listing[c].mapped THEN {} ELSE burnBatch(c, user, b)

(* A deposit asks whether the resource is mapped, not for the white list. *)
Take(c, user, b) ==
    IF ~listing[c].mapped THEN {}
    ELSE IF listing[c].burnable THEN burnBatch(c, user, b)
    ELSE safeBatchTransferFrom(c, user, Handler, b)

Give(c, recipient, b) ==
    IF ~listing[c].mapped \/ ~listing[c].listed THEN {}
    ELSE IF listing[c].burnable THEN mintBatch(c, recipient, b)
    ELSE safeBatchTransferFrom(c, Handler, recipient, b)

GiveOrNot(c, recipient, b) ==   \* as Given, a failure taken for an execution
    IF Give(c, recipient, b) = {} THEN {balance} ELSE Give(c, recipient, b)

Given(c, recipient, b) == Give(c, recipient, b)

deposit(c, user, b, recipient) ==
    /\ Len(transfers) < MaxDeposits
    /\ balance' \in Take(c, user, b)
    /\ transfers' = Append(transfers,
          [to |-> Other(c), batch |-> b, recipient |-> recipient, state |-> "Pending"])
    /\ UNCHANGED <<listing, stray, withdrawn, changes>>

executeProposal(n) ==
    LET t == transfers[n]
    IN  /\ t.state = "Pending"
        /\ balance' \in Given(t.to, t.recipient, t.batch)
        /\ transfers' = [transfers EXCEPT ![n].state = "Delivered"]
        /\ stray' = IF t.recipient = Handler THEN Plus(stray, t.batch) ELSE stray
        /\ UNCHANGED <<listing, withdrawn, changes>>

cancelProposal(n) ==
    /\ transfers[n].state = "Pending"
    /\ transfers' = [transfers EXCEPT ![n].state = "Cancelled"]
    /\ UNCHANGED <<listing, balance, stray, withdrawn, changes>>

(* A user's own transfer; the handler accepts tokens from anyone. *)
transferFrom(c, user, to, b) ==
    /\ balance' \in safeBatchTransferFrom(c, user, to, b)
    /\ stray' = IF to = Handler THEN Plus(stray, b) ELSE stray
    /\ UNCHANGED <<listing, transfers, withdrawn, changes>>

withdraw(c, recipient, b) ==
    /\ balance' \in safeBatchTransferFrom(c, Handler, recipient, b)
    /\ withdrawn' = IF recipient = Handler THEN withdrawn ELSE Plus(withdrawn, b)
    /\ UNCHANGED <<listing, transfers, stray>>

SetListing(c, l) ==
    /\ listing' = [listing EXCEPT ![c] = l]
    /\ UNCHANGED <<balance, transfers, stray, withdrawn>>

setResource(c) == SetListing(c, [listing[c] EXCEPT !.mapped = TRUE, !.listed = TRUE])

(* The resource or the token may be another one's. *)
removeResource(c, unmap, delist) ==
    SetListing(c, [listing[c] EXCEPT !.mapped = @ /\ ~unmap, !.listed = @ /\ ~delist])

setBurnable(c) == listing[c].listed /\ SetListing(c, [listing[c] EXCEPT !.burnable = TRUE])

Admin ==
    /\ changes < MaxChanges
    /\ changes' = changes + 1
    /\ \E c \in Chains :
          \/ \E to \in Holders, b \in Batches : withdraw(c, to, b)
          \/ \E unmap, delist \in BOOLEAN : removeResource(c, unmap, delist)
          \/ setResource(c)
          \/ setBurnable(c)

Next ==
    \/ \E c \in Chains, user \in Users, to \in Holders, b \in Batches :
          deposit(c, user, b, to) \/ transferFrom(c, user, to, b)
    \/ \E n \in DOMAIN transfers : executeProposal(n) \/ cancelProposal(n)
    \/ Admin

Spec == Init /\ [][Next]_vars
-----------------------------------------------------------------------------
InHands(c, id) == Total([u \in Users |-> balance[c][u][id]], Users)

InTransfers(state, id) ==
    Total([n \in DOMAIN transfers |-> Amount(transfers[n].batch, id)],
          {n \in DOMAIN transfers : transfers[n].state = state})

Listing == [mapped : BOOLEAN, listed : BOOLEAN, burnable : BOOLEAN]

Amounts == [IDs -> Nat]

Transfer == [to : Chains, batch : {b \in Batches : SameLength(b)}, recipient : Holders,
             state : {"Pending", "Delivered", "Cancelled"}]

(* Types; no batch, one that names an ID twice included, makes a balance      *)
(* negative, and deposits have as many amounts as IDs.                       *)
ERC1155TypeOK ==
    /\ listing \in [Chains -> Listing]
    /\ balance \in [Chains -> [Holders -> Amounts]]
    /\ transfers \in Seq(Transfer)
    /\ stray \in Amounts /\ withdrawn \in Amounts

(* Of each ID, what users have on both chains, what is on its way, what was  *)
(* cancelled and what handlers got without a deposit is the first supply and *)
(* what admins withdrew: a batch moves in full, once, or not at all, however *)
(* often it names an ID and whatever becomes burnable on the way.            *)
AmountsAccounted ==
    /\ ERC1155TypeOK
    /\ \A id \in IDs :
        InHands(Home, id) + InHands(Other(Home), id) + InTransfers("Pending", id)
            + InTransfers("Cancelled", id) + stray[id]
        = Supply * Cardinality(Users) + withdrawn[id]

(* As long as the token does not become burnable at Home and admins withdraw *)
(* no more than was cancelled or astray, the handler there holds enough for  *)
(* everything on its way and everything that users can still send back.      *)
ReturnsCovered ==
    ~listing[Home].burnable =>
        \A id \in IDs : withdrawn[id] <= stray[id] + InTransfers("Cancelled", id) =>
            InTransfers("Pending", id) + InHands(Other(Home), id) <= balance[Home][Handler][id]

(* The inductive invariant: as long as the token is not burnable at Home, the *)
(* handler and the users there together have the whole first supply.         *)
KeptAtHome ==
    ~listing[Home].burnable =>
        \A id \in IDs :
            InHands(Home, id) + balance[Home][Handler][id] = Supply * Cardinality(Users)

ERC1155IInv == AmountsAccounted /\ KeptAtHome
=============================================================================
