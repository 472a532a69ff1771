--------------------------- MODULE ERC721Handlers ---------------------------
(***************************************************************************)
(* An ERC721 token bridged between two chains by their ERC721 handlers     *)
(* (handlers/ERC721HandlerUpgradeable.sol, ERC721Safe.sol): a deposit      *)
(* locks or burns an ID, its execution at the other chain releases or      *)
(* mints it, depending on what each handler's burn list says at that time. *)
(*                                                                         *)
(* That a deposit is executed at most once, or cancelled, is shown in      *)
(* CrossChain; failed executions leave no trace here.  Every user has      *)
(* approved the handlers (setApprovalForAll), the worst case for what      *)
(* others may move.                                                        *)
(***************************************************************************)
EXTENDS Sequences, Naturals, FiniteSets

CONSTANTS
    Chains, Home,         \* two chains; where every ID exists at first
    IDs, Users,
    Handler, Nobody,      \* the handler as an owner; no owner, the ID does not exist
    InitialOwner,         \* the owners at Home
    MaxDeposits, MaxChanges

ERC721Assumption ==
    /\ Cardinality(Chains) = 2 /\ Home \in Chains
    /\ Handler \notin Users /\ Nobody \notin Users \union {Handler}
    /\ InitialOwner \in [IDs -> Users]
    /\ MaxDeposits \in Nat /\ MaxChanges \in Nat

VARIABLES
    listing,      \* of the token in each handler: mapped to the resource, white-listed, burnable
    owner,        \* the owner of each ID on each chain
    transfers,    \* the deposits, each "Pending", "Delivered" or "Cancelled"
    \* history
    actor,        \* who made the last transaction
    meddled,      \* IDs an admin withdrew while they were in use or on their way
    changes

vars == <<listing, owner, transfers, actor, meddled, changes>>

Other(c) == CHOOSE d \in Chains : d # c

Init ==
    /\ listing = [c \in Chains |-> [mapped |-> TRUE, listed |-> TRUE, burnable |-> FALSE]]
    /\ owner = [c \in Chains |-> IF c = Home THEN InitialOwner ELSE [id \in IDs |-> Nobody]]
    /\ transfers = <<>>
    /\ actor = Nobody
    /\ meddled = {}
    /\ changes = 0
-----------------------------------------------------------------------------
(* What the token's transferFrom, mint and burn make of its owners when the  *)
(* handler calls them; no outcome if the call reverts.                      *)
Changed(c, id, expected, new) ==
    IF owner[c][id] = expected THEN {[owner EXCEPT ![c][id] = new]} ELSE {}

TransferFrom(c, from, to, id) == Changed(c, id, from, to)

mintERC721(c, to, id) == Changed(c, id, Nobody, to)

BurnAnyones(c, from, id) ==   \* as burnERC721, the owner not compared
    IF owner[c][id] \in Users THEN {[owner EXCEPT ![c][id] = Nobody]} ELSE {}

(* The token asks only whether its owner approved the handler, so the safe   *)
(* compares the owner with the depositor.                                   *)
burnERC721(c, from, id) == Changed(c, id, from, Nobody)

Usable(c) == listing[c].mapped /\ listing[c].listed

Take(c, user, id) ==
    IF ~Usable(c) THEN {}
    ELSE IF listing[c].burnable THEN burnERC721(c, user, id)
    ELSE TransferFrom(c, user, Handler, id)

Give(c, recipient, id) ==
    IF ~Usable(c) THEN {}
    ELSE IF listing[c].burnable THEN mintERC721(c, recipient, id)
    ELSE TransferFrom(c, Handler, recipient, id)

GiveOrNot(c, recipient, id) ==   \* as Given, a failure taken for an execution
    IF Give(c, recipient, id) = {} THEN {owner} ELSE Give(c, recipient, id)

Given(c, recipient, id) == Give(c, recipient, id)

deposit(c, user, id, recipient) ==
    /\ Len(transfers) < MaxDeposits
    /\ owner' \in Take(c, user, id)
    /\ transfers' = Append(transfers,
          [to |-> Other(c), id |-> id, recipient |-> recipient, state |-> "Pending"])
    /\ actor' = user
    /\ UNCHANGED <<listing, meddled, changes>>

ForgetDelivery(n, state) == UNCHANGED transfers   \* as Settle

Settle(n, state) == transfers' = [transfers EXCEPT ![n].state = state]

executeProposal(n) ==
    LET t == transfers[n]
    IN  /\ t.state = "Pending"
        /\ owner' \in Given(t.to, t.recipient, t.id)
        /\ Settle(n, "Delivered")
        /\ actor' = Nobody
        /\ UNCHANGED <<listing, meddled, changes>>

(* An expired proposal is cancelled at the destination. *)
cancelProposal(n) ==
    /\ transfers[n].state = "Pending"
    /\ transfers' = [transfers EXCEPT ![n].state = "Cancelled"]
    /\ actor' = Nobody
    /\ UNCHANGED <<listing, owner, meddled, changes>>

(* A user's own transfer, also to the handler without a deposit. *)
transferFrom(c, user, to, id) ==
    /\ owner' \in TransferFrom(c, user, to, id)
    /\ actor' = user
    /\ UNCHANGED <<listing, transfers, meddled, changes>>
-----------------------------------------------------------------------------
(* Where an ID is in someone's hands, and the deposits of it on their way. *)
Copies(id) == {c \in Chains : owner[c][id] \in Users}
Underway(id) == {n \in DOMAIN transfers : transfers[n].id = id /\ transfers[n].state = "Pending"}

(* withdraw by an admin asks neither for the list nor for the transfers. *)
withdraw(c, id, recipient) ==
    /\ owner' \in TransferFrom(c, Handler, recipient, id)
    /\ meddled' = IF Copies(id) = {} /\ Underway(id) = {} THEN meddled ELSE meddled \union {id}
    /\ UNCHANGED <<listing, transfers>>

(* Of the resource and of the token, either may be another in a removal. *)
removeResource(c, unmap, delist) ==
    /\ listing' = [listing EXCEPT ![c].mapped = @ /\ ~unmap, ![c].listed = @ /\ ~delist]
    /\ UNCHANGED <<owner, transfers, meddled>>

setResource(c) ==
    /\ listing' = [listing EXCEPT ![c].mapped = TRUE, ![c].listed = TRUE]
    /\ UNCHANGED <<owner, transfers, meddled>>

setBurnable(c) ==
    /\ listing[c].listed
    /\ listing' = [listing EXCEPT ![c].burnable = TRUE]
    /\ UNCHANGED <<owner, transfers, meddled>>

Admin ==
    /\ changes < MaxChanges
    /\ changes' = changes + 1
    /\ actor' = Nobody
    /\ \E c \in Chains :
          \/ \E id \in IDs, to \in Users : withdraw(c, id, to)
          \/ \E unmap, delist \in BOOLEAN : removeResource(c, unmap, delist)
          \/ setResource(c)
          \/ setBurnable(c)

Next ==
    \/ \E c \in Chains, user \in Users, id \in IDs, to \in Users \union {Handler} :
          deposit(c, user, id, to) \/ transferFrom(c, user, to, id)
    \/ \E n \in DOMAIN transfers : executeProposal(n) \/ cancelProposal(n)
    \/ Admin

Spec == Init /\ [][Next]_vars
-----------------------------------------------------------------------------
(* An ID is in someone's hands on at most one chain, and not at all while a  *)
(* deposit of it is on its way, whenever tokens become burnable, transfers   *)
(* fail or are cancelled, users send IDs to the handler, or an admin returns *)
(* what nobody else has; an admin who withdraws more breaks it.              *)
OneLiveCopy ==
    \A id \in IDs \ meddled : Cardinality(Copies(id)) + Cardinality(Underway(id)) <= 1

(* An ID leaves its owner only in a transaction of that owner, though every  *)
(* owner lets the handlers move all IDs and anyone may name any ID.          *)
OwnerMoves ==
    \A c \in Chains, id \in IDs :
        owner[c][id] \in Users /\ owner'[c][id] # owner[c][id] => actor' = owner[c][id]

(* An ID that exists on no chain any more was burned by a deposit that was   *)
(* cancelled at the other chain: an execution that fails loses nothing,      *)
(* whatever became burnable, delisted or withdrawn before it.                *)
LostOnlyByCancel ==
    \A id \in IDs : (\A c \in Chains : owner[c][id] = Nobody) /\ Underway(id) = {} =>
        \E n \in DOMAIN transfers : transfers[n].id = id /\ transfers[n].state = "Cancelled"

(* Both: an ID is somewhere once, as long as nobody gives it up. *)
CopiesAccounted == OneLiveCopy /\ LostOnlyByCancel
(* The inductive invariant: types, each ID outside admins' hands in the hands *)
(* of users or on its way at most once, and no ID lost but by a cancellation. *)
Owners == Users \union {Handler, Nobody}

Listing == [mapped : BOOLEAN, listed : BOOLEAN, burnable : BOOLEAN]

Transfer == [to : Chains, id : IDs, recipient : Users \union {Handler},
             state : {"Pending", "Delivered", "Cancelled"}]

ERC721TypeOK ==
    /\ listing \in [Chains -> Listing]
    /\ owner \in [Chains -> [IDs -> Owners]]
    /\ transfers \in Seq(Transfer)
    /\ meddled \subseteq IDs

AtMostOnce(id) ==
    /\ \A c, d \in Copies(id) : c = d
    /\ \A m, n \in Underway(id) : m = n
    /\ Copies(id) = {} \/ Underway(id) = {}

ERC721IInv ==
    /\ ERC721TypeOK
    /\ \A id \in IDs \ meddled : AtMostOnce(id)
    /\ LostOnlyByCancel
=============================================================================
