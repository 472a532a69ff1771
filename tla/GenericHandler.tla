--------------------------- MODULE GenericHandler ---------------------------
(***************************************************************************)
(* Generic handlers (handlers/GenericHandlerUpgradeable.sol) under one     *)
(* bridge: resources that are calls to registered contracts, deposits that *)
(* call one of their functions and proposals whose execution calls         *)
(* another.  The registered contracts store an item once, as               *)
(* CentrifugeAsset.sol does, so a call fails if the item is stored.        *)
(*                                                                         *)
(* How proposals come to be decided is in BridgeProposals: here one starts *)
(* undecided and its first execution is the call of the vote that decides. *)
(***************************************************************************)
EXTENDS FiniteSets, Integers

CONSTANTS
    Handlers, NoHandler,
    Resources, NoResource,
    Contracts, NoContract,
    Registrations,    \* [deposit, depositor, execute : BOOLEAN], what a contract is set with
    Users,
    Items, Nobody,    \* what metadata names; who stored an item not stored yet
    Proposals,        \* [id, resource, handler, item], a proposal's contents and its key
    MaxChanges        \* bound on the number of changes of resources

Unset == [deposit |-> FALSE, depositor |-> FALSE, execute |-> FALSE]

GenericAssumption ==
    /\ NoHandler \notin Handlers /\ NoResource \notin Resources /\ NoContract \notin Contracts
    /\ Registrations \subseteq [deposit : BOOLEAN, depositor : BOOLEAN, execute : BOOLEAN]
    /\ Proposals \subseteq [id : Nat, resource : Resources, handler : Handlers, item : Items]
    /\ Users \intersect Proposals = {} /\ Nobody \notin Users \union Proposals
    /\ MaxChanges \in Nat

VARIABLES
    _resourceIDToHandlerAddress,
    handlers,       \* the storage of each handler
    status,         \* of each proposal: "Active", "Passed" or "Executed"
    storer,         \* by whom a contract's item was stored
    \* history
    ran,            \* the contract that the execution of a proposal called
    wanted,         \* how each handler's contract was last registered
    deposits,       \* of each deposit the user, the depositor named, the contract's registration
    mistaken,       \* handlers for which an admin removed a resource with another's contract
    changes

resources == <<_resourceIDToHandlerAddress, handlers, wanted, mistaken, changes>>
vars == <<resources, status, storer, ran, deposits>>

NewHandler == [contractOf |-> [r \in Resources |-> NoContract],
               resourceOf |-> [c \in Contracts |-> NoResource],
               registered |-> [c \in Contracts |-> Unset],
               whitelist |-> {}]

Init ==
    /\ _resourceIDToHandlerAddress = [r \in Resources |-> NoHandler]
    /\ handlers = [k \in Handlers |-> NewHandler]
    /\ status = [p \in Proposals |-> "Active"]
    /\ storer = [c \in Contracts |-> [x \in Items |-> Nobody]]
    /\ ran = [p \in Proposals |-> NoContract]
    /\ deposits = {}
    /\ wanted = [k \in Handlers |-> [c \in Contracts |-> Unset]]
    /\ mistaken = {}
    /\ changes = 0
-----------------------------------------------------------------------------
ResourceUnchecked(h, r, c) == h.resourceOf[c] = NoResource   \* as NotSet, without the resource
ContractUnchecked(h, r, c) == h.contractOf[r] = NoContract   \* as NotSet, without the contract

NotSet(h, r, c) == h.contractOf[r] = NoContract /\ h.resourceOf[c] = NoResource

_setResource(h, r, c, registration) ==
    [contractOf |-> [h.contractOf EXCEPT ![r] = c],
     resourceOf |-> [h.resourceOf EXCEPT ![c] = r],
     registered |-> [h.registered EXCEPT ![c] = registration],
     whitelist |-> h.whitelist \union {c}]

KeepWhitelist(h, r, c) ==   \* as _removeResource, the whitelist not cleared
    [contractOf |-> [h.contractOf EXCEPT ![r] = NoContract],
     resourceOf |-> [h.resourceOf EXCEPT ![c] = NoResource],
     registered |-> [h.registered EXCEPT ![c] = Unset],
     whitelist |-> h.whitelist]

(* Resource and contract are the admin's, not looked up from one another. *)
_removeResource(h, r, c) ==
    [contractOf |-> [h.contractOf EXCEPT ![r] = NoContract],
     resourceOf |-> [h.resourceOf EXCEPT ![c] = NoResource],
     registered |-> [h.registered EXCEPT ![c] = Unset],
     whitelist |-> h.whitelist \ {c}]

(* The bridge's map moves to the handler named, whichever had the resource. *)
adminSetGenericResource(k, r, c, registration) ==
    /\ NotSet(handlers[k], r, c)
    /\ _resourceIDToHandlerAddress' = [_resourceIDToHandlerAddress EXCEPT ![r] = k]
    /\ handlers' = [handlers EXCEPT ![k] = _setResource(@, r, c, registration)]
    /\ wanted' = [wanted EXCEPT ![k][c] = registration]
    /\ UNCHANGED mistaken

adminRemoveGenericResource(r, c) ==
    LET k == _resourceIDToHandlerAddress[r]
    IN  /\ k # NoHandler
        /\ _resourceIDToHandlerAddress' = [_resourceIDToHandlerAddress EXCEPT ![r] = NoHandler]
        /\ handlers' = [handlers EXCEPT ![k] = _removeResource(@, r, c)]
        /\ mistaken' = IF handlers[k].contractOf[r] = c THEN mistaken ELSE mistaken \union {k}
        /\ UNCHANGED wanted
-----------------------------------------------------------------------------
(* The data names a depositor, who must be the sender if the contract was   *)
(* registered with the position of one.  Ether beyond the fee is refused.   *)
deposit(user, r, named) ==
    LET k == _resourceIDToHandlerAddress[r]
        h == handlers[k]
        c == h.contractOf[r]
    IN  /\ k # NoHandler
        /\ c \in h.whitelist
        /\ h.registered[c].depositor => named = user
        /\ deposits' = deposits \union
              {[user |-> user, named |-> named, wanted |-> wanted[k][c]]}
        /\ UNCHANGED <<resources, status, storer, ran>>

(* What a handler's executeProposal may do to the contracts' storage; no    *)
(* outcome if it reverts.                                                   *)
Outcomes(h, p) ==
    LET c == h.contractOf[p.resource]
    IN  IF c \notin h.whitelist THEN {}
        ELSE IF ~h.registered[c].execute THEN {[ran |-> NoContract, storer |-> storer]}
        ELSE IF storer[c][p.item] # Nobody THEN {}
        ELSE {[ran |-> c, storer |-> [storer EXCEPT ![c][p.item] = p]]}

FailureIgnored(h, p) ==   \* as Carried, a failed call not reported
    IF Outcomes(h, p) # {} \/ h.contractOf[p.resource] \notin h.whitelist THEN Outcomes(h, p)
    ELSE {[ran |-> h.contractOf[p.resource], storer |-> storer]}

Carried(h, p) == Outcomes(h, p)

(* The handler's call by the vote that decides a proposal, or by a later    *)
(* vote or execution of one that Passed.  A failure leaves it Passed, unless *)
(* the transaction reverts (revertOnFail) and is then no step.              *)
executeProposal(p, revertOnFail) ==
    LET k == _resourceIDToHandlerAddress[p.resource]
    IN  /\ k = p.handler
        /\ status[p] # "Executed"
        /\ \/ \E outcome \in Carried(handlers[k], p) :
                 /\ status' = [status EXCEPT ![p] = "Executed"]
                 /\ ran' = [ran EXCEPT ![p] = outcome.ran]
                 /\ storer' = outcome.storer
           \/ /\ Carried(handlers[k], p) = {} /\ ~revertOnFail
              /\ status' = [status EXCEPT ![p] = "Passed"]
              /\ UNCHANGED <<ran, storer>>
        /\ UNCHANGED <<resources, deposits>>

(* Anyone may call a registered contract, here to store an item. *)
store(user, c, x) ==
    /\ storer[c][x] = Nobody
    /\ storer' = [storer EXCEPT ![c][x] = user]
    /\ UNCHANGED <<resources, status, ran, deposits>>
-----------------------------------------------------------------------------
Configure ==
    /\ changes < MaxChanges
    /\ changes' = changes + 1
    /\ \E r \in Resources, c \in Contracts :
          \/ \E k \in Handlers, registration \in Registrations :
                adminSetGenericResource(k, r, c, registration)
          \/ adminRemoveGenericResource(r, c)
    /\ UNCHANGED <<status, storer, ran, deposits>>

Next ==
    \/ Configure
    \/ \E user, named \in Users, r \in Resources : deposit(user, r, named)
    \/ \E p \in Proposals, revertOnFail \in BOOLEAN : executeProposal(p, revertOnFail)
    \/ \E user \in Users, c \in Contracts, x \in Items : store(user, c, x)

Spec == Init /\ [][Next]_vars
-----------------------------------------------------------------------------
(* A contract is white-listed exactly while a resource is recorded for it,  *)
(* and has no functions registered otherwise: the four maps by contract are *)
(* set and deleted together, whatever resource and contract an admin names. *)
StorageComplete ==
    \A k \in Handlers, c \in Contracts :
        LET h == handlers[k]
        IN  /\ c \in h.whitelist <=> h.resourceOf[c] \in Resources
            /\ c \notin h.whitelist => h.registered[c] = Unset

(* What setResource verifies keeps the two maps of a handler inverse to     *)
(* each other, through any registrations, removals and moves to another     *)
(* handler, until an admin removes a resource with another one's contract.  *)
MapsInverse ==
    \A k \in Handlers \ mistaken, r \in Resources, c \in Contracts :
        handlers[k].contractOf[r] = c <=> handlers[k].resourceOf[c] = r

(* A contract last registered with the position of a depositor is never     *)
(* called for another than the sender of the deposit, also after removals   *)
(* that left another resource naming it.                                    *)
DepositorsTrue == \A d \in deposits : d.wanted.depositor => d.named = d.user

(* A proposal is Executed with a call exactly if that call stored its item: *)
(* a call that failed, because another proposal or anyone else stored the   *)
(* item before, never counts as the execution.                              *)
ExecutedIsStored ==
    \A p \in Proposals, c \in Contracts :
        (status[p] = "Executed" /\ ran[p] = c) <=> storer[c][p.item] = p

(* A resource that moved to another handler without being removed first is  *)
(* left behind in the old one, where no call of the bridge reaches it: it   *)
(* can be neither removed there nor set again, however often the admin      *)
(* reconfigures the resource.                                               *)
Stranded(k, r) ==
    handlers[k].contractOf[r] # NoContract /\ _resourceIDToHandlerAddress[r] # k

StrandedStays == \A k \in Handlers, r \in Resources : Stranded(k, r) => Stranded(k, r)'

(* What the doc of executeProposal says of this handler: it terminates      *)
(* normally when the execution fails, so an execution that is not reverted  *)
(* completes the proposal.                                                  *)
FailureEndsExecution == \A p \in Proposals : status[p] # "Passed"
(* The inductive invariant: types, the maps, and the contracts that can be   *)
(* called are registered in the handler as they were last registered.        *)
Registered == [deposit : BOOLEAN, depositor : BOOLEAN, execute : BOOLEAN]

HandlerStorage ==
    [contractOf : [Resources -> Contracts \union {NoContract}],
     resourceOf : [Contracts -> Resources \union {NoResource}],
     registered : [Contracts -> Registered],
     whitelist : SUBSET Contracts]

ResourcesTypeOK ==
    /\ _resourceIDToHandlerAddress \in [Resources -> Handlers \union {NoHandler}]
    /\ handlers \in [Handlers -> HandlerStorage]
    /\ wanted \in [Handlers -> [Contracts -> Registered]]

ExecutionTypeOK ==
    /\ status \in [Proposals -> {"Active", "Passed", "Executed"}]
    /\ storer \in [Contracts -> [Items -> Users \union Proposals \union {Nobody}]]
    /\ ran \in [Proposals -> Contracts \union {NoContract}]

RegisteredAsWanted ==
    \A k \in Handlers, c \in Contracts :
        c \in handlers[k].whitelist => handlers[k].registered[c] = wanted[k][c]

ResourcesInv == ResourcesTypeOK /\ StorageComplete /\ MapsInverse /\ RegisteredAsWanted

GenericIInv == ResourcesInv /\ ExecutionTypeOK /\ DepositorsTrue /\ ExecutedIsStored
=============================================================================
