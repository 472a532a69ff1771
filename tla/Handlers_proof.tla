--------------------------- MODULE Handlers_proof ---------------------------
(***************************************************************************)
(* What the run of MCHandlers checks on small instances, proved for every  *)
(* value of the constants: the promises of Handlers, from the invariants   *)
(* of GenericHandler, ERC721Handlers and ERC1155Handlers.                  *)
(***************************************************************************)
EXTENDS Handlers, Integers, Sequences, FiniteSets, FiniteSetTheorems, FiniteSums_proof, TLAPS

-----------------------------------------------------------------------------
(* Generic handlers.                                                        *)

LEMMA GenericStart ==
  ASSUME Generic!GenericAssumption, Generic!Init
  PROVE  Generic!GenericIInv
  <1> USE DEF Generic!Init
  <1>1. Generic!NewHandler \in Generic!HandlerStorage /\ Generic!Unset \in Generic!Registered
    BY DEF Generic!NewHandler, Generic!HandlerStorage, Generic!Registered, Generic!Unset
  <1>2. Generic!ResourcesTypeOK
    BY <1>1 DEF Generic!ResourcesTypeOK
  <1>3. Generic!ExecutionTypeOK
    BY DEF Generic!ExecutionTypeOK
  <1>4. \A k \in Handlers : handlers[k] = Generic!NewHandler
    OBVIOUS
  <1>5. Generic!StorageComplete /\ Generic!MapsInverse /\ Generic!RegisteredAsWanted
    BY <1>4 DEF Generic!StorageComplete, Generic!MapsInverse, Generic!RegisteredAsWanted,
       Generic!NewHandler, Generic!GenericAssumption
  <1>6. Generic!DepositorsTrue /\ Generic!ExecutedIsStored
    BY DEF Generic!DepositorsTrue, Generic!ExecutedIsStored, Generic!GenericAssumption
  <1> QED  BY <1>2, <1>3, <1>5, <1>6 DEF Generic!GenericIInv, Generic!ResourcesInv

(* What a registration and a removal do to the storage of the handler.      *)
LEMMA StorageSound ==
  ASSUME Generic!GenericAssumption,
         NEW h \in Generic!HandlerStorage, NEW r \in Resources, NEW c \in Contracts,
         NEW registration \in Registrations
  PROVE  /\ registration \in Generic!Registered
         /\ Generic!_setResource(h, r, c, registration) \in Generic!HandlerStorage
         /\ Generic!_removeResource(h, r, c) \in Generic!HandlerStorage
  BY DEF Generic!GenericAssumption, Generic!HandlerStorage, Generic!Registered, Generic!Unset,
         Generic!_setResource, Generic!_removeResource

LEMMA SetSound ==
  ASSUME Generic!GenericAssumption, Generic!ResourcesInv,
         NEW k \in Handlers, NEW r \in Resources, NEW c \in Contracts,
         NEW registration \in Registrations,
         Generic!adminSetGenericResource(k, r, c, registration)
  PROVE  Generic!ResourcesInv' /\ Generic!StrandedStays
  <1> DEFINE h == handlers[k]
             new == Generic!_setResource(h, r, c, registration)
  <1>1. h \in Generic!HandlerStorage /\ wanted[k] \in [Contracts -> Generic!Registered]
    BY DEF Generic!ResourcesInv, Generic!ResourcesTypeOK
  <1>2. /\ registration \in Generic!Registered
        /\ new \in Generic!HandlerStorage
    BY <1>1, StorageSound
  <1>3. /\ handlers' = [handlers EXCEPT ![k] = new]
        /\ wanted' = [wanted EXCEPT ![k][c] = registration]
        /\ _resourceIDToHandlerAddress' = [_resourceIDToHandlerAddress EXCEPT ![r] = k]
        /\ mistaken' = mistaken
        /\ Generic!NotSet(h, r, c)
    BY DEF Generic!adminSetGenericResource
  <1>4. Generic!ResourcesTypeOK'
    BY <1>1, <1>2, <1>3 DEF Generic!ResourcesInv, Generic!ResourcesTypeOK
  <1>5. /\ new.contractOf = [h.contractOf EXCEPT ![r] = c]
        /\ new.resourceOf = [h.resourceOf EXCEPT ![c] = r]
        /\ new.registered = [h.registered EXCEPT ![c] = registration]
        /\ new.whitelist = h.whitelist \union {c}
    BY DEF Generic!_setResource
  <1> HIDE DEF new
  <1>6. Generic!StorageComplete'
    <2>1. \A d \in Contracts :
             /\ d \in new.whitelist <=> new.resourceOf[d] \in Resources
             /\ d \notin new.whitelist => new.registered[d] = Generic!Unset
      BY <1>1, <1>5 DEF Generic!HandlerStorage, Generic!ResourcesInv, Generic!StorageComplete
    <2>2. \A j \in Handlers : handlers'[j] = IF j = k THEN new ELSE handlers[j]
      BY <1>3 DEF Generic!ResourcesInv, Generic!ResourcesTypeOK
    <2> QED  BY <2>1, <2>2 DEF Generic!ResourcesInv, Generic!StorageComplete
  <1>7. Generic!MapsInverse'
    <2>1. \A q \in Resources, d \in Contracts :
             k \notin mistaken => (new.contractOf[q] = d <=> new.resourceOf[d] = q)
      BY <1>1, <1>3, <1>5 DEF Generic!HandlerStorage, Generic!ResourcesInv, Generic!MapsInverse,
         Generic!NotSet, Generic!GenericAssumption
    <2>2. \A j \in Handlers : handlers'[j] = IF j = k THEN new ELSE handlers[j]
      BY <1>3 DEF Generic!ResourcesInv, Generic!ResourcesTypeOK
    <2> QED  BY <1>3, <2>1, <2>2 DEF Generic!ResourcesInv, Generic!MapsInverse
  <1>8. Generic!RegisteredAsWanted'
    BY <1>1, <1>3, <1>5 DEF Generic!ResourcesInv, Generic!ResourcesTypeOK, Generic!HandlerStorage,
       Generic!RegisteredAsWanted
  <1>9. Generic!StrandedStays
    BY <1>1, <1>3, <1>5 DEF Generic!ResourcesInv, Generic!ResourcesTypeOK, Generic!HandlerStorage,
       Generic!StrandedStays, Generic!Stranded, Generic!NotSet
  <1> QED  BY <1>4, <1>6, <1>7, <1>8, <1>9 DEF Generic!ResourcesInv

LEMMA RemoveSound ==
  ASSUME Generic!GenericAssumption, Generic!ResourcesInv,
         NEW r \in Resources, NEW c \in Contracts, Generic!adminRemoveGenericResource(r, c)
  PROVE  Generic!ResourcesInv' /\ Generic!StrandedStays
  <1> DEFINE k == _resourceIDToHandlerAddress[r]
             h == handlers[k]
             new == Generic!_removeResource(h, r, c)
  <1>1. /\ k \in Handlers /\ h \in Generic!HandlerStorage
        /\ handlers' = [handlers EXCEPT ![k] = new]
        /\ wanted' = wanted
        /\ _resourceIDToHandlerAddress' = [_resourceIDToHandlerAddress EXCEPT ![r] = NoHandler]
        /\ mistaken' = IF h.contractOf[r] = c THEN mistaken ELSE mistaken \union {k}
    BY DEF Generic!ResourcesInv, Generic!ResourcesTypeOK, Generic!adminRemoveGenericResource
  <1>2. new \in Generic!HandlerStorage
    <2> HIDE DEF h, k
    <2> QED  BY <1>1 DEF Generic!GenericAssumption, Generic!HandlerStorage, Generic!Registered,
                         Generic!Unset, Generic!_removeResource
  <1>3. Generic!ResourcesTypeOK'
    BY <1>1, <1>2 DEF Generic!ResourcesInv, Generic!ResourcesTypeOK
  <1>4. /\ new.contractOf = [h.contractOf EXCEPT ![r] = NoContract]
        /\ new.resourceOf = [h.resourceOf EXCEPT ![c] = NoResource]
        /\ new.registered = [h.registered EXCEPT ![c] = Generic!Unset]
        /\ new.whitelist = h.whitelist \ {c}
    BY DEF Generic!_removeResource
  <1> HIDE DEF new
  <1>5. Generic!StorageComplete'
    BY <1>1, <1>4 DEF Generic!ResourcesInv, Generic!ResourcesTypeOK, Generic!HandlerStorage,
       Generic!StorageComplete, Generic!GenericAssumption
  <1>6. Generic!MapsInverse'
    BY <1>1, <1>4 DEF Generic!ResourcesInv, Generic!ResourcesTypeOK, Generic!HandlerStorage,
       Generic!MapsInverse, Generic!GenericAssumption
  <1>7. Generic!RegisteredAsWanted'
    BY <1>1, <1>4 DEF Generic!ResourcesInv, Generic!ResourcesTypeOK, Generic!HandlerStorage,
       Generic!RegisteredAsWanted
  <1>8. Generic!StrandedStays
    BY <1>1, <1>4 DEF Generic!ResourcesInv, Generic!ResourcesTypeOK, Generic!HandlerStorage,
       Generic!StrandedStays, Generic!Stranded, Generic!GenericAssumption
  <1> QED  BY <1>3, <1>5, <1>6, <1>7, <1>8 DEF Generic!ResourcesInv

(* A deposit asks for the depositor that the handler has registered, which  *)
(* is what was last registered, because the contract is white-listed.       *)
LEMMA GenericDepositSound ==
  ASSUME Generic!GenericAssumption, Generic!GenericIInv,
         NEW user \in Users, NEW named \in Users, NEW r \in Resources,
         Generic!deposit(user, r, named)
  PROVE  Generic!DepositorsTrue'
  <1> DEFINE k == _resourceIDToHandlerAddress[r]
             h == handlers[k]
             c == h.contractOf[r]
             new == [user |-> user, named |-> named, wanted |-> wanted[k][c]]
  <1>1. /\ k \in Handlers /\ h \in Generic!HandlerStorage /\ c \in h.whitelist
        /\ h.registered[c].depositor => named = user
        /\ deposits' = deposits \union {new}
    BY DEF Generic!GenericIInv, Generic!ResourcesInv, Generic!ResourcesTypeOK, Generic!deposit
  <1>2. c \in Contracts
    BY <1>1 DEF Generic!HandlerStorage
  <1>3. h.registered[c] = wanted[k][c]
    BY <1>1, <1>2 DEF Generic!GenericIInv, Generic!ResourcesInv, Generic!RegisteredAsWanted
  <1>4. new.wanted.depositor => new.named = new.user
    BY <1>1, <1>3
  <1> HIDE DEF new
  <1> QED  BY <1>1, <1>4 DEF Generic!GenericIInv, Generic!DepositorsTrue

(* An execution that calls a contract stores the item, which nobody had     *)
(* stored, so that it takes no other proposal's item away.                  *)
LEMMA GenericExecuteSound ==
  ASSUME Generic!GenericAssumption, Generic!GenericIInv,
         NEW p \in Proposals, NEW revertOnFail \in BOOLEAN,
         Generic!executeProposal(p, revertOnFail)
  PROVE  Generic!ExecutionTypeOK' /\ Generic!ExecutedIsStored'
  <1> DEFINE k == _resourceIDToHandlerAddress[p.resource]
             h == handlers[k]
             c == h.contractOf[p.resource]
  <1>1. /\ p.resource \in Resources /\ p.handler \in Handlers /\ p.item \in Items
        /\ \A q \in Proposals : q.item \in Items
    BY DEF Generic!GenericAssumption
  <1>2. /\ k \in Handlers /\ h \in Generic!HandlerStorage
        /\ status[p] # "Executed"
        /\ Generic!ExecutionTypeOK /\ Generic!ExecutedIsStored
    BY <1>1 DEF Generic!GenericIInv, Generic!ResourcesInv, Generic!ResourcesTypeOK,
                Generic!executeProposal
  <1>3. CASE /\ status' = [status EXCEPT ![p] = "Passed"]
             /\ UNCHANGED <<ran, storer>>
    BY <1>2, <1>3 DEF Generic!ExecutionTypeOK, Generic!ExecutedIsStored
  <1>4. CASE /\ status' = [status EXCEPT ![p] = "Executed"]
             /\ ran' = [ran EXCEPT ![p] = NoContract]
             /\ storer' = storer
    BY <1>2, <1>4 DEF Generic!ExecutionTypeOK, Generic!ExecutedIsStored, Generic!GenericAssumption
  <1>5. CASE /\ c \in Contracts
             /\ storer[c][p.item] = Nobody
             /\ status' = [status EXCEPT ![p] = "Executed"]
             /\ ran' = [ran EXCEPT ![p] = c]
             /\ storer' = [storer EXCEPT ![c][p.item] = p]
    <2> HIDE DEF c
    <2>1. Generic!ExecutionTypeOK'
      BY <1>2, <1>5 DEF Generic!ExecutionTypeOK
    <2>2. \A d \in Contracts, x \in Items :
             storer'[d][x] = IF d = c /\ x = p.item THEN p ELSE storer[d][x]
      BY <1>1, <1>2, <1>5 DEF Generic!ExecutionTypeOK
    <2>3. ASSUME NEW q \in Proposals, NEW d \in Contracts
          PROVE  (status'[q] = "Executed" /\ ran'[q] = d) <=> storer'[d][q.item] = q
      <3>1. CASE q = p
        BY <1>1, <1>2, <1>5, <2>2, <3>1 DEF Generic!ExecutionTypeOK, Generic!ExecutedIsStored
      <3>2. CASE q # p
        BY <1>1, <1>2, <1>5, <2>2, <3>2 DEF Generic!ExecutionTypeOK, Generic!ExecutedIsStored,
           Generic!GenericAssumption
      <3> QED  BY <3>1, <3>2
    <2> QED  BY <2>1, <2>3 DEF Generic!ExecutedIsStored
  <1>6. \/ UNCHANGED <<ran, storer>> /\ status' = [status EXCEPT ![p] = "Passed"]
        \/ \E outcome \in Generic!Outcomes(h, p) :
              /\ status' = [status EXCEPT ![p] = "Executed"]
              /\ ran' = [ran EXCEPT ![p] = outcome.ran]
              /\ storer' = outcome.storer
    BY DEF Generic!executeProposal, Generic!Carried
  <1>7. \A outcome \in Generic!Outcomes(h, p) :
           \/ outcome.ran = NoContract /\ outcome.storer = storer
           \/ /\ c \in h.whitelist /\ storer[c][p.item] = Nobody
              /\ outcome.ran = c /\ outcome.storer = [storer EXCEPT ![c][p.item] = p]
    <2> DEFINE new == [storer EXCEPT ![c][p.item] = p]
    <2>1. /\ \/ Generic!Outcomes(h, p) = {}
             \/ Generic!Outcomes(h, p) = {[ran |-> NoContract, storer |-> storer]}
             \/ /\ c \in h.whitelist /\ storer[c][p.item] = Nobody
                /\ Generic!Outcomes(h, p) = {[ran |-> c, storer |-> new]}
      BY DEF Generic!Outcomes
    <2> HIDE DEF new, c, h
    <2>2. \A outcome \in Generic!Outcomes(h, p) :
             \/ outcome.ran = NoContract /\ outcome.storer = storer
             \/ /\ c \in h.whitelist /\ storer[c][p.item] = Nobody
                /\ outcome.ran = c /\ outcome.storer = new
      BY <2>1
    <2> QED  BY <2>2 DEF new
  <1>8. h.whitelist \subseteq Contracts
    BY <1>2 DEF Generic!HandlerStorage
  <1> HIDE DEF c, h, k
  <1> QED  BY <1>3, <1>4, <1>5, <1>6, <1>7, <1>8

LEMMA StoreSound ==
  ASSUME Generic!GenericAssumption, Generic!GenericIInv,
         NEW user \in Users, NEW c \in Contracts, NEW x \in Items, Generic!store(user, c, x)
  PROVE  Generic!ExecutionTypeOK' /\ Generic!ExecutedIsStored'
  <1>1. /\ storer[c][x] = Nobody /\ storer' = [storer EXCEPT ![c][x] = user]
        /\ status' = status /\ ran' = ran
        /\ Generic!ExecutionTypeOK /\ Generic!ExecutedIsStored
        /\ user \notin Proposals /\ Nobody \notin Proposals
        /\ \A q \in Proposals : q.item \in Items
    BY DEF Generic!store, Generic!GenericIInv, Generic!GenericAssumption
  <1>2. Generic!ExecutionTypeOK'
    BY <1>1 DEF Generic!ExecutionTypeOK
  <1>3. \A d \in Contracts, y \in Items :
           storer'[d][y] = IF d = c /\ y = x THEN user ELSE storer[d][y]
    BY <1>1 DEF Generic!ExecutionTypeOK
  <1> QED  BY <1>1, <1>2, <1>3 DEF Generic!ExecutedIsStored

LEMMA GenericStep ==
  ASSUME Generic!GenericAssumption, Generic!GenericIInv, [Generic!Next]_(Generic!vars)
  PROVE  Generic!GenericIInv' /\ Generic!StrandedStays
  <1>1. CASE Generic!Configure
    <2>1. UNCHANGED <<status, storer, ran, deposits>>
      BY <1>1 DEF Generic!Configure
    <2>2. Generic!ExecutionTypeOK' /\ Generic!DepositorsTrue' /\ Generic!ExecutedIsStored'
      BY <2>1 DEF Generic!GenericIInv, Generic!ExecutionTypeOK, Generic!DepositorsTrue,
                  Generic!ExecutedIsStored
    <2>3. Generic!ResourcesInv' /\ Generic!StrandedStays
      BY <1>1, SetSound, RemoveSound DEF Generic!GenericIInv, Generic!Configure
    <2> QED  BY <2>2, <2>3 DEF Generic!GenericIInv
  <1>2. ASSUME UNCHANGED Generic!resources
        PROVE  Generic!ResourcesInv' /\ Generic!StrandedStays
    BY <1>2 DEF Generic!resources, Generic!GenericIInv, Generic!ResourcesInv,
       Generic!ResourcesTypeOK, Generic!StorageComplete, Generic!MapsInverse,
       Generic!RegisteredAsWanted, Generic!StrandedStays, Generic!Stranded
  <1>3. CASE \E user, named \in Users, r \in Resources : Generic!deposit(user, r, named)
    <2>1. UNCHANGED <<Generic!resources, status, storer, ran>>
      BY <1>3 DEF Generic!deposit
    <2>2. Generic!DepositorsTrue'
      BY <1>3, GenericDepositSound
    <2> QED  BY <1>2, <2>1, <2>2 DEF Generic!GenericIInv, Generic!ExecutionTypeOK,
                                     Generic!ExecutedIsStored
  <1>4. CASE \/ \E p \in Proposals, revertOnFail \in BOOLEAN :
                   Generic!executeProposal(p, revertOnFail)
             \/ \E user \in Users, c \in Contracts, x \in Items : Generic!store(user, c, x)
    <2>1. UNCHANGED <<Generic!resources, deposits>>
      BY <1>4 DEF Generic!executeProposal, Generic!store
    <2>2. Generic!ExecutionTypeOK' /\ Generic!ExecutedIsStored'
      BY <1>4, GenericExecuteSound, StoreSound
    <2> QED  BY <1>2, <2>1, <2>2 DEF Generic!GenericIInv, Generic!DepositorsTrue
  <1>5. CASE UNCHANGED Generic!vars
    <2>1. UNCHANGED <<Generic!resources, status, storer, ran, deposits>>
      BY <1>5 DEF Generic!vars
    <2> QED  BY <1>2, <2>1 DEF Generic!GenericIInv, Generic!ExecutionTypeOK,
                               Generic!DepositorsTrue, Generic!ExecutedIsStored
  <1> QED  BY <1>1, <1>3, <1>4, <1>5 DEF Generic!Next

(* The inductive invariant of the generic handlers.                         *)
THEOREM GenericInvariance ==
  ASSUME Generic!GenericAssumption
  PROVE  Generic!Spec => []Generic!GenericIInv
  <1>1. Generic!GenericIInv /\ [Generic!Next]_(Generic!vars) => Generic!GenericIInv'
    BY GenericStep
  <1> QED  BY <1>1, GenericStart, PTL DEF Generic!Spec

(* The maps of a generic handler agree, and a resource that is left behind  *)
(* in a handler is not freed there.                                         *)
THEOREM MapsOfHandlersAgree ==
  ASSUME Generic!GenericAssumption
  PROVE  Generic!Spec => MapsAgree
  <1>1. Generic!GenericIInv => Generic!StorageComplete /\ Generic!MapsInverse
    BY DEF Generic!GenericIInv, Generic!ResourcesInv
  <1>2. Generic!GenericIInv /\ [Generic!Next]_(Generic!vars) => [Generic!StrandedStays]_(Generic!vars)
    BY GenericStep
  <1> QED
    BY <1>1, <1>2, GenericInvariance, PTL DEF Generic!Spec, MapsAgree

(* Nobody deposits in another's name where the contract was last registered *)
(* with the position of a depositor.                                        *)
THEOREM NoForeignDepositors ==
  ASSUME Generic!GenericAssumption
  PROVE  Generic!Spec => []DepositorsTrue
  <1>1. Generic!GenericIInv => Generic!DepositorsTrue
    BY DEF Generic!GenericIInv
  <1> QED  BY <1>1, GenericInvariance, PTL DEF DepositorsTrue

(* A proposal is Executed with a call exactly if that call stored its item. *)
THEOREM ExecutionsStore ==
  ASSUME Generic!GenericAssumption
  PROVE  Generic!Spec => []ExecutedIsStored
  <1>1. Generic!GenericIInv => Generic!ExecutedIsStored
    BY DEF Generic!GenericIInv
  <1> QED  BY <1>1, GenericInvariance, PTL DEF ExecutedIsStored
-----------------------------------------------------------------------------
(* ERC721 handlers.                                                         *)

(* A step that takes an ID from one owner to another on one chain.          *)
OwnerChanges(c, id, from, to) ==
    /\ nftOwner[c][id] = from
    /\ nftOwner' \in [Chains -> [NftIDs -> Single!Owners]]
    /\ \A d \in Chains, i \in NftIDs :
          nftOwner'[d][i] = IF d = c /\ i = id THEN to ELSE nftOwner[d][i]

(* The instance takes its cardinalities from the same module as the proofs. *)
LEMMA SingleCardinality == \A S : Single!Cardinality(S) = Cardinality(S)
  BY Zenon DEF Single!Cardinality, Cardinality

LEMMA OtherChain ==
  ASSUME Single!ERC721Assumption, NEW c \in Chains
  PROVE  Single!Other(c) \in Chains
  <1>1. Chains # {c}
    <2> SUFFICES ASSUME Chains = {c} PROVE FALSE
      OBVIOUS
    <2>1. Cardinality(Chains) = 1
      BY FS_Singleton, Zenon
    <2>2. Cardinality(Chains) = 2
      BY SingleCardinality DEF Single!ERC721Assumption
    <2>3. 1 = 2
      BY <2>1, <2>2, Zenon
    <2> QED  BY <2>3
  <1>2. PICK d \in Chains : d # c
    BY <1>1
  <1> QED  BY <1>2 DEF Single!Other

LEMMA ChangedSound ==
  ASSUME Single!ERC721TypeOK, NEW c \in Chains, NEW id \in NftIDs,
         NEW from, NEW to \in Single!Owners, nftOwner' \in Single!Changed(c, id, from, to)
  PROVE  OwnerChanges(c, id, from, to)
  <1>1. nftOwner[c][id] = from /\ nftOwner' = [nftOwner EXCEPT ![c][id] = to]
    BY DEF Single!Changed
  <1> QED  BY <1>1 DEF OwnerChanges, Single!ERC721TypeOK

(* A deposit takes the ID from the user, to the handler or out of being;    *)
(* an execution takes it from there to the recipient.                       *)
LEMMA TakeSound ==
  ASSUME Single!ERC721TypeOK, NEW c \in Chains, NEW id \in NftIDs, NEW user \in NftUsers,
         nftOwner' \in Single!Take(c, user, id)
  PROVE  \E to \in {Handler, Nobody} : OwnerChanges(c, id, user, to)
  <1>1. \E to \in {Handler, Nobody} : nftOwner' \in Single!Changed(c, id, user, to)
    BY DEF Single!Take, Single!burnERC721, Single!TransferFrom
  <1> QED  BY <1>1, ChangedSound DEF Single!Owners

LEMMA GiveSound ==
  ASSUME Single!ERC721TypeOK, NEW c \in Chains, NEW id \in NftIDs,
         NEW recipient \in NftUsers \union {Handler}, nftOwner' \in Single!Given(c, recipient, id)
  PROVE  \E from \in {Handler, Nobody} : OwnerChanges(c, id, from, recipient)
  <1>1. \E from \in {Handler, Nobody} : nftOwner' \in Single!Changed(c, id, from, recipient)
    BY DEF Single!Given, Single!Give, Single!mintERC721, Single!TransferFrom
  <1> QED  BY <1>1, ChangedSound DEF Single!Owners

(* What a deposit and a decision do to the transfers.                       *)
LEMMA DepositedSound ==
  ASSUME Single!ERC721TypeOK, NEW t \in Single!Transfer, t.state = "Pending",
         nftTransfers' = Append(nftTransfers, t)
  PROVE  /\ nftTransfers' \in Seq(Single!Transfer)
         /\ Len(nftTransfers) + 1 \notin DOMAIN nftTransfers
         /\ \A id : Single!Underway(id)' =
                IF id = t.id THEN Single!Underway(id) \union {Len(nftTransfers) + 1}
                ELSE Single!Underway(id)
         /\ DOMAIN nftTransfers' = DOMAIN nftTransfers \union {Len(nftTransfers) + 1}
         /\ \A n \in DOMAIN nftTransfers : nftTransfers'[n] = nftTransfers[n]
  <1> DEFINE m == Len(nftTransfers) + 1
  <1>1. /\ nftTransfers' \in Seq(Single!Transfer)
        /\ m \notin DOMAIN nftTransfers
        /\ DOMAIN nftTransfers' = DOMAIN nftTransfers \union {m}
        /\ \A n \in DOMAIN nftTransfers : nftTransfers'[n] = nftTransfers[n]
        /\ nftTransfers'[m] = t
    BY DEF Single!ERC721TypeOK
  <1> HIDE DEF m
  <1>2. ASSUME NEW id
        PROVE  Single!Underway(id)' =
                  IF id = t.id THEN Single!Underway(id) \union {m} ELSE Single!Underway(id)
    BY <1>1 DEF Single!Underway
  <1> QED  BY <1>1, <1>2 DEF m

LEMMA SettledSound ==
  ASSUME Single!ERC721TypeOK, NEW n \in DOMAIN nftTransfers, NEW state \in {"Delivered", "Cancelled"},
         nftTransfers' = [nftTransfers EXCEPT ![n].state = state]
  PROVE  /\ nftTransfers' \in Seq(Single!Transfer)
         /\ \A id : Single!Underway(id)' = Single!Underway(id) \ {n}
         /\ DOMAIN nftTransfers' = DOMAIN nftTransfers
         /\ nftTransfers'[n].id = nftTransfers[n].id /\ nftTransfers'[n].state = state
         /\ \A m \in DOMAIN nftTransfers : m # n => nftTransfers'[m] = nftTransfers[m]
  <1>1. nftTransfers[n] \in Single!Transfer
    BY DEF Single!ERC721TypeOK
  <1> DEFINE t == [nftTransfers[n] EXCEPT !.state = state]
  <1>2. t \in Single!Transfer /\ t.id = nftTransfers[n].id /\ t.state = state
    BY <1>1 DEF Single!Transfer
  <1>3. nftTransfers' = [nftTransfers EXCEPT ![n] = t]
    OBVIOUS
  <1> HIDE DEF t
  <1>4. /\ nftTransfers' \in Seq(Single!Transfer)
        /\ DOMAIN nftTransfers' = DOMAIN nftTransfers
        /\ nftTransfers'[n] = t
        /\ \A m \in DOMAIN nftTransfers : m # n => nftTransfers'[m] = nftTransfers[m]
    BY <1>2, <1>3 DEF Single!ERC721TypeOK
  <1>5. ASSUME NEW id PROVE Single!Underway(id)' = Single!Underway(id) \ {n}
    BY <1>2, <1>4 DEF Single!Underway
  <1> QED  BY <1>2, <1>4, <1>5

(* The number of hands and transfers, put without counting.                 *)
LEMMA AtMostOnceCounts ==
  ASSUME NEW id, Single!AtMostOnce(id)
  PROVE  Cardinality(Single!Copies(id)) + Cardinality(Single!Underway(id)) <= 1
  <1> DEFINE C == Single!Copies(id)
             U == Single!Underway(id)
  <1>1. /\ C # {} => \E c : C = {c}
        /\ U # {} => \E n : U = {n}
        /\ C = {} \/ U = {}
    BY DEF Single!AtMostOnce
  <1> HIDE DEF C, U
  <1>2. /\ C = {} => Cardinality(C) = 0
        /\ U = {} => Cardinality(U) = 0
    BY FS_EmptySet
  <1>3. /\ \A c : C = {c} => Cardinality(C) = 1
        /\ \A n : U = {n} => Cardinality(U) = 1
    BY FS_Singleton
  <1>4. C # {} => Cardinality(C) = 1
    BY <1>1, <1>3, Zenon
  <1>5. U # {} => Cardinality(U) = 1
    BY <1>1, <1>3, Zenon
  <1>6. Cardinality(C) + Cardinality(U) <= 1
    BY <1>1, <1>2, <1>4, <1>5
  <1> QED  BY <1>6 DEF C, U

(* What each kind of step does to the ID that it is about.                  *)
LEMMA OwnerGives ==
  ASSUME Single!ERC721Assumption, Single!ERC721TypeOK,
         NEW c \in Chains, NEW id \in NftIDs, NEW user \in NftUsers, NEW to \in Single!Owners,
         OwnerChanges(c, id, user, to), NEW i \in NftIDs
  PROVE  /\ i # id => Single!Copies(i)' = Single!Copies(i)
         /\ to \in NftUsers => Single!Copies(i)' = Single!Copies(i)
         /\ to \notin NftUsers => Single!Copies(id)' = Single!Copies(id) \ {c}
         /\ c \in Single!Copies(id)
  BY DEF OwnerChanges, Single!Copies, Single!ERC721TypeOK

LEMMA OwnerReceives ==
  ASSUME Single!ERC721Assumption, Single!ERC721TypeOK,
         NEW c \in Chains, NEW id \in NftIDs, NEW from \in {Handler, Nobody}, NEW to \in Single!Owners,
         OwnerChanges(c, id, from, to), NEW i \in NftIDs
  PROVE  /\ i # id => Single!Copies(i)' = Single!Copies(i)
         /\ Single!Copies(i)' \subseteq Single!Copies(i) \union {c}
         /\ \A d \in Chains : nftOwner'[d][i] = Nobody => nftOwner[d][i] = Nobody \/ to = Nobody
  BY DEF OwnerChanges, Single!Copies, Single!ERC721TypeOK, Single!ERC721Assumption
-----------------------------------------------------------------------------
LEMMA SingleStart ==
  ASSUME Single!ERC721Assumption, Single!Init
  PROVE  Single!ERC721IInv
  <1> USE DEF Single!Init
  <1>1. Single!ERC721TypeOK
    <2>1. /\ nftListing \in [Chains -> Single!Listing]
          /\ nftTransfers \in Seq(Single!Transfer)
          /\ meddled \subseteq NftIDs
      BY DEF Single!Listing
    <2>2. nftOwner \in [Chains -> [NftIDs -> Single!Owners]]
      BY DEF Single!Owners, Single!ERC721Assumption
    <2> QED  BY <2>1, <2>2 DEF Single!ERC721TypeOK
  <1>2. ASSUME NEW id \in NftIDs
        PROVE  Single!AtMostOnce(id) /\ nftOwner[Home][id] # Nobody
    <2>1. Single!Underway(id) = {}
      BY DEF Single!Underway
    <2>2. \A c \in Chains : c # Home => nftOwner[c][id] = Nobody
      BY <1>2
    <2>3. \A c \in Single!Copies(id) : c = Home
      BY <2>2 DEF Single!Copies, Single!ERC721Assumption
    <2>4. nftOwner[Home][id] # Nobody
      BY DEF Single!ERC721Assumption
    <2> QED  BY <2>1, <2>3, <2>4 DEF Single!AtMostOnce
  <1>3. Home \in Chains
    BY DEF Single!ERC721Assumption
  <1> QED  BY <1>1, <1>2, <1>3 DEF Single!ERC721IInv, Single!LostOnlyByCancel

LEMMA SingleDepositSound ==
  ASSUME Single!ERC721Assumption, Single!ERC721IInv,
         NEW c \in Chains, NEW user \in NftUsers, NEW id \in NftIDs,
         NEW to \in NftUsers \union {Handler}, Single!deposit(c, user, id, to)
  PROVE  Single!ERC721IInv' /\ Single!OwnerMoves
  <1> DEFINE t == [to |-> Single!Other(c), id |-> id, recipient |-> to, state |-> "Pending"]
             m == Len(nftTransfers) + 1
  <1>1. Single!ERC721TypeOK
    BY DEF Single!ERC721IInv
  <1>2. t \in Single!Transfer /\ t.id = id /\ t.state = "Pending"
    BY OtherChain DEF Single!Transfer
  <1>3. /\ nftTransfers' = Append(nftTransfers, t)
        /\ nftOwner' \in Single!Take(c, user, id)
        /\ actor' = user /\ UNCHANGED <<nftListing, meddled>>
    BY DEF Single!deposit
  <1> HIDE DEF t
  <1>4. /\ nftTransfers' \in Seq(Single!Transfer)
        /\ \A i : Single!Underway(i)' = IF i = id THEN Single!Underway(i) \union {m}
                                       ELSE Single!Underway(i)
        /\ DOMAIN nftTransfers' = DOMAIN nftTransfers \union {m}
        /\ \A n \in DOMAIN nftTransfers : nftTransfers'[n] = nftTransfers[n]
    BY <1>1, <1>2, <1>3, DepositedSound
  <1>5. PICK new \in {Handler, Nobody} : OwnerChanges(c, id, user, new)
    BY <1>1, <1>3, TakeSound
  <1>6. new \in Single!Owners /\ new \notin NftUsers
    BY DEF Single!Owners, Single!ERC721Assumption
  <1>7. Single!ERC721TypeOK'
    BY <1>1, <1>3, <1>4, <1>5 DEF Single!ERC721TypeOK, OwnerChanges
  <1>8. /\ \A i \in NftIDs : i # id => Single!Copies(i)' = Single!Copies(i)
        /\ Single!Copies(id)' = Single!Copies(id) \ {c} /\ c \in Single!Copies(id)
    BY <1>1, <1>5, <1>6, OwnerGives
  <1>9. ASSUME NEW i \in NftIDs \ meddled PROVE Single!AtMostOnce(i)'
    <2>1. Single!AtMostOnce(i)
      BY DEF Single!ERC721IInv
    <2>2. CASE i # id
      BY <1>4, <1>8, <2>1, <2>2 DEF Single!AtMostOnce
    <2>3. CASE i = id
      BY <1>4, <1>8, <2>1, <2>3 DEF Single!AtMostOnce
    <2> QED  BY <2>2, <2>3
  <1>10. ASSUME NEW i \in NftIDs, \A d \in Chains : nftOwner'[d][i] = Nobody, Single!Underway(i)' = {}
         PROVE  \E n \in DOMAIN nftTransfers' : nftTransfers'[n].id = i /\ nftTransfers'[n].state = "Cancelled"
    <2>1. i # id /\ Single!Underway(i) = {}
      BY <1>4, <1>10
    <2>2. \A d \in Chains : nftOwner[d][i] = Nobody
      BY <1>5, <1>10, <2>1 DEF OwnerChanges
    <2> QED  BY <1>4, <2>1, <2>2 DEF Single!ERC721IInv, Single!LostOnlyByCancel
  <1>11. Single!OwnerMoves
    BY <1>3, <1>5 DEF OwnerChanges, Single!OwnerMoves
  <1> QED  BY <1>3, <1>7, <1>9, <1>10, <1>11 DEF Single!ERC721IInv, Single!LostOnlyByCancel

(* An execution puts the ID into hands on one chain, where it was in nobody's. *)
LEMMA SingleExecuteSound ==
  ASSUME Single!ERC721Assumption, Single!ERC721IInv,
         NEW n \in DOMAIN nftTransfers, Single!executeProposal(n)
  PROVE  Single!ERC721IInv' /\ Single!OwnerMoves
  <1> DEFINE t == nftTransfers[n]
  <1>1. Single!ERC721TypeOK /\ t \in Single!Transfer
    BY DEF Single!ERC721IInv, Single!ERC721TypeOK
  <1>2. /\ t.to \in Chains /\ t.id \in NftIDs /\ t.recipient \in NftUsers \union {Handler}
        /\ t.recipient \in Single!Owners /\ t.recipient # Nobody
    BY <1>1 DEF Single!Transfer, Single!Owners, Single!ERC721Assumption
  <1>3. /\ t.state = "Pending"
        /\ nftTransfers' = [nftTransfers EXCEPT ![n].state = "Delivered"]
        /\ nftOwner' \in Single!Given(t.to, t.recipient, t.id)
        /\ actor' = Nobody /\ UNCHANGED <<nftListing, meddled>>
    BY DEF Single!executeProposal, Single!Settle
  <1>4. /\ nftTransfers' \in Seq(Single!Transfer)
        /\ \A i : Single!Underway(i)' = Single!Underway(i) \ {n}
        /\ DOMAIN nftTransfers' = DOMAIN nftTransfers
        /\ \A m \in DOMAIN nftTransfers : m # n => nftTransfers'[m] = nftTransfers[m]
    BY <1>1, <1>3, SettledSound
  <1>5. PICK from \in {Handler, Nobody} : OwnerChanges(t.to, t.id, from, t.recipient)
    BY <1>1, <1>2, <1>3, GiveSound
  <1>6. n \in Single!Underway(t.id) /\ \A i : i # t.id => n \notin Single!Underway(i)
    BY <1>3 DEF Single!Underway
  <1>7. \A i \in NftIDs : /\ i # t.id => Single!Copies(i)' = Single!Copies(i)
                       /\ Single!Copies(i)' \subseteq Single!Copies(i) \union {t.to}
    BY <1>1, <1>2, <1>5, OwnerReceives
  <1> HIDE DEF t
  <1>8. Single!ERC721TypeOK'
    BY <1>1, <1>3, <1>4, <1>5 DEF Single!ERC721TypeOK, OwnerChanges
  <1>9. ASSUME NEW i \in NftIDs \ meddled PROVE Single!AtMostOnce(i)'
    <2>1. Single!AtMostOnce(i)
      BY DEF Single!ERC721IInv
    <2>2. CASE i # t.id
      BY <1>4, <1>6, <1>7, <2>1, <2>2 DEF Single!AtMostOnce
    <2>3. CASE i = t.id
      <3>1. Single!Copies(i) = {} /\ Single!Underway(i)' = {}
        BY <1>4, <1>6, <2>1, <2>3 DEF Single!AtMostOnce
      <3> QED  BY <1>7, <3>1 DEF Single!AtMostOnce
    <2> QED  BY <2>2, <2>3
  <1>10. ASSUME NEW i \in NftIDs, \A d \in Chains : nftOwner'[d][i] = Nobody, Single!Underway(i)' = {}
         PROVE  \E m \in DOMAIN nftTransfers' : nftTransfers'[m].id = i /\ nftTransfers'[m].state = "Cancelled"
    <2>1. i # t.id
      BY <1>2, <1>5, <1>10 DEF OwnerChanges
    <2>2. (\A d \in Chains : nftOwner[d][i] = Nobody) /\ Single!Underway(i) = {}
      BY <1>4, <1>5, <1>6, <1>10, <2>1 DEF OwnerChanges
    <2>3. PICK m \in DOMAIN nftTransfers : nftTransfers[m].id = i /\ nftTransfers[m].state = "Cancelled"
      BY <2>2 DEF Single!ERC721IInv, Single!LostOnlyByCancel
    <2>4. m # n
      BY <1>3, <2>3 DEF t
    <2> QED  BY <1>4, <2>3, <2>4
  <1>11. Single!OwnerMoves
    BY <1>5 DEF OwnerChanges, Single!OwnerMoves, Single!ERC721Assumption
  <1> QED  BY <1>3, <1>8, <1>9, <1>10, <1>11 DEF Single!ERC721IInv, Single!LostOnlyByCancel

LEMMA SingleCancelSound ==
  ASSUME Single!ERC721Assumption, Single!ERC721IInv,
         NEW n \in DOMAIN nftTransfers, Single!cancelProposal(n)
  PROVE  Single!ERC721IInv' /\ Single!OwnerMoves
  <1>1. Single!ERC721TypeOK
    BY DEF Single!ERC721IInv
  <1>2. /\ nftTransfers[n].state = "Pending"
        /\ nftTransfers' = [nftTransfers EXCEPT ![n].state = "Cancelled"]
        /\ UNCHANGED <<nftListing, nftOwner, meddled>>
    BY DEF Single!cancelProposal
  <1>3. /\ nftTransfers' \in Seq(Single!Transfer)
        /\ \A i : Single!Underway(i)' = Single!Underway(i) \ {n}
        /\ DOMAIN nftTransfers' = DOMAIN nftTransfers
        /\ nftTransfers'[n].id = nftTransfers[n].id /\ nftTransfers'[n].state = "Cancelled"
        /\ \A m \in DOMAIN nftTransfers : m # n => nftTransfers'[m] = nftTransfers[m]
    BY <1>1, <1>2, SettledSound
  <1>4. Single!ERC721TypeOK'
    BY <1>1, <1>2, <1>3 DEF Single!ERC721TypeOK
  <1>5. \A i : Single!Copies(i)' = Single!Copies(i)
    BY <1>2 DEF Single!Copies
  <1>6. \A i \in NftIDs \ meddled : Single!AtMostOnce(i)'
    BY <1>3, <1>5 DEF Single!ERC721IInv, Single!AtMostOnce
  <1>7. ASSUME NEW i \in NftIDs, \A d \in Chains : nftOwner[d][i] = Nobody, Single!Underway(i)' = {}
        PROVE  \E m \in DOMAIN nftTransfers' : nftTransfers'[m].id = i /\ nftTransfers'[m].state = "Cancelled"
    <2>1. CASE nftTransfers[n].id = i
      BY <1>3, <2>1
    <2>2. CASE nftTransfers[n].id # i
      <3>1. Single!Underway(i) = {}
        BY <1>3, <1>7, <2>2 DEF Single!Underway
      <3>2. PICK m \in DOMAIN nftTransfers : nftTransfers[m].id = i /\ nftTransfers[m].state = "Cancelled"
        BY <1>7, <3>1 DEF Single!ERC721IInv, Single!LostOnlyByCancel
      <3>3. m # n
        BY <1>2, <3>2
      <3> QED  BY <1>3, <3>2, <3>3
    <2> QED  BY <2>1, <2>2
  <1>8. Single!OwnerMoves
    BY <1>2 DEF Single!OwnerMoves
  <1> QED  BY <1>2, <1>4, <1>6, <1>7, <1>8 DEF Single!ERC721IInv, Single!LostOnlyByCancel

(* A change of owners without a deposit or an execution.                    *)
LEMMA OwnerOnlySound ==
  ASSUME Single!ERC721Assumption, Single!ERC721IInv, Single!ERC721TypeOK',
         NEW c \in Chains, NEW id \in NftIDs, NEW from \in Single!Owners, NEW to \in Single!Owners,
         to # Nobody, OwnerChanges(c, id, from, to), nftTransfers' = nftTransfers,
         meddled \subseteq meddled',
         \A i \in NftIDs \ meddled' :
            \/ Single!Copies(i)' \subseteq Single!Copies(i)
            \/ /\ Single!Copies(i) = {} /\ Single!Underway(i) = {}
               /\ Single!Copies(i)' \subseteq {c}
  PROVE  Single!ERC721IInv'
  <1>1. \A i : Single!Underway(i)' = Single!Underway(i)
    BY DEF Single!Underway
  <1>2. ASSUME NEW i \in NftIDs \ meddled' PROVE Single!AtMostOnce(i)'
    <2>1. Single!AtMostOnce(i)
      BY DEF Single!ERC721IInv
    <2> QED  BY <1>1, <2>1 DEF Single!AtMostOnce
  <1>3. \A d \in Chains, i \in NftIDs : nftOwner'[d][i] = Nobody => nftOwner[d][i] = Nobody
    BY DEF OwnerChanges
  <1>4. Single!LostOnlyByCancel'
    BY <1>1, <1>3 DEF Single!ERC721IInv, Single!LostOnlyByCancel
  <1> QED  BY <1>2, <1>4 DEF Single!ERC721IInv

LEMMA SingleTransferSound ==
  ASSUME Single!ERC721Assumption, Single!ERC721IInv,
         NEW c \in Chains, NEW user \in NftUsers, NEW id \in NftIDs,
         NEW to \in NftUsers \union {Handler}, Single!transferFrom(c, user, to, id)
  PROVE  Single!ERC721IInv' /\ Single!OwnerMoves
  <1>1. /\ Single!ERC721TypeOK /\ user \in Single!Owners /\ to \in Single!Owners /\ to # Nobody
        /\ nftOwner' \in Single!Changed(c, id, user, to) /\ actor' = user
        /\ UNCHANGED <<nftListing, nftTransfers, meddled>>
    BY DEF Single!ERC721IInv, Single!Owners, Single!ERC721Assumption, Single!transferFrom,
           Single!TransferFrom
  <1>2. OwnerChanges(c, id, user, to)
    BY <1>1, ChangedSound
  <1>3. Single!ERC721TypeOK'
    BY <1>1, <1>2 DEF Single!ERC721TypeOK, OwnerChanges
  <1>4. \A i \in NftIDs : Single!Copies(i)' \subseteq Single!Copies(i)
    BY <1>1, <1>2, OwnerGives
  <1>5. Single!OwnerMoves
    BY <1>1, <1>2 DEF OwnerChanges, Single!OwnerMoves
  <1> QED  BY <1>1, <1>2, <1>3, <1>4, <1>5, OwnerOnlySound

LEMMA SingleWithdrawSound ==
  ASSUME Single!ERC721Assumption, Single!ERC721IInv, actor' = Nobody,
         NEW c \in Chains, NEW id \in NftIDs, NEW to \in NftUsers, Single!withdraw(c, id, to)
  PROVE  Single!ERC721IInv' /\ Single!OwnerMoves
  <1>1. /\ Single!ERC721TypeOK /\ to \in Single!Owners /\ to # Nobody /\ Handler \in Single!Owners
        /\ nftOwner' \in Single!Changed(c, id, Handler, to)
        /\ meddled' = IF Single!Copies(id) = {} /\ Single!Underway(id) = {} THEN meddled
                      ELSE meddled \union {id}
        /\ UNCHANGED <<nftListing, nftTransfers>>
    BY DEF Single!ERC721IInv, Single!Owners, Single!ERC721Assumption, Single!withdraw,
           Single!TransferFrom
  <1>2. OwnerChanges(c, id, Handler, to)
    BY <1>1, ChangedSound
  <1>3. Single!ERC721TypeOK' /\ meddled \subseteq meddled'
    BY <1>1, <1>2 DEF Single!ERC721TypeOK, OwnerChanges
  <1>4. \A i \in NftIDs : /\ i # id => Single!Copies(i)' = Single!Copies(i)
                       /\ Single!Copies(i)' \subseteq Single!Copies(i) \union {c}
    BY <1>1, <1>2, OwnerReceives
  <1>5. \A i \in NftIDs \ meddled' :
           \/ Single!Copies(i)' \subseteq Single!Copies(i)
           \/ /\ Single!Copies(i) = {} /\ Single!Underway(i) = {}
              /\ Single!Copies(i)' \subseteq {c}
    BY <1>1, <1>4
  <1>6. Single!OwnerMoves
    BY <1>2 DEF OwnerChanges, Single!OwnerMoves, Single!ERC721Assumption
  <1> QED  BY <1>1, <1>2, <1>3, <1>5, <1>6, OwnerOnlySound

(* Steps that change no owner and no transfer.                              *)
LEMMA SingleListingSound ==
  ASSUME Single!ERC721IInv, nftListing' \in [Chains -> Single!Listing],
         UNCHANGED <<nftOwner, nftTransfers, meddled>>
  PROVE  Single!ERC721IInv' /\ Single!OwnerMoves
  BY DEF Single!ERC721IInv, Single!ERC721TypeOK, Single!AtMostOnce, Single!Copies, Single!Underway,
         Single!LostOnlyByCancel, Single!OwnerMoves

LEMMA SingleAdminSound ==
  ASSUME Single!ERC721Assumption, Single!ERC721IInv, Single!Admin
  PROVE  Single!ERC721IInv' /\ Single!OwnerMoves
  <1>1. actor' = Nobody /\ nftListing \in [Chains -> Single!Listing]
    BY DEF Single!Admin, Single!ERC721IInv, Single!ERC721TypeOK
  <1>2. PICK c \in Chains :
           \/ \E id \in NftIDs, to \in NftUsers : Single!withdraw(c, id, to)
           \/ \E unmap, delist \in BOOLEAN : Single!removeResource(c, unmap, delist)
           \/ Single!setResource(c)
           \/ Single!setBurnable(c)
    BY DEF Single!Admin
  <1>3. CASE \E id \in NftIDs, to \in NftUsers : Single!withdraw(c, id, to)
    BY <1>1, <1>3, SingleWithdrawSound
  <1>4. CASE \/ \E unmap, delist \in BOOLEAN : Single!removeResource(c, unmap, delist)
             \/ Single!setResource(c)
             \/ Single!setBurnable(c)
    <2>1. nftListing' \in [Chains -> Single!Listing] /\ UNCHANGED <<nftOwner, nftTransfers, meddled>>
      <3>1. nftListing[c] \in Single!Listing
        BY <1>1
      <3>2. ASSUME NEW unmap \in BOOLEAN, NEW delist \in BOOLEAN, Single!removeResource(c, unmap, delist)
            PROVE  nftListing' \in [Chains -> Single!Listing] /\ UNCHANGED <<nftOwner, nftTransfers, meddled>>
        <4> DEFINE l == [nftListing[c] EXCEPT !.mapped = @ /\ ~unmap, !.listed = @ /\ ~delist]
        <4>1. l \in Single!Listing
          BY <3>1 DEF Single!Listing
        <4>2. nftListing' = [nftListing EXCEPT ![c] = l]
          BY <1>1, <3>2 DEF Single!removeResource, Single!Listing
        <4> HIDE DEF l
        <4> QED  BY <1>1, <3>2, <4>1, <4>2 DEF Single!removeResource
      <3>3. ASSUME Single!setResource(c) PROVE nftListing' \in [Chains -> Single!Listing]
        BY <1>1, <3>1, <3>3 DEF Single!setResource, Single!Listing
      <3>4. ASSUME Single!setBurnable(c) PROVE nftListing' \in [Chains -> Single!Listing]
        BY <1>1, <3>1, <3>4 DEF Single!setBurnable, Single!Listing
      <3>5. Single!setResource(c) \/ Single!setBurnable(c) => UNCHANGED <<nftOwner, nftTransfers, meddled>>
        BY DEF Single!setResource, Single!setBurnable
      <3> QED  BY <1>4, <3>2, <3>3, <3>4, <3>5
    <2> QED  BY <2>1, SingleListingSound
  <1> QED  BY <1>2, <1>3, <1>4

LEMMA SingleStep ==
  ASSUME Single!ERC721Assumption, Single!ERC721IInv, [Single!Next]_(Single!vars)
  PROVE  Single!ERC721IInv' /\ Single!OwnerMoves
  <1>1. CASE Single!Next
    BY <1>1, SingleDepositSound, SingleTransferSound, SingleExecuteSound, SingleCancelSound,
       SingleAdminSound DEF Single!Next
  <1>2. CASE UNCHANGED Single!vars
    BY <1>2, SingleListingSound DEF Single!vars, Single!ERC721IInv, Single!ERC721TypeOK
  <1> QED  BY <1>1, <1>2

(* The inductive invariant of the ERC721 handlers.                          *)
THEOREM SingleInvariance ==
  ASSUME Single!ERC721Assumption
  PROVE  Single!Spec => []Single!ERC721IInv
  <1>1. Single!ERC721IInv /\ [Single!Next]_(Single!vars) => Single!ERC721IInv'
    BY SingleStep
  <1> QED  BY <1>1, SingleStart, PTL DEF Single!Spec

(* An ID is in hands on one chain, and on none while it is on its way; only *)
(* a cancelled transfer loses it.                                           *)
THEOREM CopiesAlwaysAccounted ==
  ASSUME Single!ERC721Assumption
  PROVE  Single!Spec => []CopiesAccounted
  <1>1. Single!ERC721IInv => Single!CopiesAccounted
    <2> SUFFICES ASSUME Single!ERC721IInv PROVE Single!OneLiveCopy /\ Single!LostOnlyByCancel
      BY DEF Single!CopiesAccounted
    <2>1. \A id \in NftIDs \ meddled :
             Cardinality(Single!Copies(id)) + Cardinality(Single!Underway(id)) <= 1
      BY AtMostOnceCounts DEF Single!ERC721IInv
    <2> QED  BY <2>1, SingleCardinality DEF Single!ERC721IInv, Single!OneLiveCopy
  <1> QED  BY <1>1, SingleInvariance, PTL DEF CopiesAccounted

(* Nobody but its owner and the bridge moves an ID: an ID leaves a user in a *)
(* transaction of that user only.                                           *)
THEOREM OwnersMove ==
  ASSUME Single!ERC721Assumption
  PROVE  Single!Spec => OnlyOwnerMoves
  <1>1. Single!ERC721IInv /\ [Single!Next]_(Single!vars) => [Single!OwnerMoves]_(Single!vars)
    BY SingleStep
  <1> QED  BY <1>1, SingleInvariance, PTL
           DEF Single!Spec, OnlyOwnerMoves
-----------------------------------------------------------------------------
(* ERC1155 handlers.                                                        *)

(* The instance's sums are those of FiniteSums.                             *)
LEMMA MultiTotal ==
  /\ \A S : Multi!IsFiniteSet(S) <=> IsFiniteSet(S)
  /\ \A S : Multi!Cardinality(S) = Cardinality(S)
  /\ \A f, S : Multi!Total(f, S) = Total(f, S)
  <1>1. \A S : Multi!IsFiniteSet(S) <=> IsFiniteSet(S)
    BY Zenon DEF Multi!IsFiniteSet, IsFiniteSet
  <1>2. \A S : Multi!Cardinality(S) = Cardinality(S)
    BY Zenon DEF Multi!Cardinality, Cardinality
  <1>3. \A f, S : Multi!Total(f, S) = Total(f, S)
    BY <1>2, Zenon DEF Multi!Total, Total, Multi!Units, Units
  <1> QED  BY <1>1, <1>2, <1>3

(* There are two chains.                                                    *)
LEMMA TwoChains ==
  ASSUME Multi!ERC1155Assumption
  PROVE  /\ Home \in Chains /\ Multi!Other(Home) \in Chains /\ Multi!Other(Home) # Home
         /\ \A c \in Chains : c = Home \/ c = Multi!Other(Home)
         /\ \A c \in Chains : Multi!Other(c) \in Chains
  <1>1. IsFiniteSet(Chains) /\ Cardinality(Chains) = 2 /\ Home \in Chains
    BY MultiTotal DEF Multi!ERC1155Assumption
  <1>2. ASSUME NEW c \in Chains
        PROVE  Multi!Other(c) \in Chains /\ Multi!Other(c) # c
    <2>1. Cardinality(Chains \ {c}) = 1
      BY <1>1, FS_RemoveElement
    <2>2. Chains \ {c} # {}
      BY <2>1, FS_EmptySet
    <2>3. PICK d \in Chains : d # c
      BY <2>2
    <2> QED  BY <2>3 DEF Multi!Other
  <1> DEFINE o == Multi!Other(Home)
             C == Chains \ {Home}
             D == C \ {o}
  <1>3. o \in Chains /\ o # Home
    BY <1>1, <1>2
  <1> HIDE DEF o
  <1>4. IsFiniteSet(C) /\ Cardinality(C) = 1 /\ o \in C
    BY <1>1, <1>3, FS_RemoveElement
  <1> HIDE DEF C
  <1>5. IsFiniteSet(D) /\ Cardinality(D) = 0
    BY <1>4, FS_RemoveElement
  <1> HIDE DEF D
  <1>6. D = {}
    BY <1>5, FS_EmptySet
  <1>7. \A c \in Chains : c = Home \/ c = o
    BY <1>6 DEF C, D
  <1> QED  BY <1>1, <1>2, <1>3, <1>7 DEF o

Sound(b) == b \in Batches /\ Multi!SameLength(b)

LEMMA AmountNat ==
  ASSUME Multi!ERC1155Assumption, NEW b, Sound(b), NEW id
  PROVE  Multi!Amount(b, id) \in Nat
  <1> DEFINE S == {i \in DOMAIN b.ids : b.ids[i] = id}
  <1>1. /\ b.ids \in Seq(IDs) /\ b.amounts \in Seq(Nat)
        /\ Len(b.ids) = Len(b.amounts) /\ Len(b.ids) \in Nat
    BY DEF Multi!ERC1155Assumption, Sound, Multi!SameLength
  <1>2. DOMAIN b.ids = 1 .. Len(b.ids) /\ \A i \in 1 .. Len(b.ids) : b.amounts[i] \in Nat
    BY <1>1
  <1>3. S \subseteq 1 .. Len(b.ids)
    BY <1>2
  <1>4. IsFiniteSet(1 .. Len(b.ids))
    BY <1>1, FS_Interval
  <1>5. IsFiniteSet(S)
    BY <1>3, <1>4, FS_Subset
  <1>6. Summable(b.amounts, S)
    BY <1>2, <1>3, <1>5 DEF Summable
  <1> HIDE DEF S
  <1>7. Total(b.amounts, S) \in Nat
    BY <1>6, TotalNat
  <1> QED  BY <1>7, MultiTotal DEF Multi!Amount, S
-----------------------------------------------------------------------------
(* Balances of the users of a chain, of one ID.                             *)
Balances == [Chains -> [Multi!Holders -> Multi!Amounts]]

HandsOf(B, c, id) == Total([u \in BatchUsers |-> B[c][u][id]], BatchUsers)

Part(condition, n) == IF condition THEN n ELSE 0

LEMMA HandsNat ==
  ASSUME Multi!ERC1155Assumption, NEW B \in Balances, NEW c \in Chains, NEW id \in IDs
  PROVE  /\ HandsOf(B, c, id) \in Nat
         /\ B[c][Handler][id] \in Nat
         /\ [u \in BatchUsers |-> B[c][u][id]] \in [BatchUsers -> Nat]
         /\ Summable([u \in BatchUsers |-> B[c][u][id]], BatchUsers)
  <1> DEFINE f == [u \in BatchUsers |-> B[c][u][id]]
  <1>1. f \in [BatchUsers -> Nat] /\ B[c][Handler][id] \in Nat
    BY DEF Balances, Multi!Holders, Multi!Amounts
  <1>2. IsFiniteSet(BatchUsers)
    BY MultiTotal DEF Multi!ERC1155Assumption
  <1> HIDE DEF f
  <1>3. Summable(f, BatchUsers)
    BY <1>1, <1>2 DEF Summable
  <1>4. Total(f, BatchUsers) \in Nat
    BY <1>3, TotalNat
  <1> QED  BY <1>1, <1>3, <1>4 DEF f, HandsOf

(* The balances of one holder on one chain change.                          *)
With(B, c, k, amounts) == [B EXCEPT ![c][k] = amounts]

LEMMA HolderChanges ==
  ASSUME Multi!ERC1155Assumption, NEW B \in Balances, NEW c \in Chains, NEW k \in Multi!Holders,
         NEW a \in Multi!Amounts, NEW N, N = With(B, c, k, a)
  PROVE  /\ N \in Balances
         /\ \A d \in Chains, j \in Multi!Holders :
               N[d][j] = IF d = c /\ j = k THEN a ELSE B[d][j]
         /\ \A d \in Chains, id \in IDs :
               /\ HandsOf(N, d, id) \in Nat
               /\ d # c \/ k \notin BatchUsers => HandsOf(N, d, id) = HandsOf(B, d, id)
               /\ d = c /\ k \in BatchUsers =>
                     HandsOf(N, d, id) + B[c][k][id] = HandsOf(B, d, id) + a[id]
  <1>1. /\ N \in Balances
        /\ \A d \in Chains, j \in Multi!Holders :
               N[d][j] = IF d = c /\ j = k THEN a ELSE B[d][j]
    BY DEF Balances, With
  <1>2. ASSUME NEW d \in Chains, NEW id \in IDs
        PROVE  /\ HandsOf(N, d, id) \in Nat
               /\ d # c \/ k \notin BatchUsers => HandsOf(N, d, id) = HandsOf(B, d, id)
               /\ d = c /\ k \in BatchUsers =>
                     HandsOf(N, d, id) + B[c][k][id] = HandsOf(B, d, id) + a[id]
    <2> DEFINE f == [u \in BatchUsers |-> B[d][u][id]]
               g == [u \in BatchUsers |-> N[d][u][id]]
    <2>1. Summable(f, BatchUsers) /\ Summable(g, BatchUsers) /\ HandsOf(N, d, id) \in Nat
      BY <1>1, HandsNat
    <2>2. \A u \in BatchUsers : /\ f[u] = B[d][u][id]
                           /\ g[u] = IF d = c /\ u = k THEN a[id] ELSE B[d][u][id]
      BY <1>1 DEF Multi!Holders
    <2>3. a[id] \in Nat
      BY DEF Multi!Amounts
    <2> HIDE DEF f, g
    <2>4. CASE d # c \/ k \notin BatchUsers
      <3>1. Total(f, BatchUsers) = Total(g, BatchUsers)
        BY <2>2, <2>4, TotalSame
      <3> QED  BY <2>1, <2>4, <3>1 DEF f, g, HandsOf
    <2>5. CASE d = c /\ k \in BatchUsers
      <3>1. DifferAt(f, g, BatchUsers, k) /\ g[k] = a[id] /\ f[k] = B[c][k][id]
        BY <2>2, <2>5 DEF DifferAt
      <3>2. Total(g, BatchUsers) + f[k] = Total(f, BatchUsers) + g[k]
        BY <2>1, <2>3, <2>5, <3>1, TotalChange
      <3> QED  BY <2>1, <2>5, <3>1, <3>2 DEF f, g, HandsOf
    <2> QED  BY <2>4, <2>5
  <1> QED  BY <1>1, <1>2

(* The balances B become N: on chain c a batch leaves the users or the      *)
(* handler or comes into being, and goes to the users or the handler or out *)
(* of being.                                                                *)
Kinds == {"user", "handler", "none"}

KindOf(k) == IF k = Handler THEN "handler" ELSE "user"

Moves(B, N, c, out, in, b) ==
    /\ N \in Balances
    /\ \A d \in Chains, id \in IDs :
          /\ HandsOf(N, d, id) + Part(d = c /\ out = "user", Multi!Amount(b, id))
                = HandsOf(B, d, id) + Part(d = c /\ in = "user", Multi!Amount(b, id))
          /\ N[d][Handler][id] + Part(d = c /\ out = "handler", Multi!Amount(b, id))
                = B[d][Handler][id] + Part(d = c /\ in = "handler", Multi!Amount(b, id))

LEMMA PartNat ==
  ASSUME NEW n \in Nat
  PROVE  \A condition : Part(condition, n) \in Nat
  BY DEF Part

LEMMA HolderKinds ==
  ASSUME Multi!ERC1155Assumption, NEW k \in Multi!Holders
  PROVE  /\ KindOf(k) \in {"user", "handler"}
         /\ KindOf(k) = "user" <=> k \in BatchUsers
         /\ KindOf(k) = "handler" <=> k = Handler
         /\ Handler \in Multi!Holders /\ Handler \notin BatchUsers
  BY DEF KindOf, Multi!Holders, Multi!ERC1155Assumption

LEMMA PlusMoves ==
  ASSUME Multi!ERC1155Assumption, NEW B \in Balances, NEW c \in Chains, NEW k \in Multi!Holders,
         NEW b, Sound(b), NEW N, N = With(B, c, k, Multi!Plus(B[c][k], b))
  PROVE  Moves(B, N, c, "none", KindOf(k), b)
  <1> DEFINE a == Multi!Plus(B[c][k], b)
  <1>1. /\ \A id \in IDs : B[c][k][id] \in Nat /\ Multi!Amount(b, id) \in Nat
        /\ \A id \in IDs : a[id] = B[c][k][id] + Multi!Amount(b, id)
        /\ a = [id \in IDs |-> a[id]]
    BY AmountNat DEF Balances, Multi!Amounts, Multi!Plus
  <1>2. a \in Multi!Amounts
    BY <1>1 DEF Multi!Amounts
  <1>3. N = With(B, c, k, a)
    OBVIOUS
  <1> HIDE DEF a
  <1>4. /\ N \in Balances
        /\ \A d \in Chains, j \in Multi!Holders :
              N[d][j] = IF d = c /\ j = k THEN a ELSE B[d][j]
        /\ \A d \in Chains, id \in IDs :
              /\ HandsOf(N, d, id) \in Nat
              /\ d # c \/ k \notin BatchUsers => HandsOf(N, d, id) = HandsOf(B, d, id)
              /\ d = c /\ k \in BatchUsers =>
                    HandsOf(N, d, id) + B[c][k][id] = HandsOf(B, d, id) + a[id]
    BY <1>2, <1>3, HolderChanges
  <1>5. ASSUME NEW d \in Chains, NEW id \in IDs
        PROVE  /\ HandsOf(N, d, id) + Part(d = c /\ "none" = "user", Multi!Amount(b, id))
                    = HandsOf(B, d, id) + Part(d = c /\ KindOf(k) = "user", Multi!Amount(b, id))
               /\ N[d][Handler][id] + Part(d = c /\ "none" = "handler", Multi!Amount(b, id))
                    = B[d][Handler][id] + Part(d = c /\ KindOf(k) = "handler", Multi!Amount(b, id))
    <2>1. HandsOf(B, d, id) \in Nat /\ B[d][Handler][id] \in Nat /\ Handler \in Multi!Holders
      BY HandsNat, HolderKinds
    <2>2. /\ B[c][k][id] \in Nat /\ a[id] \in Nat /\ Multi!Amount(b, id) \in Nat
          /\ KindOf(k) = "user" <=> k \in BatchUsers
          /\ KindOf(k) = "handler" <=> k = Handler
          /\ Handler \notin BatchUsers
      BY <1>1, <1>2, HolderKinds DEF Multi!Amounts
    <2>3. CASE d = c /\ k = Handler
      BY <1>1, <1>4, <2>1, <2>2, <2>3 DEF Part
    <2>4. CASE d = c /\ k # Handler
      <3>1. k \in BatchUsers
        BY <2>4 DEF Multi!Holders
      <3>2. N[d][Handler] = B[d][Handler] /\ KindOf(k) # "handler" /\ KindOf(k) = "user"
        BY <1>4, <2>1, <2>2, <2>4, <3>1
      <3>3. HandsOf(N, d, id) + B[c][k][id] = HandsOf(B, d, id) + a[id]
        BY <1>4, <2>4, <3>1
      <3>4. HandsOf(N, d, id) = HandsOf(B, d, id) + Multi!Amount(b, id)
        BY <1>1, <1>4, <2>1, <2>2, <3>3
      <3> QED  BY <2>1, <2>2, <2>4, <3>2, <3>4 DEF Part
    <2>5. CASE d # c
      BY <1>1, <1>4, <2>1, <2>2, <2>5 DEF Part
    <2> QED  BY <2>3, <2>4, <2>5
  <1> QED  BY <1>4, <1>5 DEF Moves

LEMMA MinusMoves ==
  ASSUME Multi!ERC1155Assumption, NEW B \in Balances, NEW c \in Chains, NEW k \in Multi!Holders,
         NEW b, Sound(b), NEW N, N = With(B, c, k, Multi!Minus(B[c][k], b)),
         \A id \in IDs : Multi!Amount(b, id) <= B[c][k][id]
  PROVE  Moves(B, N, c, KindOf(k), "none", b)
  <1> DEFINE a == Multi!Minus(B[c][k], b)
  <1>1. /\ \A id \in IDs : B[c][k][id] \in Nat /\ Multi!Amount(b, id) \in Nat
        /\ \A id \in IDs : a[id] = B[c][k][id] - Multi!Amount(b, id)
        /\ a = [id \in IDs |-> a[id]]
    BY AmountNat DEF Balances, Multi!Amounts, Multi!Minus
  <1>2. a \in Multi!Amounts
    BY <1>1 DEF Multi!Amounts
  <1>3. N = With(B, c, k, a)
    OBVIOUS
  <1> HIDE DEF a
  <1>4. /\ N \in Balances
        /\ \A d \in Chains, j \in Multi!Holders :
              N[d][j] = IF d = c /\ j = k THEN a ELSE B[d][j]
        /\ \A d \in Chains, id \in IDs :
              /\ HandsOf(N, d, id) \in Nat
              /\ d # c \/ k \notin BatchUsers => HandsOf(N, d, id) = HandsOf(B, d, id)
              /\ d = c /\ k \in BatchUsers =>
                    HandsOf(N, d, id) + B[c][k][id] = HandsOf(B, d, id) + a[id]
    BY <1>2, <1>3, HolderChanges
  <1>5. ASSUME NEW d \in Chains, NEW id \in IDs
        PROVE  /\ HandsOf(N, d, id) + Part(d = c /\ KindOf(k) = "user", Multi!Amount(b, id))
                    = HandsOf(B, d, id) + Part(d = c /\ "none" = "user", Multi!Amount(b, id))
               /\ N[d][Handler][id] + Part(d = c /\ KindOf(k) = "handler", Multi!Amount(b, id))
                    = B[d][Handler][id] + Part(d = c /\ "none" = "handler", Multi!Amount(b, id))
    <2>1. HandsOf(B, d, id) \in Nat /\ B[d][Handler][id] \in Nat /\ Handler \in Multi!Holders
      BY HandsNat, HolderKinds
    <2>2. /\ B[c][k][id] \in Nat /\ a[id] \in Nat /\ Multi!Amount(b, id) \in Nat
          /\ KindOf(k) = "user" <=> k \in BatchUsers
          /\ KindOf(k) = "handler" <=> k = Handler
          /\ Handler \notin BatchUsers
      BY <1>1, <1>2, HolderKinds DEF Multi!Amounts
    <2>3. CASE d = c /\ k = Handler
      BY <1>1, <1>4, <2>1, <2>2, <2>3 DEF Part
    <2>4. CASE d = c /\ k # Handler
      <3>1. k \in BatchUsers
        BY <2>4 DEF Multi!Holders
      <3> QED  BY <1>1, <1>4, <2>1, <2>2, <2>4, <3>1 DEF Part
    <2>5. CASE d # c
      BY <1>1, <1>4, <2>1, <2>2, <2>5 DEF Part
    <2> QED  BY <2>3, <2>4, <2>5
  <1> QED  BY <1>4, <1>5 DEF Moves

LEMMA MovesCompose ==
  ASSUME Multi!ERC1155Assumption, NEW B \in Balances, NEW M, NEW N, NEW c \in Chains,
         NEW out, NEW in, NEW b, Sound(b),
         Moves(B, M, c, out, "none", b), Moves(M, N, c, "none", in, b)
  PROVE  Moves(B, N, c, out, in, b)
  <1>1. M \in Balances /\ N \in Balances
    BY DEF Moves
  <1>2. ASSUME NEW d \in Chains, NEW id \in IDs
        PROVE  /\ HandsOf(N, d, id) + Part(d = c /\ out = "user", Multi!Amount(b, id))
                    = HandsOf(B, d, id) + Part(d = c /\ in = "user", Multi!Amount(b, id))
               /\ N[d][Handler][id] + Part(d = c /\ out = "handler", Multi!Amount(b, id))
                    = B[d][Handler][id] + Part(d = c /\ in = "handler", Multi!Amount(b, id))
    <2>1. /\ HandsOf(B, d, id) \in Nat /\ B[d][Handler][id] \in Nat
          /\ HandsOf(M, d, id) \in Nat /\ M[d][Handler][id] \in Nat
          /\ HandsOf(N, d, id) \in Nat /\ N[d][Handler][id] \in Nat
      BY <1>1, HandsNat
    <2>2. Multi!Amount(b, id) \in Nat
      BY AmountNat
    <2> QED  BY <2>1, <2>2 DEF Moves, Part
  <1> QED  BY <1>1, <1>2 DEF Moves

(* A transfer of the token, also to oneself.                                *)
LEMMA TransferMoves ==
  ASSUME Multi!ERC1155Assumption, balance \in Balances, NEW c \in Chains,
         NEW from \in Multi!Holders, NEW to \in Multi!Holders, NEW b \in Batches,
         balance' \in Multi!safeBatchTransferFrom(c, from, to, b)
  PROVE  Sound(b) /\ Moves(balance, balance', c, KindOf(from), KindOf(to), b)
  <1>1. CASE from # to
    <2>1. PICK M \in Multi!burnBatch(c, from, b) : balance' = With(M, c, to, Multi!Plus(M[c][to], b))
      BY <1>1 DEF Multi!safeBatchTransferFrom, With
    <2>2. Sound(b) /\ Moves(balance, M, c, KindOf(from), "none", b)
      <3>1. /\ Multi!SameLength(b) /\ M = With(balance, c, from, Multi!Minus(balance[c][from], b))
            /\ \A id \in IDs : Multi!Amount(b, id) <= balance[c][from][id]
        BY <2>1 DEF Multi!burnBatch, With
      <3> QED  BY <3>1, MinusMoves DEF Sound
    <2>3. M \in Balances
      BY <2>2 DEF Moves
    <2>4. Moves(M, balance', c, "none", KindOf(to), b)
      BY <2>1, <2>2, <2>3, PlusMoves
    <2> QED  BY <2>2, <2>4, MovesCompose
  <1>2. CASE from = to
    <2>1. Sound(b) /\ balance' = balance
      BY <1>2 DEF Multi!safeBatchTransferFrom, Sound
    <2> QED  BY <1>2, <2>1 DEF Moves
  <1> QED  BY <1>1, <1>2

(* A deposit takes a batch from the users of its chain, an execution gives  *)
(* one to its recipient; unless the token is burnable, the handler has it   *)
(* in between.                                                              *)
LEMMA TakeMoves ==
  ASSUME Multi!ERC1155Assumption, balance \in Balances, NEW c \in Chains, NEW user \in BatchUsers,
         NEW b \in Batches, balance' \in Multi!Take(c, user, b)
  PROVE  /\ Sound(b)
         /\ \E in \in {"none", "handler"} :
               /\ Moves(balance, balance', c, "user", in, b)
               /\ ~listing[c].burnable => in = "handler"
  <1>1. user \in Multi!Holders /\ Handler \in Multi!Holders /\ KindOf(user) = "user"
        /\ KindOf(Handler) = "handler"
    BY DEF Multi!Holders, KindOf, Multi!ERC1155Assumption
  <1>2. CASE listing[c].burnable
    <2>1. /\ Sound(b) /\ balance' = With(balance, c, user, Multi!Minus(balance[c][user], b))
          /\ \A id \in IDs : Multi!Amount(b, id) <= balance[c][user][id]
      BY <1>2 DEF Multi!Take, Multi!burnBatch, Sound, With
    <2>2. Moves(balance, balance', c, "user", "none", b)
      BY <1>1, <2>1, MinusMoves
    <2> QED  BY <1>2, <2>1, <2>2
  <1>3. CASE ~listing[c].burnable
    <2>1. balance' \in Multi!safeBatchTransferFrom(c, user, Handler, b)
      BY <1>3 DEF Multi!Take
    <2> QED  BY <1>1, <2>1, TransferMoves
  <1> QED  BY <1>2, <1>3

LEMMA GiveMoves ==
  ASSUME Multi!ERC1155Assumption, balance \in Balances, NEW c \in Chains,
         NEW recipient \in Multi!Holders, NEW b \in Batches,
         balance' \in Multi!Given(c, recipient, b)
  PROVE  /\ Sound(b)
         /\ \E out \in {"none", "handler"} :
               /\ Moves(balance, balance', c, out, KindOf(recipient), b)
               /\ ~listing[c].burnable => out = "handler"
  <1>1. Handler \in Multi!Holders /\ KindOf(Handler) = "handler"
    BY DEF Multi!Holders, KindOf
  <1>2. CASE listing[c].burnable
    <2>1. Sound(b) /\ balance' = With(balance, c, recipient, Multi!Plus(balance[c][recipient], b))
      BY <1>2 DEF Multi!Given, Multi!Give, Multi!mintBatch, Sound, With
    <2>2. Moves(balance, balance', c, "none", KindOf(recipient), b)
      BY <2>1, PlusMoves
    <2> QED  BY <1>2, <2>1, <2>2
  <1>3. CASE ~listing[c].burnable
    <2>1. balance' \in Multi!safeBatchTransferFrom(c, Handler, recipient, b)
      BY <1>3 DEF Multi!Given, Multi!Give
    <2> QED  BY <1>1, <2>1, TransferMoves
  <1> QED  BY <1>2, <1>3
-----------------------------------------------------------------------------
(* The amounts of an ID in the transfers of one state.                      *)
AmountsIn(T, id) == [n \in DOMAIN T |-> Multi!Amount(T[n].batch, id)]

InState(T, state) == {n \in DOMAIN T : T[n].state = state}

SumIn(T, state, id) == Total(AmountsIn(T, id), InState(T, state))

LEMMA SumNat ==
  ASSUME Multi!ERC1155Assumption, NEW T \in Seq(Multi!Transfer), NEW state, NEW id
  PROVE  /\ Summable(AmountsIn(T, id), InState(T, state))
         /\ SumIn(T, state, id) \in Nat
         /\ \A n \in DOMAIN T : AmountsIn(T, id)[n] \in Nat
  <1>1. ASSUME NEW n \in DOMAIN T PROVE AmountsIn(T, id)[n] \in Nat
    <2>1. T[n] \in Multi!Transfer
      OBVIOUS
    <2>2. Sound(T[n].batch)
      BY <2>1 DEF Multi!Transfer, Sound
    <2> QED  BY <2>2, AmountNat DEF AmountsIn
  <1>2. IsFiniteSet(InState(T, state))
    <2>1. DOMAIN T = 1 .. Len(T) /\ Len(T) \in Nat
      OBVIOUS
    <2>2. IsFiniteSet(1 .. Len(T))
      BY <2>1, FS_Interval
    <2>3. InState(T, state) \subseteq 1 .. Len(T)
      BY <2>1 DEF InState
    <2> QED  BY <2>2, <2>3, FS_Subset
  <1>3. Summable(AmountsIn(T, id), InState(T, state))
    BY <1>1, <1>2 DEF Summable, InState
  <1> QED  BY <1>1, <1>3, TotalNat DEF SumIn

Appended(T, N, t) == N = Append(T, t)

Settled(T, N, n, state) == N = [T EXCEPT ![n].state = state]

LEMMA SumAppended ==
  ASSUME Multi!ERC1155Assumption, NEW T \in Seq(Multi!Transfer), NEW t \in Multi!Transfer,
         NEW N, Appended(T, N, t)
  PROVE  /\ N \in Seq(Multi!Transfer)
         /\ \A state, id :
               /\ t.state = state => SumIn(N, state, id) = SumIn(T, state, id) + Multi!Amount(t.batch, id)
               /\ t.state # state => SumIn(N, state, id) = SumIn(T, state, id)
  <1>1. ASSUME NEW state, NEW id
        PROVE  /\ N \in Seq(Multi!Transfer)
               /\ t.state = state => SumIn(N, state, id) = SumIn(T, state, id) + Multi!Amount(t.batch, id)
               /\ t.state # state => SumIn(N, state, id) = SumIn(T, state, id)
    <2> DEFINE m == Len(T) + 1
               f == AmountsIn(T, id)
               g == AmountsIn(N, id)
               S == InState(T, state)
    <2>1. /\ N \in Seq(Multi!Transfer) /\ m \notin DOMAIN T
          /\ DOMAIN N = DOMAIN T \union {m} /\ N[m] = t
          /\ \A n \in DOMAIN T : N[n] = T[n]
      BY DEF Appended
    <2> HIDE DEF m
    <2>2. /\ \A n \in S : f[n] = g[n]
          /\ m \notin S /\ g[m] = Multi!Amount(t.batch, id)
          /\ InState(N, state) = IF t.state = state THEN S \union {m} ELSE S
      BY <2>1 DEF AmountsIn, InState
    <2>3. /\ Summable(g, InState(N, state)) /\ Summable(f, S) /\ SumIn(T, state, id) \in Nat
          /\ g[m] \in Nat
      BY <2>1, SumNat
    <2> HIDE DEF f, g, S
    <2>4. Total(f, S) = Total(g, S)
      BY <2>2, TotalSame
    <2>5. Summable(g, S)
      BY <2>2, <2>3 DEF Summable
    <2>6. Total(g, S \union {m}) = Total(g, S) + g[m]
      BY <2>2, <2>3, <2>5, TotalAdd
    <2>7. SumIn(N, state, id) = Total(g, InState(N, state)) /\ SumIn(T, state, id) = Total(f, S)
      BY DEF SumIn, f, g, S
    <2> QED  BY <2>1, <2>2, <2>3, <2>4, <2>6, <2>7
  <1> QED  BY <1>1

LEMMA SumSettled ==
  ASSUME Multi!ERC1155Assumption, NEW T \in Seq(Multi!Transfer), NEW n \in DOMAIN T,
         T[n].state = "Pending", NEW state \in {"Delivered", "Cancelled"},
         NEW N, Settled(T, N, n, state)
  PROVE  /\ N \in Seq(Multi!Transfer)
         /\ \A id :
               /\ SumIn(N, "Pending", id) + Multi!Amount(T[n].batch, id) = SumIn(T, "Pending", id)
               /\ state = "Cancelled" => SumIn(N, "Cancelled", id)
                     = SumIn(T, "Cancelled", id) + Multi!Amount(T[n].batch, id)
               /\ state # "Cancelled" => SumIn(N, "Cancelled", id) = SumIn(T, "Cancelled", id)
  <1>1. ASSUME NEW id
        PROVE  /\ N \in Seq(Multi!Transfer)
               /\ SumIn(N, "Pending", id) + Multi!Amount(T[n].batch, id) = SumIn(T, "Pending", id)
               /\ state = "Cancelled" => SumIn(N, "Cancelled", id)
                     = SumIn(T, "Cancelled", id) + Multi!Amount(T[n].batch, id)
               /\ state # "Cancelled" => SumIn(N, "Cancelled", id) = SumIn(T, "Cancelled", id)
    <2> DEFINE t == [T[n] EXCEPT !.state = state]
               f == AmountsIn(T, id)
               g == AmountsIn(N, id)
               P == InState(T, "Pending")
               C == InState(T, "Cancelled")
    <2>1. T[n] \in Multi!Transfer
      OBVIOUS
    <2>2. t \in Multi!Transfer /\ t.batch = T[n].batch /\ t.state = state
      BY <2>1 DEF Multi!Transfer
    <2>3. N = [T EXCEPT ![n] = t]
      BY DEF Settled
    <2> HIDE DEF t
    <2>4. /\ N \in Seq(Multi!Transfer) /\ DOMAIN N = DOMAIN T /\ N[n] = t
          /\ \A m \in DOMAIN T : m # n => N[m] = T[m]
      BY <2>2, <2>3
    <2>5. /\ f = g /\ f[n] = Multi!Amount(T[n].batch, id)
          /\ n \in P /\ n \notin C
          /\ InState(N, "Pending") = P \ {n}
          /\ InState(N, "Cancelled") = IF state = "Cancelled" THEN C \union {n} ELSE C
      <3>1. f = g
        BY <2>2, <2>4 DEF AmountsIn
      <3>2. /\ f[n] = Multi!Amount(T[n].batch, id) /\ n \in P /\ n \notin C
        BY DEF AmountsIn, InState
      <3>3. /\ InState(N, "Pending") = P \ {n}
            /\ InState(N, "Cancelled") = IF state = "Cancelled" THEN C \union {n} ELSE C
        BY <2>2, <2>4 DEF InState
      <3> QED  BY <3>1, <3>2, <3>3
    <2>6. /\ Summable(f, P) /\ Summable(f, C) /\ SumIn(T, "Cancelled", id) \in Nat
          /\ f[n] \in Nat
      BY SumNat
    <2>7. /\ SumIn(T, "Pending", id) = Total(f, P) /\ SumIn(T, "Cancelled", id) = Total(f, C)
          /\ SumIn(N, "Pending", id) = Total(g, InState(N, "Pending"))
          /\ SumIn(N, "Cancelled", id) = Total(g, InState(N, "Cancelled"))
      BY DEF SumIn
    <2> HIDE DEF f, g, P, C
    <2>8. Total(f, P) = Total(f, P \ {n}) + f[n] /\ Total(f, P \ {n}) \in Nat
      BY <2>5, <2>6, TotalRemove
    <2>9. Total(f, C \union {n}) = Total(f, C) + f[n]
      BY <2>5, <2>6, TotalAdd
    <2>10. SumIn(N, "Pending", id) + Multi!Amount(T[n].batch, id) = SumIn(T, "Pending", id)
      BY <2>5, <2>7, <2>8
    <2>11. /\ state = "Cancelled" => SumIn(N, "Cancelled", id)
                 = SumIn(T, "Cancelled", id) + Multi!Amount(T[n].batch, id)
           /\ state # "Cancelled" => SumIn(N, "Cancelled", id) = SumIn(T, "Cancelled", id)
      BY <2>5, <2>6, <2>7, <2>9
    <2> QED  BY <2>4, <2>10, <2>11
  <1> QED  BY <1>1
-----------------------------------------------------------------------------
(* The invariant in these terms.                                            *)
FirstSupply == Supply * Cardinality(BatchUsers)

Accounted(id) ==
    HandsOf(balance, Home, id) + HandsOf(balance, Multi!Other(Home), id)
        + SumIn(transfers, "Pending", id) + SumIn(transfers, "Cancelled", id) + stray[id]
    = FirstSupply + withdrawn[id]

Kept(id) == HandsOf(balance, Home, id) + balance[Home][Handler][id] = FirstSupply

LEMMA MultiInvRead ==
  ASSUME Multi!ERC1155IInv
  PROVE  /\ Multi!ERC1155TypeOK /\ balance \in Balances
         /\ \A id \in IDs : Accounted(id)
         /\ ~listing[Home].burnable => \A id \in IDs : Kept(id)
  BY MultiTotal DEF Multi!ERC1155IInv, Multi!AmountsAccounted, Multi!KeptAtHome, Multi!ERC1155TypeOK,
     Balances, Accounted, Kept, FirstSupply, HandsOf, SumIn, AmountsIn, InState, Multi!InHands,
     Multi!InTransfers

LEMMA MultiInvWritten ==
  ASSUME Multi!ERC1155TypeOK',
         \A id \in IDs : Accounted(id)',
         ~listing'[Home].burnable => \A id \in IDs : Kept(id)'
  PROVE  Multi!ERC1155IInv'
  BY MultiTotal DEF Multi!ERC1155IInv, Multi!AmountsAccounted, Multi!KeptAtHome,
     Accounted, Kept, FirstSupply, HandsOf, SumIn, AmountsIn, InState, Multi!InHands,
     Multi!InTransfers

LEMMA FirstSupplyNat ==
  ASSUME Multi!ERC1155Assumption
  PROVE  FirstSupply \in Nat
  <1>1. Supply \in Nat /\ IsFiniteSet(BatchUsers)
    BY MultiTotal DEF Multi!ERC1155Assumption
  <1>2. Cardinality(BatchUsers) \in Nat
    BY <1>1, FS_CardinalityType
  <1> QED  BY <1>1, <1>2 DEF FirstSupply

(* What users have on both chains together, and what the users and the      *)
(* handler of Home have, before and after a movement.                       *)
LEMMA MovesCount ==
  ASSUME Multi!ERC1155Assumption, balance \in Balances, NEW c \in Chains,
         NEW out \in Kinds, NEW in \in Kinds, NEW b, Sound(b),
         Moves(balance, balance', c, out, in, b), NEW id \in IDs
  PROVE  LET n == Multi!Amount(b, id)
             o == Multi!Other(Home)
         IN  /\ n \in Nat
             /\ HandsOf(balance, Home, id) \in Nat /\ HandsOf(balance, o, id) \in Nat
             /\ HandsOf(balance', Home, id) \in Nat /\ HandsOf(balance', o, id) \in Nat
             /\ HandsOf(balance', Home, id) + HandsOf(balance', o, id) + Part(out = "user", n)
                   = HandsOf(balance, Home, id) + HandsOf(balance, o, id) + Part(in = "user", n)
             /\ (c = Home => out # "none" /\ in # "none") /\ Kept(id) => Kept(id)'
  <1> DEFINE n == Multi!Amount(b, id)
             o == Multi!Other(Home)
             H == HandsOf(balance, Home, id)
             O == HandsOf(balance, o, id)
             K == balance[Home][Handler][id]
             H1 == HandsOf(balance', Home, id)
             O1 == HandsOf(balance', o, id)
             K1 == balance'[Home][Handler][id]
  <1>1. /\ Home \in Chains /\ o \in Chains /\ o # Home /\ c \in {Home, o}
    BY TwoChains
  <1>2. balance' \in Balances
    BY DEF Moves
  <1>3. /\ n \in Nat /\ H \in Nat /\ O \in Nat /\ K \in Nat
        /\ H1 \in Nat /\ O1 \in Nat /\ K1 \in Nat
    BY <1>1, <1>2, AmountNat, HandsNat
  <1>4. /\ H1 + Part(Home = c /\ out = "user", n) = H + Part(Home = c /\ in = "user", n)
        /\ O1 + Part(o = c /\ out = "user", n) = O + Part(o = c /\ in = "user", n)
        /\ K1 + Part(Home = c /\ out = "handler", n) = K + Part(Home = c /\ in = "handler", n)
    BY <1>1 DEF Moves
  <1> HIDE DEF n, H, O, K, H1, O1, K1, o
  <1>5. H1 + O1 + Part(out = "user", n) = H + O + Part(in = "user", n)
    BY <1>1, <1>3, <1>4 DEF Part
  <1>6. (c = Home => out # "none" /\ in # "none") => H1 + K1 = H + K
    BY <1>1, <1>3, <1>4 DEF Part, Kinds
  <1>7. Kept(id) <=> H + K = FirstSupply
    BY DEF Kept, H, K
  <1>8. Kept(id)' <=> H1 + K1 = FirstSupply
    BY DEF Kept, H1, K1, FirstSupply
  <1> QED  BY <1>3, <1>5, <1>6, <1>7, <1>8 DEF n, o, H, O, H1, O1

LEMMA MultiStart ==
  ASSUME Multi!ERC1155Assumption, Multi!Init
  PROVE  Multi!ERC1155IInv
  <1>1. Multi!None \in Multi!Amounts /\ [id \in IDs |-> Supply] \in Multi!Amounts
    BY DEF Multi!None, Multi!Amounts, Multi!ERC1155Assumption
  <1>2. Multi!ERC1155TypeOK
    BY <1>1 DEF Multi!Init, Multi!ERC1155TypeOK, Multi!Listing
  <1>3. /\ IsFiniteSet(BatchUsers) /\ Supply \in Nat /\ Handler \notin BatchUsers
        /\ Home \in Chains /\ Multi!Other(Home) \in Chains /\ Multi!Other(Home) # Home
    BY MultiTotal, TwoChains DEF Multi!ERC1155Assumption
  <1>4. ASSUME NEW id \in IDs
        PROVE  /\ HandsOf(balance, Home, id) = Supply * Cardinality(BatchUsers)
               /\ HandsOf(balance, Multi!Other(Home), id) = 0
               /\ balance[Home][Handler][id] = 0
    <2>1. \A u \in BatchUsers : /\ balance[Home][u][id] = Supply
                           /\ balance[Multi!Other(Home)][u][id] = 0
      BY <1>3 DEF Multi!Init, Multi!Holders, Multi!None
    <2>2. balance[Home][Handler][id] = 0
      BY <1>3 DEF Multi!Init, Multi!Holders, Multi!None
    <2>3. ASSUME NEW f \in [BatchUsers -> Nat], NEW n \in Nat, \A u \in BatchUsers : f[u] = n
          PROVE  Total(f, BatchUsers) = n * Cardinality(BatchUsers)
      BY <1>3, <2>3, TotalConstant
    <2>4. /\ Supply \in Nat /\ 0 \in Nat
          /\ [u \in BatchUsers |-> balance[Home][u][id]] \in [BatchUsers -> Nat]
          /\ [u \in BatchUsers |-> balance[Multi!Other(Home)][u][id]] \in [BatchUsers -> Nat]
      BY <1>3, <2>1
    <2>5. /\ HandsOf(balance, Home, id) = Supply * Cardinality(BatchUsers)
          /\ HandsOf(balance, Multi!Other(Home), id) = 0 * Cardinality(BatchUsers)
      BY <1>3, <2>1, <2>3, <2>4 DEF HandsOf
    <2>6. Cardinality(BatchUsers) \in Nat
      BY <1>3, FS_CardinalityType
    <2> QED  BY <2>2, <2>5, <2>6
  <1>5. ASSUME NEW id \in IDs, NEW state PROVE SumIn(transfers, state, id) = 0
    <2>1. InState(transfers, state) = {}
      BY DEF Multi!Init, InState
    <2> QED  BY <2>1, TotalEmpty DEF SumIn
  <1>6. Supply * Cardinality(BatchUsers) \in Nat
    BY FirstSupplyNat DEF FirstSupply
  <1>7. \A id \in IDs : stray[id] = 0 /\ withdrawn[id] = 0
    BY DEF Multi!Init, Multi!None
  <1>8. ASSUME NEW id \in IDs PROVE Accounted(id) /\ Kept(id)
    <2>1. /\ HandsOf(balance, Home, id) = FirstSupply /\ FirstSupply \in Nat
          /\ HandsOf(balance, Multi!Other(Home), id) = 0 /\ balance[Home][Handler][id] = 0
      BY <1>4, <1>6 DEF FirstSupply
    <2> QED  BY <1>5, <1>7, <2>1 DEF Accounted, Kept
  <1> QED
    BY <1>2, <1>8, MultiTotal DEF Multi!ERC1155IInv, Multi!AmountsAccounted, Multi!KeptAtHome,
       Accounted, Kept, FirstSupply, HandsOf, SumIn, AmountsIn, InState, Multi!InHands,
       Multi!InTransfers

(* What an admin or a giver adds to stray or to withdrawn.                  *)
LEMMA PlusAmounts ==
  ASSUME Multi!ERC1155Assumption, NEW a \in Multi!Amounts, NEW b, Sound(b)
  PROVE  /\ Multi!Plus(a, b) \in Multi!Amounts
         /\ \A id \in IDs : Multi!Plus(a, b)[id] = a[id] + Multi!Amount(b, id)
  BY AmountNat DEF Multi!Amounts, Multi!Plus

LEMMA MultiTypes ==
  ASSUME Multi!ERC1155TypeOK, balance' \in Balances, transfers' \in Seq(Multi!Transfer),
         listing' = listing, stray' \in Multi!Amounts, withdrawn' \in Multi!Amounts
  PROVE  Multi!ERC1155TypeOK'
  BY DEF Multi!ERC1155TypeOK, Balances

(* A batch moves, and what is neither in hands nor with the handlers for a   *)
(* deposit takes it up or gives it back.                                    *)
UsersPart(kind, n) == IF kind = "user" THEN n ELSE 0

Loose(id) == SumIn(transfers, "Pending", id) + SumIn(transfers, "Cancelled", id) + stray[id]

LEMMA Balanced ==
  ASSUME NEW h \in Nat, NEW o \in Nat, NEW h1 \in Nat, NEW o1 \in Nat, NEW from \in Nat, NEW to \in Nat,
         NEW l \in Nat, NEW l1 \in Nat, NEW w \in Nat, NEW w1 \in Nat, NEW f \in Nat,
         h + o + l = f + w, h1 + o1 + from = h + o + to, to + l1 + w = from + l + w1
  PROVE  h1 + o1 + l1 = f + w1
  OBVIOUS

LEMMA MultiMove ==
  ASSUME Multi!ERC1155Assumption, Multi!ERC1155IInv, Multi!ERC1155TypeOK', listing' = listing,
         NEW c \in Chains, NEW out \in Kinds, NEW in \in Kinds, NEW b, Sound(b),
         Moves(balance, balance', c, out, in, b),
         ~listing[c].burnable => out # "none" /\ in # "none",
         \A id \in IDs :
            UsersPart(in, Multi!Amount(b, id)) + Loose(id)' + withdrawn[id]
              = UsersPart(out, Multi!Amount(b, id)) + Loose(id) + withdrawn'[id]
  PROVE  Multi!ERC1155IInv'
  <1>1. /\ Multi!ERC1155TypeOK /\ balance \in Balances /\ transfers \in Seq(Multi!Transfer)
        /\ stray \in Multi!Amounts /\ withdrawn \in Multi!Amounts
        /\ \A id \in IDs : Accounted(id)
        /\ ~listing[Home].burnable => \A id \in IDs : Kept(id)
    BY MultiInvRead DEF Multi!ERC1155TypeOK
  <1>2. /\ transfers' \in Seq(Multi!Transfer)
        /\ stray' \in Multi!Amounts /\ withdrawn' \in Multi!Amounts
    BY DEF Multi!ERC1155TypeOK
  <1>3. ASSUME NEW id \in IDs
        PROVE  Accounted(id)' /\ (~listing'[Home].burnable => Kept(id)')
    <2> DEFINE n == Multi!Amount(b, id)
               o == Multi!Other(Home)
    <2>1. /\ n \in Nat
          /\ HandsOf(balance, Home, id) \in Nat /\ HandsOf(balance, o, id) \in Nat
          /\ HandsOf(balance', Home, id) \in Nat /\ HandsOf(balance', o, id) \in Nat
          /\ HandsOf(balance', Home, id) + HandsOf(balance', o, id) + UsersPart(out, n)
                = HandsOf(balance, Home, id) + HandsOf(balance, o, id) + UsersPart(in, n)
          /\ (c = Home => out # "none" /\ in # "none") /\ Kept(id) => Kept(id)'
      BY <1>1, MovesCount DEF Part, UsersPart
    <2>2. /\ SumIn(transfers, "Pending", id) \in Nat /\ SumIn(transfers, "Cancelled", id) \in Nat
          /\ stray[id] \in Nat /\ withdrawn[id] \in Nat /\ FirstSupply \in Nat
          /\ SumIn(transfers', "Pending", id) \in Nat /\ SumIn(transfers', "Cancelled", id) \in Nat
          /\ stray'[id] \in Nat /\ withdrawn'[id] \in Nat
      BY <1>1, <1>2, SumNat, FirstSupplyNat DEF Multi!Amounts
    <2>3. /\ UsersPart(in, n) \in Nat /\ UsersPart(out, n) \in Nat
          /\ UsersPart(in, n) + Loose(id)' + withdrawn[id]
                = UsersPart(out, n) + Loose(id) + withdrawn'[id]
      BY <2>1 DEF UsersPart
    <2>4. /\ Loose(id) = SumIn(transfers, "Pending", id) + SumIn(transfers, "Cancelled", id) + stray[id]
          /\ Loose(id)' = SumIn(transfers', "Pending", id) + SumIn(transfers', "Cancelled", id)
                            + stray'[id]
      BY DEF Loose
    <2>8. HandsOf(balance, Home, id) + HandsOf(balance, o, id) + Loose(id) = FirstSupply + withdrawn[id]
      BY <1>1, <2>1, <2>2, <2>4 DEF Accounted
    <2> HIDE DEF n, o
    <2>5. Loose(id) \in Nat /\ Loose(id)' \in Nat
      BY <2>2, <2>4
    <2>6. Accounted(id)'
      <3>1. HandsOf(balance', Home, id) + HandsOf(balance', o, id) + Loose(id)' = FirstSupply + withdrawn'[id]
        BY <2>1, <2>2, <2>3, <2>5, <2>8, Balanced
      <3>2. HandsOf(balance', Home, id) + HandsOf(balance', o, id) + Loose(id)'
              = HandsOf(balance', Home, id) + HandsOf(balance', o, id) + SumIn(transfers', "Pending", id)
                   + SumIn(transfers', "Cancelled", id) + stray'[id]
        BY <2>1, <2>2, <2>4
      <3> QED  BY <3>1, <3>2 DEF Accounted, FirstSupply, Multi!Other, o
    <2>7. ~listing'[Home].burnable => Kept(id)'
      BY <1>1, <2>1
    <2> QED  BY <2>6, <2>7
  <1> QED  BY <1>3, MultiInvWritten

LEMMA MultiDepositSound ==
  ASSUME Multi!ERC1155Assumption, Multi!ERC1155IInv,
         NEW c \in Chains, NEW user \in BatchUsers, NEW b \in Batches, NEW to \in Multi!Holders,
         Multi!deposit(c, user, b, to)
  PROVE  Multi!ERC1155IInv'
  <1> DEFINE t == [to |-> Multi!Other(c), batch |-> b, recipient |-> to, state |-> "Pending"]
  <1>1. /\ Multi!ERC1155TypeOK /\ balance \in Balances /\ transfers \in Seq(Multi!Transfer)
        /\ stray \in Multi!Amounts /\ withdrawn \in Multi!Amounts
    BY MultiInvRead DEF Multi!ERC1155TypeOK
  <1>2. /\ balance' \in Multi!Take(c, user, b) /\ Appended(transfers, transfers', t)
        /\ listing' = listing /\ stray' = stray /\ withdrawn' = withdrawn
    BY DEF Multi!deposit, Appended
  <1>3. Sound(b)
    BY <1>1, <1>2, TakeMoves
  <1>4. t \in Multi!Transfer /\ t.batch = b /\ t.state = "Pending"
    BY <1>3, TwoChains DEF Multi!Transfer, Sound
  <1> HIDE DEF t
  <1>5. PICK in \in {"none", "handler"} :
           /\ Moves(balance, balance', c, "user", in, b)
           /\ ~listing[c].burnable => in = "handler"
    BY <1>1, <1>2, TakeMoves
  <1>6. Multi!ERC1155TypeOK'
    BY <1>1, <1>2, <1>4, <1>5, SumAppended, MultiTypes DEF Moves
  <1>7. ASSUME NEW id \in IDs
        PROVE  UsersPart(in, Multi!Amount(b, id)) + Loose(id)' + withdrawn[id]
                 = UsersPart("user", Multi!Amount(b, id)) + Loose(id) + withdrawn'[id]
    <2>1. /\ SumIn(transfers', "Pending", id) = SumIn(transfers, "Pending", id) + Multi!Amount(b, id)
          /\ SumIn(transfers', "Cancelled", id) = SumIn(transfers, "Cancelled", id)
      <3>1. \A st, i :
               /\ t.state = st => SumIn(transfers', st, i) = SumIn(transfers, st, i) + Multi!Amount(t.batch, i)
               /\ t.state # st => SumIn(transfers', st, i) = SumIn(transfers, st, i)
        BY <1>1, <1>2, <1>4, SumAppended
      <3>2. t.state # "Cancelled" /\ t.state = "Pending"
        BY <1>4
      <3> QED  BY <1>4, <3>1, <3>2
    <2>2. \A state : SumIn(transfers, state, id) \in Nat
      BY <1>1, SumNat
    <2>3. Multi!Amount(b, id) \in Nat /\ stray[id] \in Nat /\ withdrawn[id] \in Nat
      BY <1>1, <1>3, AmountNat DEF Multi!Amounts
    <2> QED  BY <1>2, <1>4, <2>1, <2>2, <2>3 DEF UsersPart, Loose
  <1>8. "user" \in Kinds /\ in \in Kinds
    BY DEF Kinds
  <1> QED  BY <1>2, <1>3, <1>5, <1>6, <1>7, <1>8, MultiMove

LEMMA MultiExecuteSound ==
  ASSUME Multi!ERC1155Assumption, Multi!ERC1155IInv,
         NEW n \in DOMAIN transfers, Multi!executeProposal(n)
  PROVE  Multi!ERC1155IInv'
  <1> DEFINE t == transfers[n]
             b == t.batch
             in == KindOf(t.recipient)
  <1>1. /\ Multi!ERC1155TypeOK /\ balance \in Balances /\ transfers \in Seq(Multi!Transfer)
        /\ stray \in Multi!Amounts /\ withdrawn \in Multi!Amounts /\ t \in Multi!Transfer
    BY MultiInvRead DEF Multi!ERC1155TypeOK
  <1>2. /\ t.state = "Pending" /\ balance' \in Multi!Given(t.to, t.recipient, b)
        /\ Settled(transfers, transfers', n, "Delivered")
        /\ stray' = IF t.recipient = Handler THEN Multi!Plus(stray, b) ELSE stray
        /\ listing' = listing /\ withdrawn' = withdrawn
    BY DEF Multi!executeProposal, Settled
  <1>3. /\ t.to \in Chains /\ t.recipient \in Multi!Holders /\ b \in Batches /\ Sound(b)
        /\ in \in {"user", "handler"} /\ (in = "handler" <=> t.recipient = Handler)
    BY <1>1, HolderKinds DEF Multi!Transfer, Sound
  <1>4. PICK out \in {"none", "handler"} :
           /\ Moves(balance, balance', t.to, out, in, b)
           /\ ~listing[t.to].burnable => out = "handler"
    BY <1>1, <1>2, <1>3, GiveMoves
  <1>5. /\ transfers' \in Seq(Multi!Transfer)
        /\ \A id : /\ SumIn(transfers', "Pending", id) + Multi!Amount(b, id)
                         = SumIn(transfers, "Pending", id)
                   /\ SumIn(transfers', "Cancelled", id) = SumIn(transfers, "Cancelled", id)
    BY <1>1, <1>2, SumSettled
  <1> HIDE DEF t, b, in
  <1>6. /\ Multi!Plus(stray, b) \in Multi!Amounts
        /\ \A id \in IDs : Multi!Plus(stray, b)[id] = stray[id] + Multi!Amount(b, id)
    BY <1>1, <1>3, PlusAmounts
  <1>7. Multi!ERC1155TypeOK'
    BY <1>1, <1>2, <1>4, <1>5, <1>6, MultiTypes DEF Moves
  <1>8. ASSUME NEW id \in IDs
        PROVE  UsersPart(in, Multi!Amount(b, id)) + Loose(id)' + withdrawn[id]
                 = UsersPart(out, Multi!Amount(b, id)) + Loose(id) + withdrawn'[id]
    <2>1. \A state : SumIn(transfers, state, id) \in Nat /\ SumIn(transfers', state, id) \in Nat
      BY <1>1, <1>5, SumNat
    <2>2. Multi!Amount(b, id) \in Nat /\ stray[id] \in Nat /\ withdrawn[id] \in Nat
      BY <1>1, <1>3, AmountNat DEF Multi!Amounts
    <2>3. /\ in = "user" => stray'[id] = stray[id]
          /\ in = "handler" => stray'[id] = stray[id] + Multi!Amount(b, id)
      BY <1>2, <1>3, <1>6
    <2> QED  BY <1>2, <1>3, <1>5, <2>1, <2>2, <2>3 DEF UsersPart, Loose
  <1>9. in \in Kinds /\ out \in Kinds /\ in # "none"
    BY <1>3 DEF Kinds
  <1> QED  BY <1>2, <1>3, <1>4, <1>7, <1>8, <1>9, MultiMove

LEMMA MultiCancelSound ==
  ASSUME Multi!ERC1155Assumption, Multi!ERC1155IInv,
         NEW n \in DOMAIN transfers, Multi!cancelProposal(n)
  PROVE  Multi!ERC1155IInv'
  <1> DEFINE t == transfers[n]
             b == t.batch
  <1>1. /\ Multi!ERC1155TypeOK /\ balance \in Balances /\ transfers \in Seq(Multi!Transfer)
        /\ stray \in Multi!Amounts /\ withdrawn \in Multi!Amounts /\ t \in Multi!Transfer
    BY MultiInvRead DEF Multi!ERC1155TypeOK
  <1>2. /\ t.state = "Pending" /\ Settled(transfers, transfers', n, "Cancelled")
        /\ balance' = balance /\ listing' = listing /\ stray' = stray /\ withdrawn' = withdrawn
    BY DEF Multi!cancelProposal, Settled
  <1>3. t.to \in Chains /\ Sound(b)
    BY <1>1 DEF Multi!Transfer, Sound
  <1>4. /\ transfers' \in Seq(Multi!Transfer)
        /\ \A id : /\ SumIn(transfers', "Pending", id) + Multi!Amount(b, id)
                         = SumIn(transfers, "Pending", id)
                   /\ SumIn(transfers', "Cancelled", id)
                         = SumIn(transfers, "Cancelled", id) + Multi!Amount(b, id)
    BY <1>1, <1>2, SumSettled
  <1> HIDE DEF t, b
  <1>5. Multi!ERC1155TypeOK'
    BY <1>1, <1>2, <1>4, MultiTypes
  <1>6. Moves(balance, balance', t.to, "user", "user", b)
    BY <1>1, <1>2 DEF Moves
  <1>7. ASSUME NEW id \in IDs
        PROVE  UsersPart("user", Multi!Amount(b, id)) + Loose(id)' + withdrawn[id]
                 = UsersPart("user", Multi!Amount(b, id)) + Loose(id) + withdrawn'[id]
    <2>1. \A state : SumIn(transfers, state, id) \in Nat /\ SumIn(transfers', state, id) \in Nat
      BY <1>1, <1>4, SumNat
    <2>2. Multi!Amount(b, id) \in Nat /\ stray[id] \in Nat /\ withdrawn[id] \in Nat
      BY <1>1, <1>3, AmountNat DEF Multi!Amounts
    <2> QED  BY <1>2, <1>4, <2>1, <2>2 DEF Loose
  <1>8. "user" \in Kinds /\ "user" # "none"
    BY DEF Kinds
  <1> QED  BY <1>2, <1>3, <1>5, <1>6, <1>7, <1>8, MultiMove

LEMMA MultiTransferSound ==
  ASSUME Multi!ERC1155Assumption, Multi!ERC1155IInv,
         NEW c \in Chains, NEW user \in BatchUsers, NEW b \in Batches, NEW to \in Multi!Holders,
         Multi!transferFrom(c, user, to, b)
  PROVE  Multi!ERC1155IInv'
  <1> DEFINE in == KindOf(to)
  <1>1. /\ Multi!ERC1155TypeOK /\ balance \in Balances /\ transfers \in Seq(Multi!Transfer)
        /\ stray \in Multi!Amounts /\ withdrawn \in Multi!Amounts
    BY MultiInvRead DEF Multi!ERC1155TypeOK
  <1>2. /\ balance' \in Multi!safeBatchTransferFrom(c, user, to, b)
        /\ stray' = IF to = Handler THEN Multi!Plus(stray, b) ELSE stray
        /\ transfers' = transfers /\ listing' = listing /\ withdrawn' = withdrawn
    BY DEF Multi!transferFrom
  <1>3. /\ user \in Multi!Holders /\ KindOf(user) = "user"
        /\ in \in {"user", "handler"} /\ (in = "handler" <=> to = Handler)
    BY HolderKinds DEF Multi!Holders
  <1>4. Sound(b) /\ Moves(balance, balance', c, "user", in, b)
    BY <1>1, <1>2, <1>3, TransferMoves
  <1> HIDE DEF in
  <1>5. /\ Multi!Plus(stray, b) \in Multi!Amounts
        /\ \A id \in IDs : Multi!Plus(stray, b)[id] = stray[id] + Multi!Amount(b, id)
    BY <1>1, <1>4, PlusAmounts
  <1>6. Multi!ERC1155TypeOK'
    BY <1>1, <1>2, <1>4, <1>5, MultiTypes DEF Moves
  <1>7. ASSUME NEW id \in IDs
        PROVE  UsersPart(in, Multi!Amount(b, id)) + Loose(id)' + withdrawn[id]
                 = UsersPart("user", Multi!Amount(b, id)) + Loose(id) + withdrawn'[id]
    <2>1. \A state : SumIn(transfers, state, id) \in Nat
      BY <1>1, SumNat
    <2>2. Multi!Amount(b, id) \in Nat /\ stray[id] \in Nat /\ withdrawn[id] \in Nat
      BY <1>1, <1>4, AmountNat DEF Multi!Amounts
    <2>3. /\ in = "user" => stray'[id] = stray[id]
          /\ in = "handler" => stray'[id] = stray[id] + Multi!Amount(b, id)
      BY <1>2, <1>3, <1>5
    <2> QED  BY <1>2, <1>3, <2>1, <2>2, <2>3 DEF UsersPart, Loose
  <1>8. in \in Kinds /\ "user" \in Kinds /\ "user" # "none" /\ in # "none"
    BY <1>3 DEF Kinds
  <1> QED  BY <1>2, <1>4, <1>6, <1>7, <1>8, MultiMove

LEMMA MultiWithdrawSound ==
  ASSUME Multi!ERC1155Assumption, Multi!ERC1155IInv,
         NEW c \in Chains, NEW to \in Multi!Holders, NEW b \in Batches, Multi!withdraw(c, to, b)
  PROVE  Multi!ERC1155IInv'
  <1> DEFINE in == KindOf(to)
  <1>1. /\ Multi!ERC1155TypeOK /\ balance \in Balances /\ transfers \in Seq(Multi!Transfer)
        /\ stray \in Multi!Amounts /\ withdrawn \in Multi!Amounts
    BY MultiInvRead DEF Multi!ERC1155TypeOK
  <1>2. /\ balance' \in Multi!safeBatchTransferFrom(c, Handler, to, b)
        /\ withdrawn' = IF to = Handler THEN withdrawn ELSE Multi!Plus(withdrawn, b)
        /\ transfers' = transfers /\ listing' = listing /\ stray' = stray
    BY DEF Multi!withdraw
  <1>3. /\ Handler \in Multi!Holders /\ KindOf(Handler) = "handler"
        /\ in \in {"user", "handler"} /\ (in = "handler" <=> to = Handler)
    BY HolderKinds
  <1>4. Sound(b) /\ Moves(balance, balance', c, "handler", in, b)
    BY <1>1, <1>2, <1>3, TransferMoves
  <1> HIDE DEF in
  <1>5. /\ Multi!Plus(withdrawn, b) \in Multi!Amounts
        /\ \A id \in IDs : Multi!Plus(withdrawn, b)[id] = withdrawn[id] + Multi!Amount(b, id)
    BY <1>1, <1>4, PlusAmounts
  <1>6. Multi!ERC1155TypeOK'
    BY <1>1, <1>2, <1>4, <1>5, MultiTypes DEF Moves
  <1>7. ASSUME NEW id \in IDs
        PROVE  UsersPart(in, Multi!Amount(b, id)) + Loose(id)' + withdrawn[id]
                 = UsersPart("handler", Multi!Amount(b, id)) + Loose(id) + withdrawn'[id]
    <2>1. \A state : SumIn(transfers, state, id) \in Nat
      BY <1>1, SumNat
    <2>2. Multi!Amount(b, id) \in Nat /\ stray[id] \in Nat /\ withdrawn[id] \in Nat
      BY <1>1, <1>4, AmountNat DEF Multi!Amounts
    <2>3. /\ in = "user" => withdrawn'[id] = withdrawn[id] + Multi!Amount(b, id)
          /\ in = "handler" => withdrawn'[id] = withdrawn[id]
      BY <1>2, <1>3, <1>5
    <2> QED  BY <1>2, <1>3, <2>1, <2>2, <2>3 DEF UsersPart, Loose
  <1>8. in \in Kinds /\ "handler" \in Kinds /\ "handler" # "none" /\ in # "none"
    BY <1>3 DEF Kinds
  <1> QED  BY <1>2, <1>4, <1>6, <1>7, <1>8, MultiMove

(* What is listed changes, but no burnable token ceases to be burnable.     *)
LEMMA MultiListingSound ==
  ASSUME Multi!ERC1155Assumption, Multi!ERC1155IInv, listing' \in [Chains -> Multi!Listing],
         \A c \in Chains : listing[c].burnable => listing'[c].burnable,
         UNCHANGED <<balance, transfers, stray, withdrawn>>
  PROVE  Multi!ERC1155IInv'
  <1>1. /\ Multi!ERC1155TypeOK
        /\ \A id \in IDs : Accounted(id)
        /\ ~listing[Home].burnable => \A id \in IDs : Kept(id)
        /\ Home \in Chains
    BY MultiInvRead, TwoChains
  <1>2. Multi!ERC1155TypeOK'
    BY <1>1 DEF Multi!ERC1155TypeOK
  <1>3. \A id \in IDs : (Accounted(id) => Accounted(id)') /\ (Kept(id) => Kept(id)')
    BY DEF Accounted, Kept, FirstSupply, Multi!Other
  <1> QED  BY <1>1, <1>2, <1>3, MultiInvWritten

LEMMA MultiAdminSound ==
  ASSUME Multi!ERC1155Assumption, Multi!ERC1155IInv, Multi!Admin
  PROVE  Multi!ERC1155IInv'
  <1>1. listing \in [Chains -> Multi!Listing]
    BY MultiInvRead DEF Multi!ERC1155TypeOK
  <1>2. PICK c \in Chains :
           \/ \E to \in Multi!Holders, b \in Batches : Multi!withdraw(c, to, b)
           \/ \E unmap, delist \in BOOLEAN : Multi!removeResource(c, unmap, delist)
           \/ Multi!setResource(c)
           \/ Multi!setBurnable(c)
    BY DEF Multi!Admin
  <1>3. ASSUME NEW l \in Multi!Listing, listing[c].burnable => l.burnable, Multi!SetListing(c, l)
        PROVE  Multi!ERC1155IInv'
    <2>1. listing' = [listing EXCEPT ![c] = l] /\ UNCHANGED <<balance, transfers, stray, withdrawn>>
      BY <1>3 DEF Multi!SetListing
    <2>2. /\ listing' \in [Chains -> Multi!Listing]
          /\ \A d \in Chains : listing[d].burnable => listing'[d].burnable
      BY <1>1, <1>3, <2>1
    <2> QED  BY <2>1, <2>2, MultiListingSound
  <1>4. listing[c] \in Multi!Listing
    BY <1>1
  <1>5. CASE \E to \in Multi!Holders, b \in Batches : Multi!withdraw(c, to, b)
    BY <1>5, MultiWithdrawSound
  <1>6. ASSUME NEW unmap \in BOOLEAN, NEW delist \in BOOLEAN, Multi!removeResource(c, unmap, delist)
        PROVE  Multi!ERC1155IInv'
    <2> DEFINE l == [listing[c] EXCEPT !.mapped = @ /\ ~unmap, !.listed = @ /\ ~delist]
    <2>1. l \in Multi!Listing /\ l.burnable = listing[c].burnable
      BY <1>4 DEF Multi!Listing
    <2>2. Multi!SetListing(c, l)
      BY <1>6 DEF Multi!removeResource
    <2> HIDE DEF l
    <2> QED  BY <1>3, <2>1, <2>2
  <1>7. CASE Multi!setResource(c)
    <2> DEFINE l == [listing[c] EXCEPT !.mapped = TRUE, !.listed = TRUE]
    <2>1. l \in Multi!Listing /\ l.burnable = listing[c].burnable
      BY <1>4 DEF Multi!Listing
    <2>2. Multi!SetListing(c, l)
      BY <1>7 DEF Multi!setResource
    <2> HIDE DEF l
    <2> QED  BY <1>3, <2>1, <2>2
  <1>8. CASE Multi!setBurnable(c)
    <2> DEFINE l == [listing[c] EXCEPT !.burnable = TRUE]
    <2>1. l \in Multi!Listing /\ l.burnable
      BY <1>4 DEF Multi!Listing
    <2>2. Multi!SetListing(c, l)
      BY <1>8 DEF Multi!setBurnable
    <2> HIDE DEF l
    <2> QED  BY <1>3, <2>1, <2>2
  <1> QED  BY <1>2, <1>5, <1>6, <1>7, <1>8

LEMMA MultiStep ==
  ASSUME Multi!ERC1155Assumption, Multi!ERC1155IInv, [Multi!Next]_(Multi!vars)
  PROVE  Multi!ERC1155IInv'
  <1>1. CASE Multi!Next
    BY <1>1, MultiDepositSound, MultiTransferSound, MultiExecuteSound, MultiCancelSound,
       MultiAdminSound DEF Multi!Next
  <1>2. CASE UNCHANGED Multi!vars
    BY <1>2, MultiInvRead, MultiListingSound DEF Multi!vars, Multi!ERC1155TypeOK
  <1> QED  BY <1>1, <1>2

(* The inductive invariant of the ERC1155 handlers.                         *)
THEOREM MultiInvariance ==
  ASSUME Multi!ERC1155Assumption
  PROVE  Multi!Spec => []Multi!ERC1155IInv
  <1>1. Multi!ERC1155IInv /\ [Multi!Next]_(Multi!vars) => Multi!ERC1155IInv'
    BY MultiStep
  <1> QED  BY <1>1, MultiStart, PTL DEF Multi!Spec

(* Every amount of an ID is accounted for on the two chains together.       *)
THEOREM AmountsAlwaysAccounted ==
  ASSUME Multi!ERC1155Assumption
  PROVE  Multi!Spec => []AmountsAccounted
  <1>1. Multi!ERC1155IInv => Multi!AmountsAccounted
    BY DEF Multi!ERC1155IInv
  <1> QED  BY <1>1, MultiInvariance, PTL DEF AmountsAccounted

(* What remains at home, once hands and handler make up the first supply.   *)
LEMMA Covered ==
  ASSUME NEW h \in Nat, NEW o \in Nat, NEW p \in Nat, NEW c \in Nat, NEW t \in Nat, NEW w \in Nat,
         NEW k \in Nat, NEW f \in Nat,
         h + o + p + c + t = f + w, h + k = f, w <= t + c
  PROVE  p + o <= k
  OBVIOUS

(* What the handler holds covers all transfers that return to it.           *)
THEOREM ReturnsAlwaysCovered ==
  ASSUME Multi!ERC1155Assumption
  PROVE  Multi!Spec => []ReturnsCovered
  <1>1. ASSUME Multi!ERC1155IInv, ~listing[Home].burnable, NEW id \in IDs,
               withdrawn[id] <= stray[id] + Multi!InTransfers("Cancelled", id)
        PROVE  Multi!InTransfers("Pending", id) + Multi!InHands(Multi!Other(Home), id)
                 <= balance[Home][Handler][id]
    <2> DEFINE o == Multi!Other(Home)
    <2>1. /\ balance \in Balances /\ transfers \in Seq(Multi!Transfer)
          /\ stray[id] \in Nat /\ withdrawn[id] \in Nat
          /\ Accounted(id) /\ Kept(id) /\ Home \in Chains /\ o \in Chains
      BY <1>1, MultiInvRead, TwoChains DEF Multi!ERC1155TypeOK, Multi!Amounts
    <2>2. /\ Multi!InTransfers("Pending", id) = SumIn(transfers, "Pending", id)
          /\ Multi!InTransfers("Cancelled", id) = SumIn(transfers, "Cancelled", id)
          /\ Multi!InHands(o, id) = HandsOf(balance, o, id)
      BY MultiTotal DEF HandsOf, SumIn, AmountsIn, InState, Multi!InHands, Multi!InTransfers
    <2>3. /\ HandsOf(balance, Home, id) \in Nat /\ HandsOf(balance, o, id) \in Nat
          /\ SumIn(transfers, "Pending", id) \in Nat /\ SumIn(transfers, "Cancelled", id) \in Nat
          /\ balance[Home][Handler][id] \in Nat /\ FirstSupply \in Nat
      BY <2>1, HandsNat, SumNat, FirstSupplyNat
    <2>4. /\ HandsOf(balance, Home, id) + HandsOf(balance, o, id) + SumIn(transfers, "Pending", id)
               + SumIn(transfers, "Cancelled", id) + stray[id] = FirstSupply + withdrawn[id]
          /\ HandsOf(balance, Home, id) + balance[Home][Handler][id] = FirstSupply
      BY <2>1 DEF Accounted, Kept
    <2> HIDE DEF o
    <2>5. withdrawn[id] <= stray[id] + SumIn(transfers, "Cancelled", id)
      BY <1>1, <2>2
    <2>6. SumIn(transfers, "Pending", id) + HandsOf(balance, o, id) <= balance[Home][Handler][id]
      <3> DEFINE h == HandsOf(balance, Home, id)
                 n == HandsOf(balance, o, id)
                 p == SumIn(transfers, "Pending", id)
                 q == SumIn(transfers, "Cancelled", id)
                 k == balance[Home][Handler][id]
                 t == stray[id]
                 w == withdrawn[id]
                 f == FirstSupply
      <3>1. /\ h \in Nat /\ n \in Nat /\ p \in Nat /\ q \in Nat /\ k \in Nat /\ t \in Nat
            /\ w \in Nat /\ f \in Nat
        BY <2>1, <2>3
      <3>2. h + n + p + q + t = f + w /\ h + k = f /\ w <= t + q
        BY <2>4, <2>5
      <3> HIDE DEF h, n, p, q, k, t, w, f
      <3>3. p + n <= k
        BY <3>1, <3>2, Covered
      <3> QED  BY <3>3 DEF p, n, k
    <2> QED  BY <2>2, <2>6 DEF o
  <1>2. Multi!ERC1155IInv => Multi!ReturnsCovered
    BY <1>1 DEF Multi!ReturnsCovered
  <1> QED  BY <1>2, MultiInvariance, PTL DEF ReturnsCovered
=============================================================================
