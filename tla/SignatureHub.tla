---------------------------- MODULE SignatureHub ----------------------------
(***************************************************************************)
(* src/contracts/Signatures.sol (and SignaturesUpgradeable.sol, the same   *)
(* below its initializer): the contract on a hub chain where relayers post *)
(* their signatures of a deposit, one each, until the threshold of the     *)
(* deposit's destination is reached and SignaturePass is emitted.          *)
(*                                                                         *)
(* A deposit stands for its depositHash, the hash of origin, destination,  *)
(* nonce, resource and data.  A signature is made for one bridge contract  *)
(* on one chain, and recovering it for another yields an address that is   *)
(* nobody's: here a signature is its signer and the target it was made for.*)
(***************************************************************************)
EXTENDS Naturals, Sequences, FiniteSets

CONSTANTS
    Accounts,
    Deployer,
    Deposits,
    Domains,        \* destination domain IDs, which are naturals
    DestinationOf,  \* DestinationOf[d]: the destinationDomainID of deposit d
    Bridges,        \* addresses of bridge contracts
    NoBridge,       \* address(0), the default of destinationBridgeAddress
    ChainIds,       \* the chain IDs an admin sets; 0 stands for "same as the domain ID"
    Uint8Limit,     \* 2^8
    Thresholds,     \* the arguments of adminChangeRelayerThreshold
    Candidates,     \* per role, the accounts it is granted to; the relayers' sign
    Persistent      \* the relayers that keep signing (fairness only)

ASSUME HubAssumption ==
    /\ Deployer \in Accounts
    /\ IsFiniteSet(Deposits)
    /\ Domains \subseteq Nat /\ ChainIds \subseteq Nat
    /\ DestinationOf \in [Deposits -> Domains]
    /\ NoBridge \notin Bridges
    /\ Uint8Limit \in Nat \ {0}
    /\ Thresholds \subseteq Nat
    /\ Candidates \in [{"RELAYER", "ADMIN"} -> SUBSET Accounts]
    /\ Persistent \subseteq Candidates["RELAYER"]

VARIABLES
    members,                   \* members[role]: the accounts that have a role
    paused,
    relayerThreshold,          \* per destination; 0 until an admin sets it
    destChainId, destinationBridgeAddress,
    signatures,                \* signatures[d]: a sequence of signatures
    relayerVote,               \* relayerVote[d]: the relayers that have signed d
    proposals,                 \* proposals[d]: what is stored with d's first signature
    proposalIndex,
    indexToProposal,           \* the deposit with a given index, as a sequence
    \* history
    passes,                    \* passes[d]: the SignaturePass events of d
    highest,                   \* highest[n]: the largest threshold n has had
    rethought,                 \* the destinations whose threshold changed, and
    retargeted                 \* those whose target was set, after a signature for them

config == <<relayerThreshold, destChainId, destinationBridgeAddress>>
board == <<signatures, relayerVote, proposals, proposalIndex, indexToProposal, passes>>
history == <<highest, rethought, retargeted>>
vars == <<members, paused, config, board, history>>

Role == {"RELAYER", "ADMIN"}

hasRole(role, account) == account \in members[role]

Target == [chain : Nat, bridge : Bridges \union {NoBridge}]

Signature == [signer : Accounts, target : Target]

StoredProposal == [destinationBridge : Bridges \union {NoBridge}, index : Nat]

NoStoredProposal == [destinationBridge |-> NoBridge, index |-> 0]

Signed(n) == \E d \in Deposits : DestinationOf[d] = n /\ signatures[d] # <<>>

(* The chain and contract a signature for destination n is checked against. *)
TargetOf(n) ==
    [chain |-> IF destChainId[n] = 0 THEN n ELSE destChainId[n],
     bridge |-> destinationBridgeAddress[n]]

Init ==
    /\ members = [role \in Role |-> IF role = "ADMIN" THEN {Deployer} ELSE {}]
    /\ paused = FALSE
    /\ relayerThreshold = [n \in Domains |-> 0]
    /\ destChainId = [n \in Domains |-> 0]
    /\ destinationBridgeAddress = [n \in Domains |-> NoBridge]
    /\ signatures = [d \in Deposits |-> <<>>]
    /\ relayerVote = [d \in Deposits |-> {}]
    /\ proposals = [d \in Deposits |-> NoStoredProposal]
    /\ proposalIndex = 0
    /\ indexToProposal = <<>>
    /\ passes = [d \in Deposits |-> 0]
    /\ highest = [n \in Domains |-> 0]
    /\ rethought = {}
    /\ retargeted = {}
-----------------------------------------------------------------------------
AnyTarget(signature, d) == TRUE   \* as ForTarget, with a domain separator left out

(* ECDSA.recover gives the signer only for the target that was signed. *)
ForTarget(signature, d) == signature.target = TargetOf(DestinationOf[d])

NotRemembered(d, signer) == TRUE   \* as NotYetVoted, without the check

NotYetVoted(d, signer) == signer \notin relayerVote[d]

OneShort(d) ==   \* off by one
    Len(signatures[d]) + 1 < relayerThreshold[DestinationOf[d]]

StillOpen(d) == Len(signatures[d]) < relayerThreshold[DestinationOf[d]]

AfterThreshold(n, d) == n > relayerThreshold[DestinationOf[d]]   \* off by one

Passes(n, d) == n >= relayerThreshold[DestinationOf[d]]

EverySignatureFirst(d) == TRUE   \* as FirstSignature, always

FirstSignature(d) == signatures[d] = <<>>

(* Anyone may post a relayer's signature. *)
submitSignature(d, signature) ==
    LET n == DestinationOf[d]
    IN  /\ ~paused
        /\ ForTarget(signature, d)
        /\ hasRole("RELAYER", signature.signer)
        /\ NotYetVoted(d, signature.signer)
        /\ StillOpen(d)
        /\ relayerVote' = [relayerVote EXCEPT ![d] = @ \union {signature.signer}]
        /\ IF FirstSignature(d)
           THEN /\ proposalIndex' = proposalIndex + 1
                /\ proposals' = [proposals EXCEPT
                      ![d] = [destinationBridge |-> destinationBridgeAddress[n],
                              index |-> proposalIndex + 1]]
                /\ indexToProposal' = Append(indexToProposal, d)
           ELSE UNCHANGED <<proposalIndex, proposals, indexToProposal>>
        /\ signatures' = [signatures EXCEPT ![d] = Append(@, signature)]
        /\ passes' = [passes EXCEPT ![d] = IF Passes(Len(signatures[d]) + 1, d) THEN @ + 1 ELSE @]
        /\ UNCHANGED <<members, paused, config, history>>

FitsUint8(threshold) == threshold < Uint8Limit

adminChangeRelayerThreshold(admin, n, newThreshold) ==
    /\ hasRole("ADMIN", admin)
    /\ FitsUint8(newThreshold)
    /\ relayerThreshold' = [relayerThreshold EXCEPT ![n] = newThreshold]
    /\ highest' = [highest EXCEPT ![n] = IF newThreshold > @ THEN newThreshold ELSE @]
    /\ rethought' = rethought \union {m \in {n} : Signed(m) /\ newThreshold # relayerThreshold[m]}
    /\ UNCHANGED <<members, paused, destChainId, destinationBridgeAddress, board, retargeted>>

adminSetDestChainId(admin, n, chainId, bridge) ==
    /\ hasRole("ADMIN", admin)
    /\ destChainId' = [destChainId EXCEPT ![n] = chainId]
    /\ destinationBridgeAddress' = [destinationBridgeAddress EXCEPT ![n] = bridge]
    /\ retargeted' = retargeted \union {m \in {n} : Signed(m)}
    /\ UNCHANGED <<members, paused, relayerThreshold, board, highest, rethought>>

SetPaused(admin, value) ==
    /\ hasRole("ADMIN", admin)
    /\ paused = ~value
    /\ paused' = value
    /\ UNCHANGED <<members, config, board, history>>

(* The roles of AccessControl.sol; unlike the bridge, the hub overrides no  *)
(* function of it and does not use the order of the members.                *)
grantRole(admin, role, account) ==
    /\ hasRole("ADMIN", admin)
    /\ members' = [members EXCEPT ![role] = @ \union {account}]
    /\ UNCHANGED <<paused, config, board, history>>

revokeRole(admin, role, account) ==
    /\ hasRole("ADMIN", admin)
    /\ members' = [members EXCEPT ![role] = @ \ {account}]
    /\ UNCHANGED <<paused, config, board, history>>

renounceRole(role, account) ==
    /\ members' = [members EXCEPT ![role] = @ \ {account}]
    /\ UNCHANGED <<paused, config, board, history>>
-----------------------------------------------------------------------------
Targets == [chain : Domains \union (ChainIds \ {0}), bridge : Bridges \union {NoBridge}]

Signatures == [signer : Candidates["RELAYER"], target : Targets]

Administer ==
    \E admin \in Accounts :
        \/ \E n \in Domains, t \in Thresholds : adminChangeRelayerThreshold(admin, n, t)
        \/ \E n \in Domains, c \in ChainIds, b \in Bridges : adminSetDestChainId(admin, n, c, b)
        \/ \E value \in BOOLEAN : SetPaused(admin, value)
        \/ \E role \in Role : \E account \in Candidates[role] :
              \/ grantRole(admin, role, account)
              \/ revokeRole(admin, role, account)

Next ==
    \/ \E d \in Deposits, signature \in Signatures : submitSignature(d, signature)
    \/ Administer
    \/ \E role \in Role : \E account \in Candidates[role] : renounceRole(role, account)

Spec == Init /\ [][Next]_vars

Signs(relayer, d) ==
    \E signature \in Signatures : signature.signer = relayer /\ submitSignature(d, signature)

(* A persistent relayer posts a signature of every deposit it sees, for the *)
(* destination's present target, and tries again until it is stored.        *)
FairSpec == Spec /\ \A relayer \in Persistent, d \in Deposits : SF_vars(Signs(relayer, d))
-----------------------------------------------------------------------------
(* Every variable has its type. *)
HubTypeOK ==
    /\ members \in [Role -> SUBSET Accounts]
    /\ paused \in BOOLEAN
    /\ relayerThreshold \in [Domains -> 0..(Uint8Limit - 1)]
    /\ highest \in [Domains -> 0..(Uint8Limit - 1)]
    /\ destChainId \in [Domains -> Nat]
    /\ destinationBridgeAddress \in [Domains -> Bridges \union {NoBridge}]
    /\ signatures \in [Deposits -> Seq(Signature)]
    /\ relayerVote \in [Deposits -> SUBSET Accounts]
    /\ proposals \in [Deposits -> StoredProposal]
    /\ proposalIndex \in Nat
    /\ indexToProposal \in Seq(Deposits)
    /\ passes \in [Deposits -> Nat]
    /\ rethought \subseteq Domains /\ retargeted \subseteq Domains

(* The signatures stored for a deposit come from distinct accounts, so that *)
(* a quorum of signatures is a quorum of relayers, and the mark that keeps  *)
(* a relayer from signing twice is set for exactly those accounts.          *)
OneSignaturePerRelayer ==
    \A d \in Deposits :
        /\ relayerVote[d] = {signatures[d][i].signer : i \in DOMAIN signatures[d]}
        /\ \A i, j \in DOMAIN signatures[d] :
              signatures[d][i].signer = signatures[d][j].signer => i = j

(* Those who enumerate the hub's proposals by index find every signed       *)
(* deposit once and no other: proposals[_].proposalIndex and                *)
(* indexToProposal are inverse to each other and dense.                     *)
IndexIsDirectory ==
    /\ proposalIndex = Len(indexToProposal)
    /\ \A i \in 1..proposalIndex :
          /\ proposals[indexToProposal[i]].index = i
          /\ signatures[indexToProposal[i]] # <<>>
    /\ \A d \in Deposits : signatures[d] # <<>> =>
          /\ proposals[d].index \in 1..proposalIndex
          /\ indexToProposal[proposals[d].index] = d

(* No deposit collects more signatures than the largest threshold its       *)
(* destination has had: the hub never stores one that no quorum needed.     *)
SignaturesBounded ==
    \A d \in Deposits : Len(signatures[d]) <= highest[DestinationOf[d]]

(* SignaturePass is emitted once for a deposit that has a quorum and not    *)
(* for one that has none, whatever is paused or granted in between, unless  *)
(* an admin changed the threshold while signatures were stored.  (Lowered   *)
(* to a count already reached, the threshold closes the deposit unannounced.)*)
AnnouncedAtQuorum ==
    \A d \in Deposits : DestinationOf[d] \notin rethought =>
        passes[d] = IF /\ signatures[d] # <<>>
                       /\ Len(signatures[d]) >= relayerThreshold[DestinationOf[d]]
                    THEN 1
                    ELSE 0

(* The signatures of a deposit are all for the bridge stored with it, which *)
(* is the destination's present one, unless an admin replaced the target    *)
(* while signatures were stored: a quorum can then be carried there.        *)
SignedForOneTarget ==
    \A d \in Deposits : DestinationOf[d] \notin retargeted /\ signatures[d] # <<>> =>
        /\ proposals[d].destinationBridge = destinationBridgeAddress[DestinationOf[d]]
        /\ \A i \in DOMAIN signatures[d] : signatures[d][i].target = TargetOf(DestinationOf[d])

(* What was posted stays: signatures are only appended, and the record made *)
(* with a deposit's first signature, its index included, never changes.     *)
Posted ==
    \A d \in Deposits : signatures[d] # <<>> =>
        /\ SubSeq(signatures'[d], 1, Len(signatures[d])) = signatures[d]
        /\ proposals'[d] = proposals[d]
        /\ indexToProposal'[proposals[d].index] = d

PostedStays == [][Posted]_vars

(* What the invariants above rest on, with them: the inductive invariant.   *)
HubIInv ==
    /\ HubTypeOK
    /\ OneSignaturePerRelayer
    /\ IndexIsDirectory
    /\ \A n \in Domains : relayerThreshold[n] <= highest[n]
    /\ SignaturesBounded
    /\ AnnouncedAtQuorum
    /\ SignedForOneTarget

(* With as many persistent relayers as the thresholds ask for in the end,   *)
(* every deposit gets a quorum again and again, through pauses and changes  *)
(* of threshold, target and roles.                                          *)
DepositsReachQuorum ==
    /\ []<>~paused
    /\ <>[](/\ Persistent \subseteq members["RELAYER"]
           /\ \A n \in Domains : relayerThreshold[n] <= Cardinality(Persistent))
    => \A d \in Deposits : []<>(Len(signatures[d]) >= relayerThreshold[DestinationOf[d]])
=============================================================================
