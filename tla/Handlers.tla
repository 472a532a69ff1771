------------------------------ MODULE Handlers ------------------------------
(***************************************************************************)
(* The handlers of generic resources, ERC721 and ERC1155 tokens, and what  *)
(* each of them promises.  They share no state; the properties are stated  *)
(* and explained in their modules.                                         *)
(***************************************************************************)
CONSTANTS
    Handlers, NoHandler, Resources, NoResource, Contracts, NoContract,
    Registrations, Items, Proposals, Users, Nobody, MaxResourceChanges,
    Chains, Home, Handler,                                        \* of the tokens
    NftIDs, NftUsers, InitialOwner, MaxNftDeposits, MaxNftChanges,
    IDs, BatchUsers, Supply, Batches, MaxDeposits, MaxChanges

VARIABLES
    _resourceIDToHandlerAddress, handlers, status, storer, ran, wanted, deposits, mistaken,
    resourceChanges,
    nftListing, nftOwner, nftTransfers, actor, meddled, nftChanges,
    listing, balance, transfers, stray, withdrawn, changes

Generic == INSTANCE GenericHandler WITH
    MaxChanges <- MaxResourceChanges, changes <- resourceChanges

Single == INSTANCE ERC721Handlers WITH
    IDs <- NftIDs, Users <- NftUsers, MaxDeposits <- MaxNftDeposits, MaxChanges <- MaxNftChanges,
    listing <- nftListing, owner <- nftOwner, transfers <- nftTransfers, changes <- nftChanges

Multi == INSTANCE ERC1155Handlers WITH Users <- BatchUsers

HandlersAssumption ==
    Generic!GenericAssumption /\ Single!ERC721Assumption /\ Multi!ERC1155Assumption
-----------------------------------------------------------------------------
(* The maps of a generic handler agree, through any registrations, removals *)
(* and moves, and a resource left behind in one is not freed there.         *)
MapsAgree ==
    /\ [](Generic!StorageComplete /\ Generic!MapsInverse)
    /\ [][Generic!StrandedStays]_(Generic!vars)

(* Nobody deposits in another's name where the depositor is checked.        *)
DepositorsTrue == Generic!DepositorsTrue

(* A proposal is Executed with a call exactly if that call stored the item. *)
ExecutedIsStored == Generic!ExecutedIsStored

(* An ID is in hands on one chain, and on none while it is on its way; only *)
(* a cancelled transfer loses it.                                           *)
CopiesAccounted == Single!CopiesAccounted

(* Nobody but its owner and the bridge moves an ID.                         *)
OnlyOwnerMoves == [][Single!OwnerMoves]_(Single!vars)

(* Every amount of an ID is accounted for on the two chains together.       *)
AmountsAccounted == Multi!AmountsAccounted

(* What the handler holds covers all transfers that return to it.           *)
ReturnsCovered == Multi!ReturnsCovered
-----------------------------------------------------------------------------
(* What the doc of executeProposal says and the code does not: an execution *)
(* that is not reverted completes the proposal.                             *)
FailureEndsExecution == Generic!FailureEndsExecution
=============================================================================
