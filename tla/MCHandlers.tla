----------------------------- MODULE MCHandlers -----------------------------
(* An instance of Handlers for TLC: the handlers side by side in one run,   *)
(* where a behaviour moves one of them (part) and the others stay as they   *)
(* were at first.                                                           *)
EXTENDS Handlers, Integers, Sequences, TLC

CONSTANTS c1, c2, u, v, k1, k2, res1, res2, item, home, away, owner, other, id1, id2

VARIABLE part

generic == <<_resourceIDToHandlerAddress, handlers, status, storer, ran, wanted, deposits, mistaken,
             resourceChanges>>
nft == <<nftListing, nftOwner, nftTransfers, actor, meddled, nftChanges>>
multi == <<listing, balance, transfers, stray, withdrawn, changes>>
vars == <<part, generic, nft, multi>>

MCHandlerSet == {k1, k2}
MCResources == {res1, res2}
MCContracts == {c1, c2}
MCUsers == {u, v}
MCItems == {item}

(* A contract for deposits and one for proposals. *)
Registration(data, depositor, execute) ==
    [deposit |-> data, depositor |-> depositor, execute |-> execute]
MCRegistrations == {Registration(TRUE, TRUE, FALSE), Registration(FALSE, FALSE, TRUE)}

(* Three proposals store one item, two of them under one resource. *)
Proposal(n, resource) == [id |-> n, resource |-> resource, handler |-> k1, item |-> item]
MCProposals == {Proposal(1, res1), Proposal(2, res1), Proposal(3, res2)}

MCChains == {home, away}
MCNftIDs == {id1}
MCNftUsers == {owner, other}
MCInitialOwner == [id \in {id1} |-> owner]
MCIDs == {id1, id2}
MCBatchUsers == {owner}

(* One ID, one ID twice, two IDs, and sequences of different lengths. *)
Batch(ids, amounts) == [ids |-> ids, amounts |-> amounts]
MCBatches == {Batch(<<id1>>, <<1>>), Batch(<<id1, id1>>, <<1, 1>>),
              Batch(<<id1, id2>>, <<1, 2>>), Batch(<<id1, id2>>, <<1>>)}

ASSUME AssumptionsOfTheParts == HandlersAssumption

Init ==
    /\ part \in {"configured", "executing", "single", "multi"}
    /\ Generic!Init /\ Single!Init /\ Multi!Init

(* Resources change while users deposit, or while proposals are executed    *)
(* and the item is stored by others.                                        *)
Next ==
    \/ /\ part = "configured" /\ UNCHANGED <<part, nft, multi>>
       /\ Generic!Next /\ UNCHANGED <<status, storer>>
    \/ /\ part = "executing" /\ UNCHANGED <<part, nft, multi>>
       /\ Generic!Next /\ UNCHANGED deposits
    \/ part = "single" /\ Single!Next /\ UNCHANGED <<part, generic, multi>>
    \/ part = "multi" /\ Multi!Next /\ UNCHANGED <<part, generic, nft>>

Spec == Init /\ [][Next]_vars

Symmetry == Permutations({c1, c2}) \union Permutations({u, v})
=============================================================================
