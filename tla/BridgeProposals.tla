--------------------------- MODULE BridgeProposals ---------------------------
(***************************************************************************)
(* The destination side of src/contracts/Bridge.sol: relayers vote on a    *)
(* proposal to release a deposit made on another chain, a proposal with    *)
(* enough votes is executed by the handler of its resource, and one that   *)
(* is too old is cancelled, while admins change the relayers, the          *)
(* threshold, the expiry, the handlers and the pause switch.               *)
(*                                                                         *)
(* An action is one successful transaction.  A transaction that reverts    *)
(* leaves no trace, so the conditions of require() are guards.             *)
(*                                                                         *)
(* BridgeUpgradeable.sol has the same functions, line for line, below its  *)
(* initializer.                                                            *)
(***************************************************************************)
EXTENDS AccessControl, Integers

CONSTANTS
    Deployer,        \* receives the admin role in the constructor
    InitialRelayers, \* the constructor's initialRelayers, in whatever order they are given
    Transfers,       \* a transfer is a (domainID, depositNonce, resourceID, data)
    Resources,
    ResourceOf,      \* ResourceOf[t]: the resourceID of t
    Handlers,
    NoHandler,       \* address(0), what an unset resource maps to
    VoteBits,        \* the width of _yesVotes (200)
    WordBits,        \* the width of the word a bit is shifted in (256)
    Uint8Limit,      \* what _yesVotesTotal and _relayerThreshold stay below (2^8)
    MAX_RELAYERS,    \* 200
    BlockMod,        \* _proposedBlock and the age are taken modulo this (2^40)
    InitialThreshold,
    InitialExpiry,
    Thresholds,      \* the arguments of adminChangeRelayerThreshold
    Expiries,        \* the arguments of adminChangeExpiry that fit in a uint40
    Candidates,      \* the accounts whose roles are changed
    MaxBlock,        \* bound on block.number
    MaxSignatures    \* bound on the length of voteProposals' signatures

ASSUME ConstantsAssumption ==
    /\ Deployer \in Accounts
    /\ InitialRelayers \subseteq Accounts
    /\ ResourceOf \in [Transfers -> Resources]
    /\ NoHandler \notin Handlers
    /\ VoteBits \in Nat /\ WordBits \in Nat /\ VoteBits <= WordBits
    /\ Uint8Limit \in Nat \ {0} /\ BlockMod \in Nat \ {0}
    /\ MAX_RELAYERS \in Nat
    /\ InitialThreshold \in 0 .. Uint8Limit - 1 /\ InitialExpiry \in Nat
    /\ Thresholds \subseteq 0 .. Uint8Limit - 1 /\ Expiries \subseteq Nat
    /\ Candidates \subseteq Accounts
    /\ MaxBlock \in Nat /\ MaxSignatures \in Nat

(* A proposal is stored under its (domainID, depositNonce) and the hash of *)
(* resourceID, handler and data: that is, under a transfer and a handler.  *)
Proposals == Transfers \X Handlers

VARIABLES
    relayers,        \* members of RELAYER_ROLE, with their indices
    admins,          \* members of DEFAULT_ADMIN_ROLE
    paused,
    relayerThreshold,
    expiry,
    blockNumber,     \* block.number, the whole number and not its low bits
    resourceIDToHandlerAddress,
    proposals,       \* _proposals
    \* history: written by the actions below, read only by the properties
    effects,         \* effects[p]: calls of p's handler that did not revert
    voters,          \* voters[p]: the accounts whose votes the proposal counts
    unmarked,        \* unmarked[p]: those of them who had no bit when their vote was counted
    openedAt,        \* openedAt[p]: blockNumber when the proposal was created
    reindexed        \* the proposals that were open when a relayer lost its role

config == <<relayerThreshold, expiry, resourceIDToHandlerAddress>>
roles == <<relayers, admins>>
history == <<effects, voters, unmarked, openedAt, reindexed>>
vars == <<roles, paused, config, blockNumber, proposals, history>>

Status == {"Inactive", "Active", "Passed", "Executed", "Cancelled"}

Proposal == [status : Status,
             yesVotes : SUBSET (1 .. VoteBits),   \* the bits set, counted from 1
             yesVotesTotal : 0 .. Uint8Limit - 1,
             proposedBlock : 0 .. BlockMod - 1]

NoProposal == [status |-> "Inactive", yesVotes |-> {}, yesVotesTotal |-> 0, proposedBlock |-> 0]

(* uint40(block.number) *)
ProposedNow == blockNumber % BlockMod

OpenProposal == [status |-> "Active", yesVotes |-> {}, yesVotesTotal |-> 0,
                 proposedBlock |-> ProposedNow]

(* uint40(sub(block.number, proposal._proposedBlock)) *)
Age(proposal) == (blockNumber - proposal.proposedBlock) % BlockMod

(* As Expired, with the difference not truncated to 40 bits. *)
ExpiredUntruncated(proposal) == blockNumber - proposal.proposedBlock > expiry

Expired(proposal) == Age(proposal) > expiry

(* uint256(1) << (index - 1), as the set of the bits set.  Role indices     *)
(* start at 1, so the first relayer has bit 0: here bit 1.  A relayer whose *)
(* index exceeds the word has no bit: what is shifted beyond it is 0.       *)
_relayerBit(relayer) == {getRoleMemberIndex(relayers, relayer)} \intersect (1 .. WordBits)

NeverVoted(proposal, relayer) == FALSE   \* as _hasVoted, always refusing to find a vote

(* So a relayer without a bit has never voted. *)
_hasVoted(proposal, relayer) == _relayerBit(relayer) \intersect proposal.yesVotes # {}

FitsVoteShort(relayer) == _relayerBit(relayer) \subseteq 1 .. VoteBits - 1   \* off by one

(* toUint200 reverts on a bit that does not fit, but not on no bit at all. *)
FitsVote(relayer) == _relayerBit(relayer) \subseteq 1 .. VoteBits

(* _yesVotesTotal++ reverts when the uint8 overflows. *)
FitsTotal(votes) == votes < Uint8Limit

Unmarked(accounts) == {a \in accounts : _relayerBit(a) = {}}

MoreThanThreshold(votes) == votes > relayerThreshold   \* off by one

ReachesThreshold(votes) == votes >= relayerThreshold

isRelayer(account) == hasRole(relayers, account)
isAdmin(account) == account \in admins

HandlerOf(t) == resourceIDToHandlerAddress[ResourceOf[t]]

Init ==
    /\ relayers \in {role \in [Accounts -> 0 .. Cardinality(InitialRelayers)] :
                        Members(role) = InitialRelayers /\ IsEnumeration(role)}
    /\ admins = {Deployer}
    /\ paused = FALSE
    /\ relayerThreshold = InitialThreshold
    /\ expiry = InitialExpiry
    /\ blockNumber = 0
    /\ resourceIDToHandlerAddress = [r \in Resources |-> NoHandler]
    /\ proposals = [p \in Proposals |-> NoProposal]
    /\ effects = [p \in Proposals |-> 0]
    /\ voters = [p \in Proposals |-> {}]
    /\ unmarked = [p \in Proposals |-> {}]
    /\ openedAt = [p \in Proposals |-> 0]
    /\ reindexed = {}
-----------------------------------------------------------------------------
(* Voting *)

(* The state after p is stored as proposal. *)
Store(p, proposal) == proposals' = [proposals EXCEPT ![p] = proposal]

(* The handler of p releases what was deposited. *)
Effect(p) == effects' = [effects EXCEPT ![p] = @ + 1]

(* _executeProposal once its handler call has succeeded. *)
_executeProposal(p) ==
    /\ proposals[p].status = "Passed"
    /\ Store(p, [proposals[p] EXCEPT !.status = "Executed"])
    /\ Effect(p)

(* A relayer's vote for t under its present handler h is counted.  With     *)
(* the last vote that was missing the proposal is passed and executed in    *)
(* the same call; a handler that reverts (ok = FALSE) leaves it Passed.     *)
CountVote(relayer, p, proposal, ok) ==
    LET votes  == proposal.yesVotesTotal + 1
        status == IF ~ReachesThreshold(votes) THEN "Active" ELSE IF ok THEN "Executed" ELSE "Passed"
    IN  /\ FitsVote(relayer)
        /\ FitsTotal(votes)
        /\ Store(p, [status |-> status,
                     yesVotes |-> proposal.yesVotes \union _relayerBit(relayer),
                     yesVotesTotal |-> votes,
                     proposedBlock |-> proposal.proposedBlock])
        /\ IF status = "Executed" THEN Effect(p) ELSE UNCHANGED effects
        /\ voters' = [voters EXCEPT ![p] = @ \union {relayer}]
        /\ unmarked' = [unmarked EXCEPT ![p] = @ \union Unmarked({relayer})]

voteProposal(relayer, t, ok) ==
    LET h == HandlerOf(t)
        p == <<t, h>>
    IN  /\ isRelayer(relayer)
        /\ ~paused
        /\ h # NoHandler
        /\ \/ /\ proposals[p].status = "Passed"
              /\ ok
              /\ _executeProposal(p)
              /\ UNCHANGED <<voters, unmarked, openedAt>>
           \/ /\ proposals[p].status = "Inactive"
              /\ CountVote(relayer, p, OpenProposal, ok)
              /\ openedAt' = [openedAt EXCEPT ![p] = blockNumber]
           \/ /\ proposals[p].status = "Active"
              /\ ~_hasVoted(proposals[p], relayer)
              /\ ~Expired(proposals[p])
              /\ CountVote(relayer, p, proposals[p], ok)
              /\ UNCHANGED openedAt
           \/ /\ proposals[p].status = "Active"
              /\ ~_hasVoted(proposals[p], relayer)
              /\ Expired(proposals[p])
              /\ Store(p, [proposals[p] EXCEPT !.status = "Cancelled"])
              /\ UNCHANGED <<effects, voters, unmarked, openedAt>>
        /\ UNCHANGED <<roles, paused, config, blockNumber, reindexed>>

(* The signatures, which anyone may bring, are by relayers, and of those    *)
(* who have a bit one each.                                                 *)
DistinctVotes(signers) ==
    /\ \A i \in DOMAIN signers : isRelayer(signers[i]) /\ FitsVote(signers[i])
    /\ \A i, j \in DOMAIN signers :
          _relayerBit(signers[i]) \intersect _relayerBit(signers[j]) # {} => i = j

(* As StoredUndecided, with "< 3" and "!= Executed" in place of "<= 1".    *)
StoredNotDecidedYet(p) == proposals[p].status \in {"Inactive", "Active", "Passed"}
StoredNotExecuted(p) == proposals[p].status # "Executed"
StoredAnything(p) == TRUE

(* uint256(_status) <= 1 *)
StoredUndecided(p) == proposals[p].status \in {"Inactive", "Active"}

SignerLists == UNION {[1 .. n -> Accounts] : n \in 0 .. MaxSignatures}

(* voteProposals: the proposal is built from the signatures, its handler is *)
(* called, and only then the stored proposal is looked at and replaced.     *)
voteProposals(t, signers) ==
    LET h == HandlerOf(t)
        p == <<t, h>>
        votes == Cardinality(DOMAIN signers)
        accounts == {signers[i] : i \in DOMAIN signers}
    IN  /\ ~paused
        /\ h # NoHandler
        /\ ReachesThreshold(votes)
        /\ DistinctVotes(signers)
        /\ FitsTotal(votes)
        /\ StoredUndecided(p)
        /\ Store(p, [status |-> "Executed",
                     yesVotes |-> UNION {_relayerBit(a) : a \in accounts},
                     yesVotesTotal |-> votes,
                     proposedBlock |-> ProposedNow])
        /\ Effect(p)
        /\ voters' = [voters EXCEPT ![p] = accounts]
        /\ unmarked' = [unmarked EXCEPT ![p] = Unmarked(accounts)]
        /\ openedAt' = [openedAt EXCEPT ![p] = blockNumber]
        /\ reindexed' = reindexed \ {p}
        /\ UNCHANGED <<roles, paused, config, blockNumber>>

(* executeProposal with a handler that succeeds.  With one that reverts    *)
(* the call reverts too, or puts the Passed status back: nothing changes.  *)
executeProposal(relayer, t) ==
    LET h == HandlerOf(t)
    IN  /\ isRelayer(relayer)
        /\ ~paused
        /\ h # NoHandler
        /\ _executeProposal(<<t, h>>)
        /\ UNCHANGED <<roles, paused, config, blockNumber, voters, unmarked, openedAt,
                       reindexed>>

(* cancelProposal takes a dataHash, so p need not be under the resource's   *)
(* present handler.  It runs while the bridge is paused too.                *)
cancelProposal(sender, p) ==
    /\ isAdmin(sender) \/ isRelayer(sender)
    /\ proposals[p].status \in {"Active", "Passed"}
    /\ Expired(proposals[p])
    /\ Store(p, [proposals[p] EXCEPT !.status = "Cancelled"])
    /\ UNCHANGED <<roles, paused, config, blockNumber, history>>
-----------------------------------------------------------------------------
(* Administration *)

adminPauseTransfers(admin) ==
    /\ isAdmin(admin)
    /\ ~paused
    /\ paused' = TRUE
    /\ UNCHANGED <<roles, config, blockNumber, proposals, history>>

adminUnpauseTransfers(admin) ==
    /\ isAdmin(admin)
    /\ paused
    /\ paused' = FALSE
    /\ UNCHANGED <<roles, config, blockNumber, proposals, history>>

adminChangeRelayerThreshold(admin, newThreshold) ==
    /\ isAdmin(admin)
    /\ relayerThreshold' = newThreshold
    /\ UNCHANGED <<roles, paused, expiry, resourceIDToHandlerAddress, blockNumber,
                   proposals, history>>

adminChangeExpiry(admin, newExpiry) ==
    /\ isAdmin(admin)
    /\ expiry' = newExpiry
    /\ UNCHANGED <<roles, paused, relayerThreshold, resourceIDToHandlerAddress, blockNumber,
                   proposals, history>>

SetHandler(r, h) ==
    /\ resourceIDToHandlerAddress' = [resourceIDToHandlerAddress EXCEPT ![r] = h]
    /\ UNCHANGED <<roles, paused, relayerThreshold, expiry, blockNumber, proposals, history>>

(* adminSetResource and adminSetGenericResource; what they make the handler *)
(* store is not part of this module.                                        *)
adminSetResource(admin, r, h) == isAdmin(admin) /\ SetHandler(r, h)

(* adminRemoveResourceId and adminRemoveGenericResource; their call of the  *)
(* handler reverts when there is none.                                      *)
adminRemoveResourceId(admin, r) ==
    /\ isAdmin(admin)
    /\ resourceIDToHandlerAddress[r] # NoHandler
    /\ SetHandler(r, NoHandler)

GrantRelayer(account) ==
    /\ relayers' = _grantRole(relayers, account)
    /\ UNCHANGED <<admins, paused, config, blockNumber, proposals, history>>

RevokeRelayer(account) ==
    /\ relayers' = _revokeRole(relayers, account)
    /\ reindexed' = IF isRelayer(account)
                    THEN reindexed \union {p \in Proposals : proposals[p].status = "Active"}
                    ELSE reindexed
    /\ UNCHANGED <<admins, paused, config, blockNumber, proposals, effects, voters, unmarked,
                   openedAt>>

adminAddRelayer(admin, account) ==
    /\ isAdmin(admin)
    /\ getRoleMemberCount(relayers) < MAX_RELAYERS
    /\ GrantRelayer(account)

adminRemoveRelayer(admin, account) ==
    /\ isAdmin(admin)
    /\ paused
    /\ RevokeRelayer(account)

SetAdmins(members) ==
    /\ admins' = members
    /\ UNCHANGED <<relayers, paused, config, blockNumber, proposals, history>>

renounceAdmin(admin, newAdmin) ==
    /\ isAdmin(admin)
    /\ admin # newAdmin
    /\ paused                  \* from the override of renounceRole
    /\ SetAdmins((admins \union {newAdmin}) \ {admin})

(* AccessControl's own public functions, for each of the two roles.         *)
grantRole(admin, account) ==
    /\ isAdmin(admin)
    /\ GrantRelayer(account) \/ SetAdmins(admins \union {account})

revokeRole(admin, account) ==
    /\ isAdmin(admin)
    /\ RevokeRelayer(account) \/ SetAdmins(admins \ {account})

renounceRole(account) ==
    /\ paused
    /\ RevokeRelayer(account) \/ SetAdmins(admins \ {account})

NextBlock ==
    /\ blockNumber < MaxBlock
    /\ blockNumber' = blockNumber + 1
    /\ UNCHANGED <<roles, paused, config, proposals, history>>
-----------------------------------------------------------------------------
Vote ==
    \E t \in Transfers :
        \/ \E relayer \in Accounts, ok \in BOOLEAN : voteProposal(relayer, t, ok)
        \/ \E signers \in SignerLists : voteProposals(t, signers)
        \/ \E relayer \in Accounts : executeProposal(relayer, t)

Cancel == \E sender \in Accounts, p \in Proposals : cancelProposal(sender, p)

Configure ==
    \E admin \in Accounts :
        \/ adminPauseTransfers(admin)
        \/ adminUnpauseTransfers(admin)
        \/ \E n \in Thresholds : adminChangeRelayerThreshold(admin, n)
        \/ \E n \in Expiries : adminChangeExpiry(admin, n)
        \/ \E r \in Resources :
              \/ \E h \in Handlers : adminSetResource(admin, r, h)
              \/ adminRemoveResourceId(admin, r)

ChangeRoles ==
    \/ \E admin \in Accounts, account \in Candidates :
          \/ adminAddRelayer(admin, account)
          \/ adminRemoveRelayer(admin, account)
          \/ renounceAdmin(admin, account)
          \/ grantRole(admin, account)
          \/ revokeRole(admin, account)
    \/ \E account \in Candidates : renounceRole(account)

Next == Vote \/ Cancel \/ Configure \/ ChangeRoles \/ NextBlock

Spec == Init /\ [][Next]_vars

(* The relayers' programs, which are not in the repository, and the admins  *)
(* are assumed to persist: a relayer repeats voteProposal as long as the    *)
(* proposal is open and a pause ends.  The TRUE says that the handler's     *)
(* call is not refused for ever.                                            *)
Fairness ==
    /\ \A relayer \in Accounts, t \in Transfers : SF_vars(voteProposal(relayer, t, TRUE))
    /\ WF_vars(\E admin \in Accounts : adminUnpauseTransfers(admin))

FairSpec == Spec /\ Fairness
-----------------------------------------------------------------------------
(* Properties *)

(* Every variable has its type. *)
TypeOK ==
    /\ relayers \in [Accounts -> Nat]
    /\ admins \subseteq Accounts
    /\ paused \in BOOLEAN
    /\ relayerThreshold \in 0 .. Uint8Limit - 1
    /\ expiry \in Nat
    /\ blockNumber \in 0 .. MaxBlock
    /\ resourceIDToHandlerAddress \in [Resources -> Handlers \union {NoHandler}]
    /\ proposals \in [Proposals -> Proposal]
    /\ effects \in [Proposals -> Nat]
    /\ voters \in [Proposals -> SUBSET Accounts]
    /\ unmarked \in [Proposals -> SUBSET Accounts]
    /\ openedAt \in [Proposals -> 0 .. MaxBlock]
    /\ reindexed \subseteq Proposals

(* The bit map of votes rests on relayers having the indices 1..n, each     *)
(* one once, whatever mix of grants, revocations and renunciations (each    *)
(* removal moves the last relayer) went before: utils/AccessControl.sol and *)
(* _relayerBit.                                                             *)
RelayersEnumerated == IsEnumeration(relayers)

(* The handler of a proposal takes effect once if the proposal is Executed  *)
(* and not at all otherwise, over voteProposal, voteProposals,              *)
(* executeProposal and the failed calls that put the Passed status back.    *)
EffectExactlyOnce ==
    \A p \in Proposals : effects[p] = IF proposals[p].status = "Executed" THEN 1 ELSE 0

(* _yesVotesTotal is the number of bits set in _yesVotes as long as every   *)
(* vote counted had a bit, and never less (voteProposal, voteProposals).    *)
VotesMatchBits ==
    \A p \in Proposals :
        /\ Cardinality(proposals[p].yesVotes) <= proposals[p].yesVotesTotal
        /\ unmarked[p] = {} => Cardinality(proposals[p].yesVotes) = proposals[p].yesVotesTotal

(* As long as no relayer lost its role while the proposal was open, every   *)
(* bit of its votes is the bit of another account that voted; and if        *)
(* besides all its voters had a bit, every vote counted is another          *)
(* account's (_hasVoted, _relayerBit).                                      *)
OneVotePerRelayer ==
    \A p \in Proposals \ reindexed :
        /\ Cardinality(voters[p] \ unmarked[p]) = Cardinality(proposals[p].yesVotes)
        /\ unmarked[p] = {} => Cardinality(voters[p]) = proposals[p].yesVotesTotal

(* The doc of voteProposal, "{_msgSender()} must not have already voted on  *)
(* proposal.": every vote counted is another account's, without exceptions. *)
OneVotePerRelayerAlways ==
    \A p \in Proposals : Cardinality(voters[p]) = proposals[p].yesVotesTotal

(* The same while no relayer loses its role.  One whose index exceeds the   *)
(* word votes again and again.                                              *)
OneVoteWhileRelayersStay ==
    \A p \in Proposals \ reindexed : Cardinality(voters[p]) = proposals[p].yesVotesTotal

Crowded == getRoleMemberCount(relayers) > WordBits

(* A vote without a bit is counted only while there are more relayers than  *)
(* the word has bits: never with the relayers adminAddRelayer allows.       *)
UnmarkedOnlyWhenCrowded ==
    [][\A p \in Proposals : unmarked'[p] \subseteq unmarked[p] \/ Crowded]_vars

(* The comment on MAX_RELAYERS: "Limit relayers number because proposal can *)
(* fit only so much votes".                                                 *)
RelayersLimited == getRoleMemberCount(relayers) <= MAX_RELAYERS

Undecided(p) == proposals[p].status \in {"Inactive", "Active"}

QuorumStep(p) ==
    Undecided(p) /\ proposals'[p] # proposals[p] /\ proposals'[p].status # "Cancelled" =>
       /\ proposals'[p].status \in {"Passed", "Executed"}
             <=> proposals'[p].yesVotesTotal >= relayerThreshold
       /\ ~paused
       /\ p[2] = HandlerOf(p[1])

ClosedStep(p) ==
    ~Undecided(p) => proposals'[p] = [proposals[p] EXCEPT !.status = proposals'[p].status]

Cancelling(p) == proposals[p].status # "Cancelled" /\ proposals'[p].status = "Cancelled"

(* A step that touches an undecided proposal, other than to cancel it,      *)
(* decides in its favour exactly when the votes it then has reach the       *)
(* threshold of that moment; and it happens unpaused and under the handler  *)
(* its resource has at that moment.                                         *)
DecidedByQuorum == [][\A p \in Proposals : QuorumStep(p)]_vars

(* Once a proposal is passed, executed or cancelled its votes and its block *)
(* stay what they are: a late vote never counts.                            *)
BallotClosed == [][\A p \in Proposals : ClosedStep(p)]_vars

(* A proposal is cancelled only when more than expiry blocks have really    *)
(* passed since it was created, although ages are computed on 40 bits.      *)
CancelledOnlyWhenOld ==
    [][\A p \in Proposals : Cancelling(p) => blockNumber - openedAt[p] > expiry]_vars

(* The doc of cancelProposal: "Only callable by relayers when Bridge is not *)
(* paused."                                                                 *)
CancelledOnlyUnpaused == [][\A p \in Proposals : Cancelling(p) => ~paused]_vars

(* With persistent relayers a proposal under its resource's handler is      *)
(* executed or cancelled, through pauses, failing handlers, and changes of  *)
(* expiry and threshold, unless every relayer has voted, or has a bit that  *)
(* does not fit, and the votes still do not make up the threshold.          *)
OpenProposalsSettle ==
    \A p \in Proposals :
        proposals[p].status \in {"Active", "Passed"} ~>
            \/ proposals[p].status \in {"Executed", "Cancelled"}
            \/ HandlerOf(p[1]) # p[2]
            \/ /\ proposals[p].status = "Active"
               /\ \A relayer \in Members(relayers) :
                     \/ _hasVoted(proposals[p], relayer)
                     \/ getRoleMemberIndex(relayers, relayer) \in VoteBits + 1 .. WordBits

DecisionOf == [Inactive |-> "Open", Active |-> "Open", Passed |-> "Approved",
               Executed |-> "Released", Cancelled |-> "Rejected"]

Decision == [p \in Proposals |-> DecisionOf[proposals[p].status]]

Lifecycle == INSTANCE ProposalLifecycle WITH decision <- Decision

(* Every proposal follows the abstract life cycle: decided once, its effect *)
(* exactly with the decision to release, none after a rejection.            *)
LifecycleSpec == Lifecycle!Spec
-----------------------------------------------------------------------------
(* What the proofs carry from step to step about one proposal: its bits are *)
(* its voters' present ones while it is open and nobody was removed, its    *)
(* creation block is remembered modulo BlockMod, and nothing has been voted *)
(* before it is created.                                                    *)
ProposalInv(p) ==
    LET proposal == proposals[p]
    IN  /\ effects[p] = IF proposal.status = "Executed" THEN 1 ELSE 0
        /\ Cardinality(proposal.yesVotes) <= proposal.yesVotesTotal
        /\ unmarked[p] = {} => Cardinality(proposal.yesVotes) = proposal.yesVotesTotal
        /\ proposal.status = "Inactive" =>
              proposal.yesVotes = {} /\ voters[p] = {} /\ unmarked[p] = {}
        /\ p \notin reindexed =>
              Cardinality(voters[p] \ unmarked[p]) = Cardinality(proposal.yesVotes)
        /\ p \notin reindexed /\ proposal.status = "Active" =>
              /\ voters[p] \subseteq Members(relayers)
              /\ unmarked[p] = Unmarked(voters[p])
              /\ proposal.yesVotes = UNION {_relayerBit(a) : a \in voters[p]}
        /\ openedAt[p] <= blockNumber
        /\ proposal.status # "Inactive" => proposal.proposedBlock = openedAt[p] % BlockMod

(* The inductive invariant: the properties above and what they rest on.     *)
IInv ==
    /\ TypeOK
    /\ RelayersEnumerated
    /\ \A p \in Proposals : ProposalInv(p)
=============================================================================
