# Passport v2 bridge: specifications, model checking and proofs

Meter Passport moves tokens between EVM chains. On the origin chain a user
deposits at `Bridge.sol`, whose handler locks or burns the token and which emits
a `Deposit` event with a per-destination nonce. Relayers see the event and either
vote for the transfer at the destination's `Bridge.sol`, or sign it for the
destination chain and post the signature at `Signatures.sol` on a hub chain, from
where anyone can carry a quorum of signatures to the destination. There the
handler releases or mints the token.

This directory specifies that system in TLA+, checks it with TLC and proves
theorems about it with TLAPS. Paths below are relative to `src/contracts/`
unless they begin with `tasks/` or `script/`, which are in `src/`.

## 1. Inventory

| Part | State | Operations | Interacts with |
|---|---|---|---|
| Bridge: proposals (`Bridge.sol`, `BridgeUpgradeable.sol`) | `_proposals`, `_relayerThreshold`, `_expiry`, `_resourceIDToHandlerAddress`, `_paused`, `_status` (reentrancy guard) | `voteProposal`, `voteProposals`, `executeProposal`, `cancelProposal`, admin setters | calls the handler in the middle of a vote or an execution; reads roles |
| Bridge: deposits and fees (same files) | `_depositCounts`, `_fee_`, `specialFee`, `special`, `_feeReserve`, `isValidForwarder`, its ether | `deposit`, `adminSetFee`, `adminSetSpecialFee`, `adminRemoveSpecialFee`, `adminSetDepositNonce`, `adminSetForwarder`, `transferFee` | calls the handler with ether; emits the event relayers act on |
| Roles (`utils/AccessControl.sol`) | per role an enumerable set: members with an index | `grantRole`, `revokeRole`, `renounceRole`, and the bridge's `adminAddRelayer`, `adminRemoveRelayer`, `renounceAdmin` | a relayer's index is the bit of its vote |
| Signature hub (`Signatures.sol`, `SignaturesUpgradeable.sol`) | `signatures`, `relayerVote`, `proposals`, `indexToProposal`, `proposalIndex`, `_relayerThreshold`, `destChainId`, `destinationBridgeAddress` | `submitSignature`, admin setters, pause | relayers post, anyone reads and calls `voteProposals` |
| ERC20, ERC721, ERC1155 handlers (`handlers/`) and their safes | resource and token maps, allow, burn and native lists, `ETHReserve`, tokens held | `deposit`, `executeProposal`, `withdraw`, `withdrawETH`, `setResource`, `removeResource`, `setBurnable`, `setNative` (bridge only) | tokens: lock and release, or burn and mint |
| Generic handler | contract, resource, white list, and per contract the registered functions and depositor position | the same, with calls of registered contracts | `CentrifugeAsset` as a registered contract |
| Forwarder (`Forwarder.sol`) | `_nonces` | `execute`, `verify` | calls the bridge for a signer, whose address the bridge reads from the end of the call data |
| Fee handlers (`handlers/fee/`) | fee, oracle address, gas, percentage | `collectFee`, `calculateFee`, `transferFee`, setters | no longer called by the bridge (`_feeHandler; // scrap`) |
| Token of the bridge (`ERC20MintablePauseableUpgradeable.sol`) | balances, allowances, minters, black list, pause, permit nonces | ERC20 with mint, burn, pause, `setBlackList`, `permit` | called by handlers and users |
| Deployment tasks (`tasks/`, `script/deployTool.ts`) | one file of addresses and tokens per network | deploy behind proxies, deploy and register tokens | read the file and the contracts, send transactions, write the file |
| Proxies (`proxy/`) | admin and implementation slots | `upgradeTo`, `changeAdmin`, fallback | run the upgradeable twins |

What is hard about it:

* **Interleaving.** Every call is a transaction of its own, and transactions of
  relayers, users and admins come in any order. A vote meets a proposal another
  relayer just passed, cancelled or executed. Operators' tasks are not even
  transactions: they read, wait and write.
* **Indices as identities.** A vote is stored as the voter's index in the
  relayer set, and removing a relayer moves the last one.
* **Partial failure.** A handler may revert in the middle of a vote; `try/catch`
  keeps the vote and puts the status back. What one chain has taken may never be
  given by the other. A task may stop between two transactions.
* **Calls that come back.** Handlers and tokens run in the middle of
  `voteProposals`, before the stored proposal is looked at; `deposit` and
  `cancelProposal` are not `nonReentrant`; a forwarded call can bring the next.
* **Time and gas.** Proposals expire by block count, truncated to 40 bits. A call
  gets 63 64ths of the gas at most, chosen by whoever sends it.
* **Changing parameters.** Threshold, expiry, relayers, handlers, burn lists,
  targets and pause change while proposals are open and tokens are on their way.

What makes each part correct:

| Part | Properties | Where |
|---|---|---|
| Bridge: proposals | one decision and one effect per proposal; decided exactly by a quorum of the moment; votes frozen after the decision; cancelled only when really old; open proposals settle | `BridgeProposals`, `ProposalLifecycle` |
| Roles | indices are an enumeration; the bits of the votes counted for one proposal are different accounts' | `AccessControl`, `BridgeProposals` |
| Signature hub | one signature per relayer; exact announcement of a quorum; the index is a directory; a quorum is for one target; deposits reach their quorum | `SignatureHub` |
| Bridge: deposits, fees | destination and nonce name one deposit, no gaps; the bridge's ether is exactly the undistributed fees | `TokenCustody` |
| ERC20 handler and safe | recorded ether is backed; what is taken and given is the amount in every mode | `ERC20Handler`, `TokenCustody`, `CrossChain` |
| Two chains together | a transfer is delivered once at most; no value is created or lost; what is under way is covered; transfers arrive or are cancelled | `CrossChain`, `BridgedAsset` |
| Calls back into the bridge | between transactions proposals make steps of their life cycle only; all nonces come out once | `BridgeCalls`, `ProposalLifecycle` |
| Forwarder | a request takes effect once at most, in nonce order, in its author's name, and is not used up by too little gas | `Forwarder` |
| Generic handler | its maps agree through registrations and removals; depositors are true; executed means stored | `GenericHandler` |
| ERC721, ERC1155 | one live copy of an ID; only owners and admins move it; all amounts accounted for; returns covered | `ERC721Handlers`, `ERC1155Handlers` |
| Token of the bridge | approvals are never exceeded; one permit per nonce; frozen means frozen | `BridgeToken` |
| Oracle fee | a fee covers its cost in full numbers, not modulo the word | `FeeOracle` |
| Deployment tasks | the file's handlers serve the file's bridge; registrations are right and stay | `ProxyTasks`, `TokenTasks` |

External to the repository, hence not components: the relayers' programs, the
tokens of others, the EVM, OpenZeppelin's packages.

## 2. Modules

| Module | Models | Notes |
|---|---|---|
| `AccessControl` | `utils/AccessControl.sol`: a role as a function from accounts to indices 1..n, 0 for "not a member"; granting appends, revoking moves the last member into the hole | pure operators |
| `ProposalLifecycle` | nothing in the code: the promise about one proposal (Open, Approved, Released, Rejected, and the count of effects) | abstract specification |
| `BridgeProposals` | the destination side of `Bridge.sol` | refines `ProposalLifecycle` |
| `SignatureHub` | `Signatures.sol` | |
| `ERC20Handler` | handler, helper and safe as operators from a handler's storage and a ledger to the set of outcomes (empty: revert) | pure operators |
| `TokenCustody` | the origin side of `BridgeUpgradeable.sol` with its ERC20 handlers and the ledger of all accounts | uses `ERC20Handler` |
| `BridgedAsset` | nothing in the code: the promise about one asset on several chains (sent once, delivered once, paid out by admins) | abstract specification |
| `CrossChain` | several chains, each with a bridge, handlers and a ledger, and the relayers between them | uses `ERC20Handler`, refines `BridgedAsset` |
| `BridgeCalls` | the functions of `Bridge.sol` that call out, as frames of a call stack | refines `ProposalLifecycle` between transactions |
| `Forwarder` | `Forwarder.sol` with the bridge's `_msgSender` and `adminSetForwarder` | a call stack, as in `BridgeCalls` |
| `GenericHandler` | generic handlers under the bridge's resource map, and the contracts they call | |
| `ERC721Handlers`, `ERC1155Handlers` | a token of that kind on two chains and its handlers | |
| `BridgeToken` | `ERC20MintablePauseableUpgradeable.sol` over an external ERC20 | |
| `FeeOracle` | `FeeHandlerWithOracle.sol` | |
| `ProxyTasks`, `TokenTasks` | the tasks that deploy proxies, and those that deploy and register tokens, with the file each network has | |
| `FiniteSums` | nothing in the code: the sum of a function over a finite set, as a cardinality | used by `CrossChain`, `ERC1155Handlers`, `BridgeToken` |
| `Handlers`, `Periphery` | nothing of their own: the modules of the three rows of handlers, and of the token, fees and tasks, under one set of constants and variables, with what each promises | for `MCHandlers`, `MCPeriphery` and their proofs |
| `MC...` | the instances TLC checks | |
| `BridgeProposals_proof`, `SignatureHub_proof`, `TokenCustody_proof`, `CrossChain_proof`, `BridgeCalls_proof`, `Handlers_proof`, `Periphery_proof`, `FiniteSums_proof` | theorems and proofs (of `Forwarder` too in `Periphery_proof`) | |

`Bridge.sol` and `BridgeUpgradeable.sol`, `Signatures.sol` and
`SignaturesUpgradeable.sol`, and each handler and its upgradeable twin, have the
same functions apart from constructor and initializer; the map cites one of the two.

How to read them against the code:

* **An action is one successful transaction.** A revert leaves no trace, so every
  `require`, modifier and checked subtraction is a guard. An action contains all
  that the transaction changes. `voteProposal`, for instance, is one action whose
  four disjuncts are the branches of the function: a Passed proposal is executed;
  the first vote creates a proposal; a vote is counted (and with the last one
  missing the handler is called at once); a late vote cancels.
* **Why one action.** `BridgeCalls` and `Forwarder` do not take transactions as
  atomic: there a function that calls out is a frame on a stack, the called
  contract may call any function on anybody's behalf, and a revert restores the
  storage that the frame remembers. `AtomicLifecycle` justifies the atomic modules:
  what an observer sees between transactions are steps they also have.
* **Proposals** are keyed in the code by (domain, nonce) and a hash of resource,
  handler and data. In `BridgeProposals` and `CrossChain` the key is a *transfer*
  (what the relayers agree on) and a handler, so replacing a handler makes another
  proposal, as in the code.
* **Handlers fail or succeed** in `BridgeProposals` (`ok`); what they do is in
  the handlers' modules. A failed call inside `try` leaves Passed; one that is not
  caught reverts the transaction, and is then no step.
* **A signature** is its signer, and on the hub also the target (chain and bridge)
  it was made for; `ECDSA.recover` yields the signer only for that target.
  `CrossChain` keeps the signers of a transfer: a signature does not name the handler.
* **The bit map** of votes is the set of positions set, from 1. `_relayerBit` shifts a
  256-bit word by the relayer's index: up to 200 (`VoteBits`) the bit fits the map;
  from there to 256 (`WordBits`) `toUint200` reverts, which is the guard `FitsVote`;
  beyond 256 there is no bit, nothing to revert for, and `_hasVoted` finds no vote, so
  such a relayer is counted as often as it votes or its signature is repeated. The
  counter is a `uint8` (`FitsTotal`). Block numbers and ages are truncated to `BlockMod`.
* **Assets.** The ledger holds every account's balance of every token and of
  ether. Tokens are ordinary ERC20s: a transfer happens in full if the owner
  has the amount. A handler's deposit and release have a mode per token:
  burn and mint, native (ether), or lock and release.
* **Side by side.** `Handlers` and `Periphery` instantiate modules that share no state.
  In `MCHandlers` and `MCPeriphery` the variable `part` says which of them a behaviour
  moves; the others keep their first state. Two modules are moved in two parts each, one
  for each half of their actions, to keep the instances small: generic handlers with
  deposits or with executions, the token with three permits or with an admin and time.
* **Tasks** read the network's file when they start, work on their copy, may stop at
  any `await`, and write the whole copy at the end; each transaction is an action.
* **History variables** (`effects`, `voters`, `unmarked`, `openedAt`, `reindexed`; `passes`,
  `highest`, `rethought`, `retargeted`; `deposits`, `distributed`, `nudged`;
  `acted`, `replaced`, `withdrawn`; `acts`, `failed`; `mistaken`, `ran`; `granted`,
  `spent`, `used`, and so on) are written by actions and read only by properties.
  (`acted` is also the relayers' own memory, see below.)

Abstractions to keep in mind:

* `CrossChain` assumes of relayers that they act only on deposits that have happened,
  and once on each, with a vote or with a signature. Their programs are not in the
  repository; nothing in the contracts could enforce it. A proposal may expire
  at any time; blocks, pause, fees and roles are in the modules of the single contracts.
* `TokenCustody` leaves who is an admin to `BridgeProposals`, lets a release
  happen whenever the handler is asked for one, and treats `transferFee`'s list
  as single payments.
* `ERC721Handlers` and `ERC1155Handlers` take from `CrossChain` that a deposit is
  executed at most once or cancelled; all users have approved the handlers.
* `Forwarder` leaves out the ether of requests, and the gas that `execute` itself
  uses between the call and its check. The 63/64 rule is the EVM's.
* Events, error texts and views that read without changing are left out, except
  the `Deposit` events of `BridgeCalls`, whose order is the question there.

## 3. Runs

| Run | What it asks | Bounds and why they are enough |
|---|---|---|
| `proposals_votes` | `EffectExactlyOnce`, `DecidedByQuorum`, `BallotClosed`, `CancelledOnlyWhenOld`, `LifecycleSpec` | 3 relayers, 1 transfer, 2 handlers, so 2 proposals of one transfer; thresholds 1 to 3, so that lowering and raising pass over the votes counted; up to 3 signatures, repeated signers included; 2 bits in a word of 2, so that one relayer has none and votes repeatedly; expiry 0 and 1, blocks 0 to 3 with ages modulo 3, so that a stored block wraps around |
| `proposals_roles` | `RelayersEnumerated`, `OneVotePerRelayer` | 3 relayers, of which 2 may be removed and come back, as relayers or admins; the removed one is first, middle or last; the first admin may become a fourth. 2 bits in a word of 3: two relayers' bits fit, the third's does not, the fourth has none |
| `proposals_live` | `OpenProposalsSettle` | 3 relayers, one of them with a bit that does not fit, 2 handlers, threshold changed to 1 and to 3 (which two votes never reach), failing handlers, pauses, expiry |
| `proposals_doublevote` | the finding of section 5 | as `proposals_roles`, with 3 relayers who all have bits that fit |
| `hub` | `OneSignaturePerRelayer`, `IndexIsDirectory`, `AnnouncedAtQuorum`, `SignedForOneTarget`, `DepositsReachQuorum` | 2 relayers, 2 deposits to one destination, 2 bridges; thresholds 1 to 3 change at any time below, at and above the signatures stored, and 4 is the first that does not fit (`Uint8Limit` 4) |
| `custody` | `NoncesIncrease`, `ReserveBacked`, `FeesAccounted` | one user with 4 wei and a token, one handler, 2 destinations; 0 to 2 wei with a call and a fee of 1, so that a call pays too little, exactly or too much; up to 3 deposits and nonces up to 2, so that the limit is met by counting and by setting; all three modes and changes between them |
| `chains_safe` | `DeliveredOnce`, `ValueConserved` | 2 chains, a transfer of 2 units out and of 1 back, 2 handlers that may be replaced and made burnable at any time, 2 relayers with threshold 2, voting or signing, withdrawals of 1 |
| `chains_live` | `PendingCovered`, `BridgedSpec`, `TransfersSettle` | one handler on each chain that stays, 2 units out, two transfers back that together need both |
| `calls` | `NoncesComplete`, `AtomicLifecycle` | 2 transfers, 3 relayers with threshold 2, calls up to 4 deep: deposits within each other, within an execution and around one; 3 deposits, so that two nest within a third |
| `forwarder` | `ActsAuthorised`, `InNonceOrder`, `NoncesAccounted`, `GasHonoured`, `SpentFinal` | 2 forwarders, two requests with one nonce, one with the next, one for the other forwarder; gas 64 and 66 against 0, 63 and 64 asked for, on both sides of where the divisions by 63 and 64 round; calls up to 3 deep, 3 acts |
| `handlers` | `MapsAgree`, `DepositorsTrue`; `ExecutedIsStored`; `CopiesAccounted`, `OnlyOwnerMoves`; `AmountsAccounted`, `ReturnsCovered` | 2 generic handlers, 2 resources, 2 contracts, 4 changes: enough to set, remove with the wrong pair, move and come back, while users deposit or while 3 proposals for one item are executed; one ERC721 ID, 4 deposits, 3 changes; 2 units each of 2 ERC1155 IDs, batches with a repeated ID and of unequal lengths, 3 deposits |
| `periphery` | `PermitsAccounted`; `FrozenStays`; `FeeCovers`; `FileFits`; `RegisteredRight` | 2 accounts, 3 permits (two for one nonce); with an admin and time, a supply of 2 and approvals of 1 (`FrozenSupply`, `FrozenGrants`); a word of 4 bits, so that products overflow; 2 operators with up to 3 tasks on proxies (a third writes after the two have overlapped), or 5 on 2 tokens |

Every bound is a constant: `MaxBlock`, `MaxSignatures`, `MaxDeposits`, `MaxDepth`,
`MaxActs`, `MaxTime`, `MaxSupply`, `MaxGranted`, `MaxProxies`, `MaxTokens`, `MaxTasks`,
`MaxBalance` (minting has no limit) and `MaxChanges` (of the configuration), under
`Handlers` and `Periphery` also as `MaxResourceChanges`, `MaxNftChanges`, `MaxNftDeposits`
and `MaxProxyTasks`, keep the state spaces finite; `VoteBits`, `WordBits`, `MAX_RELAYERS`, `BlockMod`, `Uint8Limit`,
`MaxNonce` and `MaxUint` stand for limits of the code (200, 256, 200, 2^40, 2^8,
2^64 - 1, 2^256 - 1). One transfer is enough in `proposals_votes` because the bridge
never relates two of them. Sets of constants that nothing tells apart are
symmetric (relayers are, in `proposals_votes`, because they are all initial members
and only initial states differ in their order); the runs with liveness properties
use no symmetry. Deadlock is not checked: the contracts may come to rest, for instance
with the last admin gone, or at a bound.

The type invariants and inductive invariants (`TypeOK`, `IInv`, `HubIInv`, `CustodyIInv`,
`CrossChainIInv`, `AccountsIInv`, `CallsIInv`, `NoncesIInv`, `ForwarderIInv`, `GenericIInv`,
`ERC721IInv`, `ERC1155IInv`, `BridgeTokenIInv`, `ProxyTasksIInv`, `TokenTasksIInv`), and
some properties that follow from them, are proved (section 4) and are not in the runs.

Each property of a passing run has a mutant in `PROJECT.json`: a definition
with a small bug (a guard dropped, one off, a reset forgotten) under which the
same run finds the property violated. The mutated forms are the definitions
commented "as X, ..." in the modules.

### Fairness

Nothing in the contracts moves by itself.

* `FairSpec` of `BridgeProposals` assumes that relayers repeat `voteProposal` for a
  transfer whenever it is possible again and again (strong fairness, because a pause
  or another handler may disable it in between), that a handler does not fail for
  ever, and that a pause is ended (weak fairness of unpausing). `OpenProposalsSettle`
  then says that an open proposal is executed or cancelled, unless its resource has
  moved to another handler or all relayers whose bit fits have voted and the threshold is
  still not reached: lowering the threshold afterwards does not pass a proposal.
* `FairSpec` of `SignatureHub` assumes strong fairness of the signing of each
  persistent relayer; its property has the rest as its antecedent: unpaused again
  and again, and in the end persistent relayers who keep their role and are as many as
  the thresholds ask for.
* `FairSpec` of `CrossChain` assumes strong fairness of each relayer's `voteProposal`
  for each transfer, of the execution of a passed one, and of carrying a quorum of
  signatures. Signing is not fair: a relayer that may do either has done its
  part with a vote. `TransfersSettle` excludes a destination whose handler is
  replaced or cannot pay, and transfers that some relayers sign and others vote for,
  each too few: votes and signatures are not added up.

## 4. Proofs

TLAPS proves every safety and action property of the passing runs, and the refinements,
for all values of the constants that satisfy the named assumptions. These are
`ConstantsAssumption`, `HubAssumption`, `AssetAssumption`, `CustodyAssumption`,
`CallsAssumption`, `CrossChainAssumption`, `ForwarderAssumption`, `AccountsFinite` and, as
hypotheses of the theorems about them, those of the modules that `Handlers` and
`Periphery` instantiate. Mostly they say that the sets have their types, that roles,
accounts, chains and relayers are finite where they are counted or summed, and that the
null values are not real ones; besides, in `CrossChain` the threshold is a majority, the
tokens of `ERC721Handlers` and `ERC1155Handlers` are on two chains, the scales of
`FeeOracle` are not 0, and in `ProxyTasks` no handler is called "bridge" or "signature".

* `BridgeProposals_proof`: `Spec => []IInv`, and from it every safety and action
  property of the passing runs, `TypeOK`, `VotesMatchBits`, `UnmarkedOnlyWhenCrowded`, and
  `Spec => LifecycleSpec`, the refinement; lemmas on granting and revoking.
* `SignatureHub_proof`: `Spec => []HubIInv`, every invariant, and `PostedStays`.
* `TokenCustody_proof`: `Spec => []CustodyIInv`, and its parts; lemmas on what the
  handler's operators (`ERC20Handler`) take, give and preserve.
* `CrossChain_proof`: `Spec => []CrossChainIInv`, `DeliveredOnce`, and the refinement
  `BridgedSpec` where relayers only vote or handlers stay (`~MaySign \/ ~MayReplace`);
  `Spec => []AccountsIInv`, `ValueConserved` and `PendingCovered`.
* `BridgeCalls_proof`: `Spec => []CallsIInv`, and from it `SettledEffects`,
  `GuardReleased` and the refinement `AtomicLifecycle`; `Spec => []NoncesIInv`, and
  `NoncesComplete`.
* `Handlers_proof`: the inductive invariants of `GenericHandler`, `ERC721Handlers` and
  `ERC1155Handlers`, and all seven properties of `handlers`.
* `Periphery_proof`: `Spec => []ForwarderIInv`, and all five properties of `forwarder`;
  the inductive invariants of `BridgeToken`, `FeeOracle` (`FeesIInv`, defined there),
  `ProxyTasks` and `TokenTasks`, and all five properties of `periphery`.
* `FiniteSums_proof`: what a sum is over nothing, over one element, over two disjoint
  sets, and how it changes with one value.

**`IInv`.** `EffectExactlyOnce`, `VotesMatchBits` and `OneVotePerRelayer` are not
inductive. That a vote sets a bit that was clear, or none, is the check `_hasVoted`; that
the voter of a new bit is not among the voters already counted needs in addition that the
bits of an open proposal are its voters' *present* ones and that indices are
injective: `RelayersEnumerated` and the clause of `ProposalInv` on
`yesVotes`. From both, `BitsCounted` says that there are as many bits as voters who
have one; the others are `unmarked`. `WordSuffices` says that somebody is `unmarked` only
after a vote with more than 256 relayers, which `adminAddRelayer` never allows (it stops
at 200): without them, and without removals, each vote counted is another account's.
The clause on `yesVotes` survives a grant (which appends) but not a removal
(which moves an index), hence the exception `reindexed`, and hence the finding
`proposals_doublevote` without it. `CancelledOnlyWhenOld` needs that the stored
block is the creation block modulo `BlockMod`: then the age modulo `BlockMod` is
at most the real one, so a truncated age above the expiry means a real one above
it. The converse fails: after 2^40 blocks an old proposal looks young.

**`HubIInv`** adds to the properties that a threshold is at most the largest one
so far; `IndexIsDirectory` is carried with the others because the append
of a new deposit must not collide with an index in use.

**`CustodyIInv`** adds `CountsExact`: the nonce of a destination never set by an
admin is the number of its deposits, which makes "no gaps" inductive.
`ReserveBacked` rests on the ledger's types (no balance below 0, as the
EVM ensures) and on `withdrawETH` re-reading the balance: a release to the handler
itself is refused because the ether comes back.

**`CrossChainIInv`.** A transfer executed under two handlers would need a quorum for
each, and two majorities meet (`QuorumsMeet`) in a relayer who voted for both,
which a relayer that acts once does not. So the invariant says that the votes of a
transfer's proposals overlap only in signers, and that a passed proposal is
supported by a quorum of voters who did not sign or by a quorum of signers. The
refinement then follows step by step: a deposit sends, an execution delivers, the rest
stutters but an admin's withdrawal. It fails when a signed transfer's handler is
replaced, because signatures count for the new handler's proposal too.

**`AccountsIInv`** adds the books. What circulates on all chains, what is under way, what
users had at first and what admins paid out are sums over sets of any finite size. The
provers cannot use induction theorems, which take an operator as a parameter, so
`FiniteSums` defines a sum as the number of its units: what it does when one value
changes then follows from the library's theorems about cardinalities (TLC compares both
definitions, `TotalsAreSums`). `ValueConserved` is inductive beside `CrossChainIInv`, which
says that an execution delivers what was sent and not delivered before; a deposit takes
from a chain what it adds to the amount under way, an execution the other way round.
`PendingCovered` needs `LockedAtHome` as well: while the home handler locks and stays, it
and the users of its chain hold together what was issued, so that the rest of the books,
the other chains' users and what is under way, is what the handler holds and admins paid.

**`CallsIInv`** speaks of every storage the stack could go back to (`StorageAt(i)`),
since any call may revert: in each the guard is entered exactly if a guarded call
is below it, an effect that is still to come belongs to a call that has marked its
proposal, and no decision is revised. At most one guarded call can be on the stack,
so the only interlopers are deposits and cancellations. They cannot touch the proposal
being executed, which is marked Executed before the handler runs, in
`executeProposal` and in a vote. `voteProposals` marks nothing before its call; a
proposal cancelled meanwhile is caught by the check of the stored status that follows.

**`NoncesIInv`** says, again of every storage on the stack, that the nonces up to the count
are those of the events together with those of the deposits that wait below for their
handler, each once. A revert drops a frame with its nonce and goes back to the count of
before it; where the stack is empty nobody waits, and the events are a numbering.

**`ForwarderIInv`** likewise carries its properties for every storage on the stack,
and that what is final between transactions is final in each of them; a running
`execute` holds a request whose nonce was the next one when it began, so that a
revert gives that nonce back with everything done under it. That a call which ran out
had what it asked for is integer arithmetic: if the call was given less than
`r.gas`, then what is left beside it is at most `r.gas \div 63`, and the assertion
fails (`GasLeftOver`).

**`GenericIInv`** adds `RegisteredAsWanted`: a white-listed contract has the functions it was
last registered with. `DepositorsTrue` looks back at deposits made under registrations
long gone, and would not follow from what the maps say now. `MapsInverse` excepts handlers
from which an admin removed a resource with another's contract (`mistaken`).

**`ERC721IInv`** says of each ID that no admin meddled with that it has at most one copy, is at
most once under way, and never both (`AtMostOnce`), without counting; `OneLiveCopy` says
the same with a cardinality. **`ERC1155IInv`** has all amounts in one equation per ID, as in
`AccountsIInv`, and `KeptAtHome`: while the token is not burnable at home, handler and users
there have the whole first supply. From both, `ReturnsCovered` is arithmetic.

**`BridgeTokenIInv`** adds to the properties that the nonces of used permits are below their
owner's (`NoncesBehind`), so that a permit for the present nonce is a new one, and that the
used ones are finitely many, so that they can be counted. **`FeesIInv`** only has the types of
what `FeeCovers` multiplies: the checked arithmetic makes the products those of full
numbers, and the prover is told how division rounds.

**`ProxyTasksIInv`** says of every task's copy of the file what `HandlersFit` and `IdOfBridge`
say of the file, since any copy may be written next, and that a copy is not behind what
was read. **`TokenTasksIInv`** names, for each running task, where it can be: the steps it
has left, and whose entry its copy knows (`own`: the entries of tokens deployed for
themselves, one domain each). A `deploy-native` for the coin of another domain deploys a
token and registers address `0x...1`; the invariant says that this task ends at
`setBurnable`, which the handler refuses, so that what its copy says is never written.

Only model-checked: the liveness properties (`OpenProposalsSettle`, `DepositsReachQuorum`,
`TransfersSettle`), since neither liveness under fairness nor ENABLED is within the
prover's reach; and the violation of section 5. No module has RECURSIVE operators.

## 5. What the code does otherwise than it says

* `proposals_doublevote`: a vote is stored under the relayer's *present* index. A
  removal gives the last relayer the removed one's index, so that relayer can vote on
  an open proposal again and counts twice, where the doc says the sender must not have
  voted already (`Bridge.sol:690`). Conversely a relayer may find its new bit taken.
  `adminRemoveRelayer` and `renounceRole` ask for a pause, and the second vote then comes
  after it; `revokeRole` (`utils/AccessControl.sol:150`) asks for none.

The modules also keep other statements of docs, comments and names as definitions that
the code does not satisfy. None is a promise of the models. Add the definition to the
run's configuration (`INVARIANT`, or `PROPERTY` for `CancelledOnlyUnpaused`) and TLC shows
how it fails:

| Definition | Run | What is said, and what happens |
|---|---|---|
| `RelayersLimited` | `proposals_roles` (`MAX_RELAYERS` is 2 there) | a limit of relayers, "because proposal can fit only so much votes" (`Bridge.sol:28`); only `adminAddRelayer` checks it, `grantRole` (`utils/AccessControl.sol:135`) and the constructor do not. A vote whose bit does not fit reverts, up to index 256 |
| `OneVoteWhileRelayersStay` | `proposals_roles` | the sender "must not have already voted" (`Bridge.sol:690`), without any removal; a relayer with an index above 256 has no bit (`Bridge.sol:143`), is never found to have voted, and is counted again with each vote and with each copy of its signature (`Bridge.sol:660`) |
| `CancelledOnlyUnpaused` | `proposals_roles` | `cancelProposal` is "only callable by relayers when Bridge is not paused" (`Bridge.sol:786`); it works for admins too and in a pause (`Bridge.sol:793`) |
| `ResourceMapsInverse` | `custody`, with a second resource | the doc of `setResource` speaks of one contract per resource; the helpers overwrite without looking (`handlers/HandlerHelpersUpgradeable.sol:46-47`, `86`), so that two resources may name one token |
| `FailureEndsExecution` | `handlers` | a generic handler's failed execution is said to end normally (`BridgeUpgradeable.sol:847`); the handler reverts (`handlers/GenericHandlerUpgradeable.sol:186`) and the proposal stays Passed |
| `DeadlineKept` | `periphery` | the type hash has a deadline (`ERC20MintablePauseableUpgradeable.sol:17`), which `permit` (`:74`) does not compare with the time |
| `PercentAdded` | `periphery` | the percentage is said to be added to the fee (`handlers/fee/FeeHandlerWithOracle.sol:77`); the greater of cost and share is taken (`:222`) |
| `DefaultDomain` | `periphery` | domain 1 by default (`README.md:66` of the repository); the option's default is "0" (`tasks/DeployProxyAll.ts:26`) |
| `ForeignIsToken` | `periphery` | `deploy-native` deploys a token for another domain's coin; `tasks/DeployNative.ts:13`, `:85` may register this network's own coin for it |

Hazards without a property of a run are listed in `PROJECT.json` with the reason.

## 6. Not modelled

Every contract of the repository whose state the bridge depends on is modelled. What
remains outside:

* **Generated code and data.** Most of the repository's TypeScript and JavaScript lines
  are generated from the contracts: `typechain-types/` (types and factories), bundles
  under `dist/`, ABIs and records of deployments. They have no behaviour of their own; the
  contracts they describe are what the modules translate.
* **`adminSetDomainId`**: no code of the contracts reads what it sets.
* **Basic fee handler and `transferFee` of the fee handlers**: the bridge does not call fee
  handlers any more; flat fees and their distribution are in `TokenCustody`.
* **Tasks of a single transaction**, and those that print what they read: the transaction
  is an action of a contract's module. `deploy` is `deploy-proxy-all` without proxies.
* **Proxies**: a copy of OpenZeppelin's. That a proxy is initialised when it is created is
  in `ProxyTasks`; its delegation is transparent to the other modules.
* **Token presets, libraries, test contracts, migrations**: OpenZeppelin presets without
  code of their own, pure helpers (what they do to the state, such as reverting casts and
  checked subtraction, is part of the actions), support for tests.
* **Threshold 0** is accepted by the bridge's setters. The theorems of
  `BridgeProposals_proof` include it (a quorum is then anything); the instances of the
  runs begin at 1, as deployments do, and `CrossChain` assumes a majority.
* **The last admin leaving** can leave a pause that nobody ends. This is permitted by the
  roles' functions and stated by no text; liveness is stated under the assumption that
  a pause is ended.
* **Encodings and hashes**: deposit data and messages are what they contain.
* **Gas**, apart from the forwarder's rule.
* **The relayers' programs**, which are not in the repository.

What could be added: a composition of `CrossChain` with the hub as a chain of its own and
signatures in transit; and tokens that keep a part of what is transferred.
