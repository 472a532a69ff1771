------------------------------ MODULE CrossChain ------------------------------
(***************************************************************************)
(* Several chains, the bridge of each and the relayers between them, for   *)
(* one asset: a token on each chain under the same resourceID.             *)
(*                                                                         *)
(* A deposit takes tokens at one bridge, relayers act on its event, and    *)
(* the other bridge has its handler give tokens.  The handlers are those   *)
(* of ERC20Handler; of the proposals (BridgeProposals has the details)     *)
(* this module keeps the status and the votes.  A proposal may expire at   *)
(* any time.                                                               *)
(*                                                                         *)
(* The relayers' programs are not in the repository.  What is assumed of   *)
(* them: they act on deposits that have happened, and once on each, with a *)
(* vote or with a signature.                                               *)
(***************************************************************************)
EXTENDS ERC20Handler, FiniteSums

CONSTANTS
    Chains,
    Home,             \* the chain on which the asset was issued
    Transfers,        \* deposits that may be made, with source, destination and amount
    Handlers, NoHandler,
    users,            \* everybody who is not a handler
    token, resource,  \* the asset, on every chain
    InitialOutside,   \* what the users hold at first
    Relayers, relayerThreshold,
    Withdrawals,      \* amounts of adminWithdraw
    MaySign,          \* whether relayers may sign a transfer instead of voting
    MayReplace        \* whether admins may replace or remove a handler

ASSUME CrossChainAssumption ==
    /\ Tokens = {token} /\ Resources = {resource}
    /\ Holders = Handlers \union {users} /\ users \notin Handlers
    /\ NoHandler \notin Handlers
    /\ IsFiniteSet(Chains) /\ Home \in Chains
    /\ \A t \in Transfers : t.from \in Chains /\ t.to \in Chains /\ t.amount \in Nat
    /\ InitialOutside \in [Chains -> Nat]
    /\ IsFiniteSet(Relayers) /\ relayerThreshold \in Nat
    /\ 2 * relayerThreshold > Cardinality(Relayers)
    /\ Withdrawals \subseteq Nat
    /\ MaySign \in BOOLEAN /\ MayReplace \in BOOLEAN

(* A transfer and the handler it is voted on under. *)
Proposals == Transfers \X Handlers

VARIABLES
    handlerOf,    \* handlerOf[c]: _resourceIDToHandlerAddress of the resource
    store,        \* store[c][k]: the storage of handler k
    ledger,       \* ledger[c]: the balances on c
    status,       \* status[p] at p's destination
    votes,        \* votes[p]: the relayers whose votes p counts
    sent,         \* the transfers whose Deposit event has been emitted
    acted,        \* acted[t]: the relayers who have voted on t or signed it
    signed,       \* signed[t]: those who have signed it
    \* history
    replaced,     \* chains on which a handler has been replaced or removed
    withdrawn     \* withdrawn[c]: what adminWithdraw has paid out

config == <<handlerOf, replaced>>
relaying == <<acted, signed>>
tokens == <<store, ledger>>
vars == <<config, tokens, status, votes, sent, relaying, withdrawn>>

StartLedger(c) ==
    [a \in Assets |-> [k \in Holders |-> IF a = token /\ k = users THEN InitialOutside[c] ELSE 0]]

Init ==
    /\ handlerOf = [c \in Chains |-> NoHandler]
    /\ store = [c \in Chains |-> [k \in Handlers |-> NewHandler]]
    /\ ledger = [c \in Chains |-> StartLedger(c)]
    /\ status = [p \in Proposals |-> "Inactive"]
    /\ votes = [p \in Proposals |-> {}]
    /\ sent = {}
    /\ acted = [t \in Transfers |-> {}]
    /\ signed = [t \in Transfers |-> {}]
    /\ replaced = {}
    /\ withdrawn = [c \in Chains |-> 0]

UseOutcome(c, k, outcome) ==
    /\ store' = [store EXCEPT ![c] = [@ EXCEPT ![k] = outcome.handler]]
    /\ ledger' = [ledger EXCEPT ![c] = outcome.ledger]

Taken(t, k) == Take(k, store[t.from][k], ledger[t.from], resource, users, t.amount, 0)

Given(t, k) == Give(k, store[t.to][k], ledger[t.to], resource, users, t.amount)

(* As Enough, one too many. *)
MoreThanEnough(supporters) == Cardinality(supporters) > relayerThreshold

Enough(supporters) == Cardinality(supporters) >= relayerThreshold
-----------------------------------------------------------------------------
deposit(t) ==
    LET k == handlerOf[t.from]
    IN  /\ t \notin sent
        /\ k # NoHandler
        /\ \E outcome \in Taken(t, k) : UseOutcome(t.from, k, outcome)
        /\ sent' = sent \union {t}
        /\ UNCHANGED <<config, status, votes, relaying, withdrawn>>

Execute(t, k) ==
    /\ \E outcome \in Given(t, k) : UseOutcome(t.to, k, outcome)
    /\ status' = [status EXCEPT ![<<t, k>>] = "Executed"]

NeverClosed(p) == TRUE   \* as Open, whatever the status

Open(p) == status[p] \in {"Inactive", "Active"}

(* A relayer votes on what it has not acted on.  The vote that completes    *)
(* the quorum calls the handler, whose failure leaves the proposal Passed.  *)
voteProposal(relayer, t) ==
    LET k == handlerOf[t.to]
        p == <<t, k>>
        supporters == votes[p] \union {relayer}
    IN  /\ t \in sent /\ relayer \notin acted[t]
        /\ k # NoHandler
        /\ Open(p)
        /\ votes' = [votes EXCEPT ![p] = supporters]
        /\ acted' = [acted EXCEPT ![t] = @ \union {relayer}]
        /\ IF Enough(supporters) /\ Given(t, k) # {}
           THEN Execute(t, k)
           ELSE /\ status' = [status EXCEPT ![p] = IF Enough(supporters) THEN "Passed" ELSE "Active"]
                /\ UNCHANGED tokens
        /\ UNCHANGED <<config, sent, signed, withdrawn>>

(* As PassedUnder, with the handler not in the key; with no new status set. *)
PassedUnderAny(t, k) == \E h \in Handlers : status[<<t, h>>] = "Passed"
PassedOrExecuted(t, k) == status[<<t, k>>] \in {"Passed", "Executed"}

PassedUnder(t, k) == status[<<t, k>>] = "Passed"

(* executeProposal, or voteProposal on a Passed proposal. *)
executeProposal(t) ==
    LET k == handlerOf[t.to]
    IN  /\ k # NoHandler
        /\ PassedUnder(t, k)
        /\ Execute(t, k)
        /\ UNCHANGED <<config, votes, sent, relaying, withdrawn>>

(* By an admin or a relayer, once the proposal has expired. *)
cancelProposal(p) ==
    /\ status[p] \in {"Active", "Passed"}
    /\ status' = [status EXCEPT ![p] = "Cancelled"]
    /\ UNCHANGED <<config, tokens, votes, sent, relaying, withdrawn>>

sign(relayer, t) ==
    /\ MaySign
    /\ t \in sent /\ relayer \notin acted[t]
    /\ signed' = [signed EXCEPT ![t] = @ \union {relayer}]
    /\ acted' = [acted EXCEPT ![t] = @ \union {relayer}]
    /\ UNCHANGED <<config, tokens, status, votes, sent, withdrawn>>

(* Anyone brings the signatures, which name no handler. *)
voteProposals(t) ==
    LET k == handlerOf[t.to]
    IN  /\ k # NoHandler
        /\ Enough(signed[t])
        /\ Open(<<t, k>>)
        /\ Execute(t, k)
        /\ votes' = [votes EXCEPT ![<<t, k>>] = signed[t]]
        /\ UNCHANGED <<config, sent, relaying, withdrawn>>
-----------------------------------------------------------------------------
SetHandler(c, k) ==
    /\ handlerOf[c] = NoHandler \/ MayReplace
    /\ handlerOf' = [handlerOf EXCEPT ![c] = k]
    /\ replaced' = IF handlerOf[c] \in {k, NoHandler} THEN replaced ELSE replaced \union {c}
    /\ UNCHANGED <<ledger, status, votes, sent, relaying, withdrawn>>

SetStore(c, k, h) == store' = [store EXCEPT ![c] = [@ EXCEPT ![k] = h]]

adminSetResource(c, k) ==
    /\ SetHandler(c, k)
    /\ SetStore(c, k, _setResource(store[c][k], resource, token))

adminRemoveResourceId(c) ==
    /\ handlerOf[c] # NoHandler
    /\ SetHandler(c, NoHandler)
    /\ SetStore(c, handlerOf[c], _removeResource(store[c][handlerOf[c]], resource, token))

adminSetBurnable(c, k) ==
    /\ \E h \in _setBurnable(store[c][k], token) : SetStore(c, k, h)
    /\ UNCHANGED <<config, ledger, status, votes, sent, relaying, withdrawn>>

adminWithdraw(c, k, amount) ==
    /\ \E outcome \in releaseERC20(k, store[c][k], ledger[c], token, users, amount) :
          UseOutcome(c, k, outcome)
    /\ withdrawn' = [withdrawn EXCEPT ![c] = @ + amount]
    /\ UNCHANGED <<config, status, votes, sent, relaying>>
-----------------------------------------------------------------------------
Relay ==
    \/ \E t \in Transfers : executeProposal(t) \/ voteProposals(t)
    \/ \E t \in Transfers, relayer \in Relayers : voteProposal(relayer, t) \/ sign(relayer, t)
    \/ \E p \in Proposals : cancelProposal(p)

Configure ==
    \E c \in Chains :
        \/ adminRemoveResourceId(c)
        \/ \E k \in Handlers :
              \/ adminSetResource(c, k)
              \/ adminSetBurnable(c, k)
              \/ \E amount \in Withdrawals : adminWithdraw(c, k, amount)

Next == (\E t \in Transfers : deposit(t)) \/ Relay \/ Configure

Spec == Init /\ [][Next]_vars

(* Relayers persist: each votes on every deposit it has not acted on, a     *)
(* passed proposal is executed when it can be and so is a quorum of         *)
(* signatures.                                                              *)
FairSpec ==
    /\ Spec
    /\ \A t \in Transfers :
          /\ SF_vars(executeProposal(t)) /\ SF_vars(voteProposals(t))
          /\ \A relayer \in Relayers : SF_vars(voteProposal(relayer, t))
-----------------------------------------------------------------------------
(* Every variable has its type; in particular no balance becomes negative. *)
CrossChainTypeOK ==
    /\ handlerOf \in [Chains -> Handlers \union {NoHandler}]
    /\ store \in [Chains -> [Handlers -> HandlerState]]
    /\ ledger \in [Chains -> Ledger]
    /\ status \in [Proposals -> {"Inactive", "Active", "Passed", "Executed", "Cancelled"}]
    /\ votes \in [Proposals -> SUBSET Relayers]
    /\ sent \subseteq Transfers
    /\ acted \in [Transfers -> SUBSET Relayers]
    /\ signed \in [Transfers -> SUBSET Relayers]
    /\ replaced \subseteq Chains
    /\ withdrawn \in [Chains -> Nat]

Executed(t, k) == status[<<t, k>>] = "Executed"

Delivered == {t \in Transfers : \E k \in Handlers : Executed(t, k)}

(* A transfer has one proposal for each handler its resource has had, and   *)
(* the contract would execute them all (Bridge.sol, the key of _proposals). *)
(* With a majority as threshold and relayers that vote once on a deposit it *)
(* executes one, however the handlers are exchanged in the meantime.  The   *)
(* exception is a transfer that a quorum has SIGNED and whose handler is    *)
(* replaced: signatures do not name the handler and count again.            *)
DeliveredOnce ==
    \A t \in Transfers, j, k \in Handlers :
        Executed(t, j) /\ Executed(t, k) /\ j # k =>
            t.to \in replaced /\ Enough(signed[t])

Outside(c) == ledger[c][token][users]

OutsideOf == [c \in Chains |-> Outside(c)]

Amount(transfers) == Total([t \in Transfers |-> t.amount], transfers)

(* No transfer can be delivered twice in the way that DeliveredOnce leaves. *)
SignedKeepHandler == \A t \in sent : t.to \in replaced => ~Enough(signed[t])

(* Nothing is created or lost between the chains: what circulates on all of *)
(* them and what has been sent and not arrived add up to what was there at  *)
(* first and what admins paid out, in every mode of the handlers and        *)
(* through every change of mode, handler and expired proposal.  (The same   *)
(* exception as in DeliveredOnce.)                                          *)
ValueConserved ==
    SignedKeepHandler =>
    Total(OutsideOf, Chains) + Amount(sent \ Delivered)
        = Total(InitialOutside, Chains) + Total(withdrawn, Chains)

(* Home issued the asset: the users of the other chains had none of it.     *)
IssuedAtHome == \A c \in Chains \ {Home} : InitialOutside[c] = 0

(* On the chain of issue, as long as the token is locked and not burned and *)
(* the handler was not replaced, what the handler holds and what admins     *)
(* paid out anywhere is enough for all the transfers under way to this      *)
(* chain together: unless something was paid out by hand, none is left      *)
(* Passed for lack of tokens, whatever the handlers of the other chains do. *)
PendingCovered ==
    LET k == handlerOf[Home]
        pending == {t \in sent \ Delivered : t.to = Home /\ t.from # Home}
    IN  /\ k # NoHandler /\ Mode(store[Home][k], token) = "lock"
        /\ Home \notin replaced /\ SignedKeepHandler /\ IssuedAtHome
        => ledger[Home][token][k] + Total(withdrawn, Chains) >= Amount(pending)

Ready(c) ==
    /\ c \notin replaced /\ handlerOf[c] # NoHandler /\ withdrawn[Home] = 0
    /\ c # Home => Mode(store[c][handlerOf[c]], token) = "burn"

(* With persistent relayers every transfer arrives or is cancelled, where   *)
(* the destination keeps its handler, mints (or has the asset at home) and  *)
(* nothing is withdrawn, and where the relayers agree to vote or to sign:   *)
(* votes and signatures are not added up, so that a transfer of which each  *)
(* has too few stays open.                                                  *)
TransfersSettle ==
    \A t \in Transfers :
        (t \in sent /\ [](Ready(t.to) /\ (signed[t] = {} \/ Enough(signed[t])))) ~>
            (t \in Delivered \/ \E k \in Handlers : status[<<t, k>>] = "Cancelled")

Bridged == INSTANCE BridgedAsset WITH
               outside <- OutsideOf, delivered <- Delivered, paid <- withdrawn

(* The chains together keep the promise of BridgedAsset. *)
BridgedSpec == Bridged!Spec
-----------------------------------------------------------------------------
(* What the proofs carry: a proposal's votes are those of relayers who      *)
(* acted by voting, on no other proposal of the transfer; a quorum of       *)
(* voters or of signers supports an executed or passed one; unless the      *)
(* handler was replaced only the present handler's proposals exist; and the *)
(* token is nowhere taken for ether.                                        *)
ActedInv(t) ==
    /\ signed[t] \subseteq acted[t]
    /\ acted[t] # {} => t \in sent
    /\ ~MaySign => signed[t] = {}
    /\ \A k \in Handlers : votes[<<t, k>>] \subseteq acted[t]
    /\ \A j, k \in Handlers :
          j # k => votes[<<t, j>>] \intersect votes[<<t, k>>] \subseteq signed[t]

SupportInv(t, k) ==
    /\ status[<<t, k>>] \in {"Passed", "Executed"} =>
          Enough(votes[<<t, k>>] \ signed[t]) \/ Enough(signed[t])
    /\ status[<<t, k>>] # "Executed" => votes[<<t, k>>] \intersect signed[t] = {}
    /\ status[<<t, k>>] = "Inactive" => votes[<<t, k>>] = {}
    /\ status[<<t, k>>] # "Inactive" =>
          t \in sent /\ (t.to \notin replaced => handlerOf[t.to] = k)

RelayedInv ==
    /\ \A t \in Transfers : ActedInv(t) /\ \A k \in Handlers : SupportInv(t, k)
    /\ MayReplace \/ replaced = {}

NeverNative == \A c \in Chains, k \in Handlers : store[c][k].isNative = {}

(* Until its handler is replaced or burns, the chain of issue has what was  *)
(* issued in that handler and with its users, and nothing anywhere else.    *)
LockedAtHome ==
    LET k == handlerOf[Home]
        held == ledger[Home][token]
    IN  Home \notin replaced =>
        /\ k = NoHandler =>
              Outside(Home) = InitialOutside[Home] /\ \A j \in Handlers : held[j] = 0
        /\ k # NoHandler /\ token \notin store[Home][k].burnList =>
              /\ held[k] + Outside(Home) = InitialOutside[Home]
              /\ \A j \in Handlers \ {k} : held[j] = 0

CrossChainIInv == CrossChainTypeOK /\ NeverNative /\ RelayedInv /\ DeliveredOnce

AccountsIInv == CrossChainIInv /\ IsFiniteSet(sent) /\ LockedAtHome /\ ValueConserved
=============================================================================
