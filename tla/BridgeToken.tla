---------------------------- MODULE BridgeToken ----------------------------
(***************************************************************************)
(* The bridge's own ERC20 (ERC20MintablePauseableUpgradeable.sol): minted  *)
(* by the holders of a role (among them handlers), frozen for accounts on  *)
(* a black list and for all in a pause, with allowances that owners may    *)
(* also give by signed permits.  What OpenZeppelin's ERC20 does with       *)
(* balances and allowances is external.                                    *)
(***************************************************************************)
EXTENDS Integers, FiniteSums

CONSTANTS
    Accounts, Zero,  \* the zero address, who mints come from
    Admins, InitialMinters,
    Amounts,
    Permits,         \* the permits owners have signed: [owner, spender, value, nonce, deadline]
    MaxTime,         \* bound on the clock
    MaxSupply,       \* bound on minting
    MaxGranted       \* bound on what is approved by one account for another

BridgeTokenAssumption ==
    /\ IsFiniteSet(Accounts) /\ Zero \notin Accounts
    /\ Admins \subseteq Accounts /\ InitialMinters \subseteq Accounts
    /\ Amounts \subseteq Nat
    /\ Permits \subseteq [owner : Accounts, spender : Accounts, value : Nat, nonce : Nat,
                          deadline : Nat]
    /\ MaxTime \in Nat /\ MaxSupply \in Nat /\ MaxGranted \in Nat

VARIABLES
    balance, allowance, totalSupply,
    minters,         \* who has MINTER_ROLE
    blackList, paused,
    nonces,
    now,
    \* history
    granted,         \* all that an owner ever approved for a spender, a permit counted once
    spent,           \* what a spender moved of an owner's
    used             \* the permits used, with the time

token == <<balance, allowance, totalSupply, granted, spent>>
vars == <<token, minters, blackList, paused, nonces, now, used>>

Init ==
    /\ balance = [a \in Accounts |-> 0]
    /\ allowance = [o \in Accounts |-> [s \in Accounts |-> 0]]
    /\ totalSupply = 0
    /\ minters = InitialMinters
    /\ blackList = {} /\ paused = FALSE
    /\ nonces = [o \in Accounts |-> 0]
    /\ now = 0
    /\ granted = allowance /\ spent = allowance
    /\ used = {}
-----------------------------------------------------------------------------
PauseOnly(from) == ~paused   \* as _beforeTokenTransfer, the black list not asked

(* The hook of every transfer, mint and burn looks at the sender only. *)
_beforeTokenTransfer(from) == from \notin blackList /\ ~paused

Move(from, to, amount) ==
    LET taken == [balance EXCEPT ![from] = @ - amount]
    IN  /\ _beforeTokenTransfer(from)
        /\ balance[from] >= amount
        /\ balance' = [taken EXCEPT ![to] = @ + amount]
        /\ UNCHANGED totalSupply

Burn(from, amount) ==
    /\ _beforeTokenTransfer(from)
    /\ balance[from] >= amount
    /\ balance' = [balance EXCEPT ![from] = @ - amount]
    /\ totalSupply' = totalSupply - amount

SpendAllowance(owner, spender, amount) ==
    /\ allowance[owner][spender] >= amount
    /\ allowance' = [allowance EXCEPT ![owner][spender] = @ - amount]
    /\ spent' = [spent EXCEPT ![owner][spender] = @ + amount]
    /\ UNCHANGED granted

_approve(owner, spender, value) ==
    /\ allowance' = [allowance EXCEPT ![owner][spender] = value]
    /\ UNCHANGED <<balance, totalSupply, spent>>

(* Approvals count in full towards granted, a permit only the first time. *)
Granted(owner, spender, value) ==
    granted' = [granted EXCEPT ![owner][spender] = @ + value]
-----------------------------------------------------------------------------
transfer(from, to, amount) ==
    /\ Move(from, to, amount)
    /\ UNCHANGED <<allowance, granted, spent>>

transferFrom(spender, from, to, amount) ==
    Move(from, to, amount) /\ SpendAllowance(from, spender, amount)

burn(from, amount) ==
    /\ Burn(from, amount)
    /\ UNCHANGED <<allowance, granted, spent>>

burnFrom(spender, from, amount) ==
    Burn(from, amount) /\ SpendAllowance(from, spender, amount)

mint(minter, to, amount) ==
    /\ minter \in minters
    /\ totalSupply + amount <= MaxSupply
    /\ _beforeTokenTransfer(Zero)
    /\ balance' = [balance EXCEPT ![to] = @ + amount]
    /\ totalSupply' = totalSupply + amount
    /\ UNCHANGED <<allowance, granted, spent>>

approve(owner, spender, value) ==
    /\ granted[owner][spender] + value <= MaxGranted
    /\ _approve(owner, spender, value)
    /\ Granted(owner, spender, value)

KeepNonce(owner) == UNCHANGED nonces   \* as UseNonce

UseNonce(owner) == nonces' = [nonces EXCEPT ![owner] = @ + 1]

(* Anyone may hand in an owner's permit.  The deadline is signed and is not *)
(* compared with the time.                                                  *)
permit(p) ==
    /\ p.nonce = nonces[p.owner]
    /\ UseNonce(p.owner)
    /\ _approve(p.owner, p.spender, p.value)
    /\ IF p \in {u.permit : u \in used} THEN UNCHANGED granted
       ELSE Granted(p.owner, p.spender, p.value)
    /\ used' = used \union {[permit |-> p, at |-> now]}
    /\ UNCHANGED <<minters, blackList, paused, now>>

(* Listing an account that is listed takes it off the list again. *)
setBlackList(admin, account) ==
    /\ admin \in Admins
    /\ blackList' = IF account \in blackList THEN blackList \ {account}
                    ELSE blackList \union {account}
    /\ UNCHANGED <<minters, paused>>

SetPaused(admin, value) ==
    /\ admin \in Admins
    /\ paused # value
    /\ paused' = value
    /\ UNCHANGED <<minters, blackList>>

SetMinter(admin, account) ==   \* grantRole and revokeRole
    /\ admin \in Admins
    /\ minters' \in {minters \union {account}, minters \ {account}}
    /\ UNCHANGED <<blackList, paused>>
-----------------------------------------------------------------------------
UseToken ==
    /\ \E a, b \in Accounts, amount \in Amounts :
          \/ transfer(a, b, amount)
          \/ \E s \in Accounts : transferFrom(s, a, b, amount)
          \/ burn(a, amount)
          \/ burnFrom(b, a, amount)
          \/ mint(a, b, amount)
          \/ approve(a, b, amount)
    /\ UNCHANGED <<minters, blackList, paused, nonces, now, used>>

Administer ==
    /\ \E admin \in Accounts, account \in Accounts \union {Zero} :
          \/ setBlackList(admin, account)
          \/ \E value \in BOOLEAN : SetPaused(admin, value)
          \/ account # Zero /\ SetMinter(admin, account)
    /\ UNCHANGED <<token, nonces, now, used>>

Tick ==
    /\ now < MaxTime
    /\ now' = now + 1
    /\ UNCHANGED <<token, minters, blackList, paused, nonces, used>>

Next == UseToken \/ Administer \/ (\E p \in Permits : permit(p)) \/ Tick

Spec == Init /\ [][Next]_vars
-----------------------------------------------------------------------------
BridgeTokenTypeOK ==
    /\ balance \in [Accounts -> Nat]
    /\ {allowance, granted, spent} \subseteq [Accounts -> [Accounts -> Nat]]
    /\ totalSupply \in Nat
    /\ minters \subseteq Accounts
    /\ blackList \subseteq Accounts \union {Zero} /\ paused \in BOOLEAN
    /\ nonces \in [Accounts -> Nat]
    /\ now \in Nat
    /\ used \subseteq [permit : Permits, at : Nat]

(* Balances add up to the supply.                                             *)
SupplyAddsUp == totalSupply = Total(balance, Accounts)

(* The nonce of an owner is the number of the owner's permits used.           *)
NoncesCount ==
    \A o \in Accounts : nonces[o] = Cardinality({u \in used : u.permit.owner = o})

(* What a spender has moved of an owner's and may still move is never more    *)
(* than what the owner approved: no permit counts twice, whoever hands it in  *)
(* again, and whatever is approved and spent in between.                      *)
SpentWithinGrants ==
    \A o, s \in Accounts : spent[o][s] + allowance[o][s] <= granted[o][s]

(* Of the permits an owner signed for one nonce, to replace one by another,   *)
(* at most one is ever used.                                                  *)
OnePermitPerNonce ==
    \A u, w \in used :
        u.permit.owner = w.permit.owner /\ u.permit.nonce = w.permit.nonce => u = w

(* All of this about what owners approve and sign. *)
PermitsAccounted ==
    BridgeTokenTypeOK /\ SupplyAddsUp /\ NoncesCount /\ SpentWithinGrants /\ OnePermitPerNonce

(* With what makes it inductive: the nonces used up are behind the owner.     *)
NoncesBehind == \A u \in used : u.permit.nonce < nonces[u.permit.owner]

BridgeTokenIInv == PermitsAccounted /\ NoncesBehind /\ IsFiniteSet(used)

(* While an account is on the black list its tokens go nowhere, be it by its  *)
(* own transfers, by its spenders, by burning or by what was signed or        *)
(* approved before; in a pause nobody's balance changes.                      *)
BalancesFrozen ==
    /\ \A a \in blackList \ {Zero} : balance'[a] >= balance[a]
    /\ paused => balance' = balance

(* What the typed data of the comment on PERMIT_TYPEHASH names a deadline.    *)
DeadlineKept == \A u \in used : u.at <= u.permit.deadline
=============================================================================
