----------------------------- MODULE BridgeCalls -----------------------------
(***************************************************************************)
(* Transactions that call out of Bridge.sol and may come back into it.     *)
(*                                                                         *)
(* BridgeProposals and TokenCustody take a transaction as one step.  Here  *)
(* it is a stack of calls: a function of the bridge that calls a handler   *)
(* stays on the stack until the handler returns or reverts, and meanwhile  *)
(* the handler, its token or a recipient may call any function of the      *)
(* bridge on behalf of anyone (a relayer's request can come through the    *)
(* forwarder).  A call that reverts undoes what has happened since it      *)
(* began.  Proposals are under one handler each; they may expire any time. *)
(***************************************************************************)
EXTENDS Naturals, Sequences, FiniteSets

CONSTANTS
    Transfers,
    Relayers, relayerThreshold,
    MaxDepth,        \* bound on the depth of calls
    MaxDeposits      \* bound on the number of deposits

ASSUME CallsAssumption ==
    /\ IsFiniteSet(Relayers) /\ relayerThreshold \in Nat
    /\ MaxDepth \in Nat /\ MaxDeposits \in Nat

VARIABLES
    chain,      \* the storage, as the running transaction has it
    stack       \* the functions of the bridge that wait for a handler

vars == <<chain, stack>>

Status == {"Inactive", "Active", "Passed", "Executed", "Cancelled"}

Storage ==
    [status : [Transfers -> Status],
     votes : [Transfers -> SUBSET Relayers],
     entered : BOOLEAN,                  \* _status of ReentrancyGuard
     depositCount : Nat,
     \* history
     effects : [Transfers -> Nat],       \* calls of the handler that succeeded
     events : Seq(Nat)]                  \* nonces of the Deposit events

NewStorage ==
    [status |-> [t \in Transfers |-> "Inactive"], votes |-> [t \in Transfers |-> {}],
     entered |-> FALSE, depositCount |-> 0,
     effects |-> [t \in Transfers |-> 0], events |-> <<>>]

(* A function that waits: what it is about, the storage to go back to if it *)
(* reverts, and the storage at its call of the handler.                     *)
Frame == [fn : {"execute", "try", "signatures"}, subject : Transfers,
          before : Storage, calling : Storage]
         \union [fn : {"deposit"}, subject : Nat, before : Storage, calling : Storage]

Init == chain = NewStorage /\ stack = <<>>

Top == stack[Len(stack)]

Below == SubSeq(stack, 1, Len(stack) - 1)

(* nonReentrant *)
Unlocked(c) == ~c.entered

CallHandler(fn, subject, c) ==
    /\ Len(stack) < MaxDepth
    /\ stack' = Append(stack, [fn |-> fn, subject |-> subject, before |-> chain, calling |-> c])
    /\ chain' = c

Finish(c) == chain' = c /\ stack' = Below

(* Calls that do not call out: they begin and end in one step. *)
Update(c) == chain' = c /\ UNCHANGED stack

WithStatus(c, t, s) == [c EXCEPT !.status = [c.status EXCEPT ![t] = s]]

WithEffect(c, t) == [c EXCEPT !.effects = [c.effects EXCEPT ![t] = c.effects[t] + 1]]
-----------------------------------------------------------------------------
(* As Executing, the status set when the handler is back; cf. line 873. *)
ExecutingLater(c, t) == [c EXCEPT !.entered = TRUE]

(* _executeProposal up to its call of the handler *)
Executing(c, t) == [WithStatus(c, t, "Executed") EXCEPT !.entered = TRUE]

Voted(relayer, t) == [chain EXCEPT !.votes = [chain.votes EXCEPT ![t] = @ \union {relayer}]]

voteProposal(relayer, t) ==
    /\ Unlocked(chain)
    /\ \/ /\ chain.status[t] = "Passed"
          /\ CallHandler("execute", t, Executing(chain, t))
       \/ /\ chain.status[t] \in {"Inactive", "Active"}
          /\ relayer \notin chain.votes[t]
          /\ LET voted == Voted(relayer, t)
             IN  IF Cardinality(voted.votes[t]) >= relayerThreshold
                 THEN CallHandler("try", t, Executing(voted, t))
                 ELSE Update(WithStatus(voted, t, "Active"))
       \/ /\ chain.status[t] = "Active"
          /\ relayer \notin chain.votes[t]
          /\ Update(WithStatus(chain, t, "Cancelled"))

executeProposal(t, revertOnFail) ==
    /\ Unlocked(chain)
    /\ chain.status[t] = "Passed"
    /\ CallHandler(IF revertOnFail THEN "execute" ELSE "try", t, Executing(chain, t))

(* With signatures of a quorum; nothing is stored before the call.         *)
voteProposals(t) ==
    /\ Unlocked(chain)
    /\ CallHandler("signatures", t, [chain EXCEPT !.entered = TRUE])

(* Neither guarded by nonReentrant. *)
cancelProposal(t) ==
    /\ chain.status[t] \in {"Active", "Passed"}
    /\ Update(WithStatus(chain, t, "Cancelled"))

NonceLeft(c) == c   \* as NonceTaken, counted when the handler is back

NonceTaken(c) == [c EXCEPT !.depositCount = c.depositCount + 1]

deposit ==
    /\ chain.depositCount < MaxDeposits
    /\ CallHandler("deposit", chain.depositCount + 1, NonceTaken(chain))
-----------------------------------------------------------------------------
Exit(c) == [c EXCEPT !.entered = FALSE]

ExecuteReturns ==
    /\ Top.fn \in {"execute", "try"}
    /\ Finish(Exit(WithEffect(chain, Top.subject)))

Undecided(c, t) == c.status[t] \in {"Inactive", "Active"}

(* voteProposals looks at the stored proposal when the handler is back,     *)
(* and fails if it has been decided.                                        *)
SignaturesReturn ==
    /\ Top.fn = "signatures"
    /\ IF Undecided(chain, Top.subject)
       THEN Finish(Exit(WithEffect(WithStatus(chain, Top.subject, "Executed"), Top.subject)))
       ELSE Finish(Top.before)

DepositReturns ==
    /\ Top.fn = "deposit"
    /\ Finish([chain EXCEPT !.events = Append(chain.events, Top.subject)])

(* The catch of _executeProposal: what the handler did is undone.          *)
Restored(c, t) == Exit(WithStatus(c, t, "Passed"))

HandlerReverts ==
    IF Top.fn = "try" THEN Finish(Restored(Top.calling, Top.subject)) ELSE Finish(Top.before)
-----------------------------------------------------------------------------
Call ==
    \/ \E t \in Transfers :
          \/ \E relayer \in Relayers : voteProposal(relayer, t)
          \/ \E revertOnFail \in BOOLEAN : executeProposal(t, revertOnFail)
          \/ voteProposals(t)
          \/ cancelProposal(t)
    \/ deposit

Return ==
    /\ stack # <<>>
    /\ ExecuteReturns \/ SignaturesReturn \/ DepositReturns \/ HandlerReverts

Next == Call \/ Return

Spec == Init /\ [][Next]_vars
-----------------------------------------------------------------------------
(* Every variable has its type. *)
CallsTypeOK == chain \in Storage /\ stack \in Seq(Frame)

(* The storage when the first i calls of the stack had been made: what      *)
(* remains if the calls above them revert.                                  *)
StorageAt(i) == IF i = Len(stack) THEN chain ELSE stack[i + 1].before

(* Between transactions. *)
Committed == StorageAt(0)

Once(c, t) == c.effects[t] = IF c.status[t] = "Executed" THEN 1 ELSE 0

(* Whatever calls come back into the bridge while a handler runs, when a    *)
(* transaction is over a proposal's handler has taken effect once if it is  *)
(* Executed and not at all otherwise.                                       *)
SettledEffects == \A t \in Transfers : Once(Committed, t)

(* The reentrancy guard is free whenever a transaction is over, after       *)
(* caught failures too: no call locks the bridge for good.                  *)
GuardReleased == ~Committed.entered

IsNumbering(events, count) == Len(events) = count /\ {events[i] : i \in DOMAIN events} = 1..count

(* A deposit can be made inside another one, between the moment that takes  *)
(* its nonce and the event; the events come out of order, but between       *)
(* transactions they carry every nonce up to the count once.                *)
NoncesComplete == IsNumbering(Committed.events, Committed.depositCount)

DecisionOf == [Inactive |-> "Open", Active |-> "Open", Passed |-> "Approved",
               Executed |-> "Released", Cancelled |-> "Rejected"]

Lifecycle(t) == INSTANCE ProposalLifecycle WITH
                    Proposals <- {t},
                    decision <- [u \in {t} |-> DecisionOf[Committed.status[u]]],
                    effects <- [u \in {t} |-> Committed.effects[u]]

(* From one transaction to the next each proposal makes a step of its life  *)
(* cycle or none, whatever happens inside: transactions that come back into *)
(* the bridge do nothing that atomic ones could not.                        *)
AtomicLifecycle ==
    /\ \A t \in Transfers : Lifecycle(t)!Init
    /\ [][\A t \in Transfers : Lifecycle(t)!Next \/ UNCHANGED Lifecycle(t)!vars]_vars
-----------------------------------------------------------------------------
(* The inductive invariant, about every storage the stack could go back to: *)
(* the guard is entered exactly if one of the calls below is a guarded one, *)
(* and that is one call at most; the effect of a call that has marked its   *)
(* proposal Executed is still to come; and decisions are not revised.       *)
Guarded(frame) == frame.fn # "deposit"

Marks(frame, t) == frame.fn \in {"execute", "try"} /\ frame.subject = t

StorageInv(c, frames, i) ==
    /\ c.entered <=> \E j \in 1..i : Guarded(frames[j])
    /\ \A t \in Transfers :
          IF \E j \in 1..i : Marks(frames[j], t)
          THEN c.status[t] = "Executed" /\ c.effects[t] = 0
          ELSE Once(c, t)

FrameInv(frame) ==
    frame.fn \in {"execute", "try"} =>
        /\ frame.before.status[frame.subject] \in {"Inactive", "Active", "Passed"}
        /\ frame.calling.status = [frame.before.status EXCEPT ![frame.subject] = "Executed"]

Leads(from, to) ==
    /\ from \in {"Executed", "Cancelled"} => to = from
    /\ from = "Passed" => to \in {"Passed", "Executed", "Cancelled"}

(* The nonces taken so far are those of the events and those of the deposits *)
(* that wait for their handler, and no two of these are the same.           *)
NoncesInv(c, frames, i) ==
    LET out == DOMAIN c.events
        waiting == {j \in 1..i : ~Guarded(frames[j])}
    IN  /\ \A n \in 1..c.depositCount :
              (\E p \in out : c.events[p] = n) \/ \E j \in waiting : frames[j].subject = n
        /\ \A p \in out : c.events[p] \in 1..c.depositCount
        /\ \A p, q \in out : c.events[p] = c.events[q] => p = q
        /\ \A j \in waiting : /\ frames[j].subject \in 1..c.depositCount
                              /\ \A p \in out : c.events[p] # frames[j].subject
        /\ \A j, k \in waiting : frames[j].subject = frames[k].subject => j = k

NoncesIInv ==
    /\ \A i \in 0..Len(stack) : NoncesInv(StorageAt(i), stack, i)
    /\ \A i \in 1..Len(stack) : NoncesInv(stack[i].calling, stack, i)

CallsIInv ==
    /\ CallsTypeOK
    /\ \A i, j \in 1..Len(stack) : Guarded(stack[i]) /\ Guarded(stack[j]) => i = j
    /\ \A i \in 0..Len(stack) :
          /\ StorageInv(StorageAt(i), stack, i)
          /\ \A t \in Transfers : Leads(Committed.status[t], StorageAt(i).status[t])
    /\ \A i \in 1..Len(stack) :
          FrameInv(stack[i]) /\ StorageInv(stack[i].calling, stack, i)
=============================================================================
