------------------------------ MODULE Forwarder ------------------------------
(***************************************************************************)
(* Forwarder.sol, and Bridge.sol's _msgSender, which takes the word of the *)
(* forwarders its admins have named: anyone can bring a request that its   *)
(* author signed, and the bridge acts in the author's name.                *)
(*                                                                         *)
(* The called contract may call back, so execute is a frame on a stack, as *)
(* in BridgeCalls; the calls of the bridge itself are acts that succeed or *)
(* fail.  Gas is counted in units: a call can pass on all but one 64th of  *)
(* what is left.  The ether that requests carry is left out.               *)
(***************************************************************************)
EXTENDS Naturals, Sequences

CONSTANTS
    Forwarders, Signers,
    Callers,         \* accounts that call the bridge themselves
    Requests,        \* records [forwarder, from, nonce, gas, data]
    Gas,             \* what can be left at the call made by execute
    MaxDepth,        \* bound on the depth of calls
    MaxActs          \* bound on the acts of the bridge

ASSUME ForwarderAssumption ==
    /\ Requests \subseteq [forwarder : Forwarders, from : Signers, nonce : Nat, gas : Nat,
                           data : {"vote", "deposit"}]
    /\ Forwarders \intersect (Signers \union Callers) = {}
    /\ Gas \subseteq Nat /\ MaxDepth \in Nat /\ MaxActs \in Nat

VARIABLES
    chain,      \* the storage, as the running transaction has it
    stack,      \* the calls of execute that wait for the contract they call
    signed      \* the requests their authors have signed

vars == <<chain, stack, signed>>

Accounts == Signers \union Callers \union Forwarders

(* What the bridge did, in whose name, for which request if any, and who   *)
(* called the bridge.                                                      *)
Act == [name : Accounts, caller : Accounts, request : SUBSET Requests]

Storage ==
    [_nonces : [Forwarders -> [Signers -> Nat]],
     isValidForwarder : SUBSET Forwarders,         \* of the bridge
     \* history
     acts : Seq(Act),
     failed : SUBSET [request : Requests, given : Nat,
                      exhausted : BOOLEAN]]           \* calls that failed, or ran out of gas

NewStorage ==
    [_nonces |-> [f \in Forwarders |-> [s \in Signers |-> 0]], isValidForwarder |-> {},
     acts |-> <<>>, failed |-> {}]

(* A call of execute that waits: the storage to go back to if it reverts    *)
(* and if only the call it makes fails, and the gas it has and passes on.   *)
Frame == [request : Requests, before : Storage, calling : Storage, left : Nat, given : Nat]

Init == chain = NewStorage /\ stack = <<>> /\ signed = {}
-----------------------------------------------------------------------------
(* As Verify, requests that come early let through, or nonces not looked at. *)
VerifyEarly(c, r) == c._nonces[r.forwarder][r.from] <= r.nonce /\ r \in signed

VerifySigned(c, r) == r \in signed

(* As _msgSender, with the check of the forwarder missing. *)
AnySender(c, caller, tail) == tail

(* _msgSender: whose name the bridge acts in, for a call whose data end in  *)
(* the address tail.                                                        *)
MsgSender(c, caller, tail) == IF caller \in c.isValidForwarder THEN tail ELSE caller

Acting(c, caller, tail, request) ==
    [c EXCEPT !.acts = Append(c.acts, [name |-> MsgSender(c, caller, tail),
                                       caller |-> caller, request |-> request])]

(* As NonceUsed, the nonce left as it was. *)
NonceKept(c, r) == c

NonceUsed(c, r) == [c EXCEPT !._nonces[r.forwarder][r.from] = r.nonce + 1]

Verify(c, r) == c._nonces[r.forwarder][r.from] = r.nonce /\ r \in signed

(* The gas a call gets that asks for the given amount when there are n. *)
Granted(asked, n) == IF asked <= n - n \div 64 THEN asked ELSE n - n \div 64

execute(r) ==
    /\ Len(stack) < MaxDepth /\ Len(chain.acts) < MaxActs
    /\ Verify(chain, r)
    /\ LET calling == NonceUsed(chain, r)
       IN  /\ chain' = Acting(calling, r.forwarder, r.from, {r})
           /\ \E n \in Gas :
                 stack' = Append(stack, [request |-> r, before |-> chain, calling |-> calling,
                                         left |-> n, given |-> Granted(r.gas, n)])
    /\ UNCHANGED signed

Top == stack[Len(stack)]

(* As GasSuffices, the bound reached but not exceeded. *)
GasReached(n, asked) == n >= asked \div 63

(* The assertion at the end of execute. *)
GasSuffices(n, asked) == n > asked \div 63

Failing(c, frame, used) ==
    [c EXCEPT !.failed = c.failed \union
                            {[request |-> frame.request, given |-> frame.given,
                              exhausted |-> used = frame.given]}]

(* The call is over and has used some of its gas; without success its      *)
(* effects are undone, and without the gas it asked for all of execute is. *)
Return(success, used) ==
    /\ stack # <<>>
    /\ stack' = SubSeq(stack, 1, Len(stack) - 1)
    /\ chain' = IF ~GasSuffices(Top.left - used, Top.request.gas) THEN Top.before
                ELSE IF success THEN chain ELSE Failing(Top.calling, Top, used)
    /\ UNCHANGED signed

ReturnWithin == \E success \in BOOLEAN : \E used \in 0..Top.given : Return(success, used)

sign(r) ==
    /\ signed' = signed \union {r}
    /\ UNCHANGED <<chain, stack>>

(* An account calls the bridge with data that end in some address. *)
call(caller, tail) ==
    /\ Len(chain.acts) < MaxActs
    /\ chain' = Acting(chain, caller, tail, {})
    /\ UNCHANGED <<stack, signed>>

adminSetForwarder(forwarder, valid) ==
    /\ chain' = [chain EXCEPT !.isValidForwarder =
                    IF valid THEN @ \union {forwarder} ELSE @ \ {forwarder}]
    /\ UNCHANGED <<stack, signed>>

Next ==
    \/ \E r \in Requests : sign(r) \/ execute(r)
    \/ stack # <<>> /\ ReturnWithin
    \/ \E caller \in Callers, tail \in Signers : call(caller, tail)
    \/ \E forwarder \in Forwarders, valid \in BOOLEAN : adminSetForwarder(forwarder, valid)

Spec == Init /\ [][Next]_vars
-----------------------------------------------------------------------------
(* Every variable has its type. *)
ForwarderTypeOK == chain \in Storage /\ stack \in Seq(Frame) /\ signed \in SUBSET Requests

(* The storage to go back to if the calls above the first i revert.        *)
StorageAt(i) == IF i = Len(stack) THEN chain ELSE stack[i + 1].before

(* Between transactions. *)
Committed == StorageAt(0)

Authorised(c) ==
    \A i \in DOMAIN c.acts :
       LET a == c.acts[i]
       IN  a.name \in Signers => \/ a.caller = a.name
                                 \/ \E r \in a.request : r.from = a.name /\ r \in signed

(* The bridge never acts in the name of a signer who neither called it nor  *)
(* signed the request, whatever address the data of a call end in.          *)
ActsAuthorised == Authorised(chain)

SameAuthor(r, q) == r.forwarder = q.forwarder /\ r.from = q.from

Ordered(acts) ==
    \A i, j \in DOMAIN acts :
       i < j => \A r \in acts[i].request, q \in acts[j].request :
                   SameAuthor(r, q) => r.nonce < q.nonce

(* The requests of an author take effect in the order of their nonces, also *)
(* when the execution of one brings the next: none twice.                   *)
InNonceOrder == Ordered(chain.acts)

Acted(c, r) == \E i \in DOMAIN c.acts : r \in c.acts[i].request

Failed(c, r) == \E x \in c.failed : x.request = r

(* A request has taken effect or has failed, and not both, only if its      *)
(* nonce is used; and for each used nonce one request did.                  *)
Accounted(c) ==
    /\ \A r \in Requests :
          Acted(c, r) \/ Failed(c, r) =>
             /\ r.nonce < c._nonces[r.forwarder][r.from]
             /\ ~(Acted(c, r) /\ Failed(c, r))
             /\ \A q \in Requests :
                   SameAuthor(r, q) /\ r.nonce = q.nonce /\ (Acted(c, q) \/ Failed(c, q)) => q = r
    /\ \A f \in Forwarders, s \in Signers :
          \A n \in 0..c._nonces[f][s] : n < c._nonces[f][s] =>
             \E r \in Requests : /\ r.forwarder = f /\ r.from = s /\ r.nonce = n
                                 /\ Acted(c, r) \/ Failed(c, r)

NoncesAccounted == Accounted(Committed)

GasGiven(c) == \A x \in c.failed : x.exhausted => x.given = x.request.gas

(* Whoever brings a request cannot use it up by giving its call less gas    *)
(* than the author asked for: a call that failed for want of gas had that   *)
(* much.                                                                    *)
GasHonoured == GasGiven(chain)

Spent(c, r) == r.nonce < c._nonces[r.forwarder][r.from]

Final(from, to) ==
    \A r \in Requests :
       Spent(from, r) => Spent(to, r) /\ (Acted(to, r) <=> Acted(from, r))
                                      /\ (Failed(to, r) <=> Failed(from, r))

(* Once a nonce is used, its requests are final: what has failed stays      *)
(* failed, what took effect does not do so again, and an alternative signed *)
(* with the same nonce never takes effect.                                  *)
SpentFinal == [][Final(Committed, Committed')]_vars
-----------------------------------------------------------------------------
(* The inductive invariant: all of this of every storage that the stack     *)
(* could go back to, each of which keeps what is final between transactions; *)
(* and a call of execute holds a request that was not spent when it began.  *)
StorageInv(c) == Authorised(c) /\ Ordered(c.acts) /\ Accounted(c) /\ GasGiven(c)

FrameInv(frame) ==
    LET r == frame.request
    IN  /\ frame.before._nonces[r.forwarder][r.from] = r.nonce
        /\ frame.calling = NonceUsed(frame.before, r)
        /\ frame.given = Granted(r.gas, frame.left)

ForwarderIInv ==
    /\ ForwarderTypeOK
    /\ \A i \in 0..Len(stack) : StorageInv(StorageAt(i)) /\ Final(Committed, StorageAt(i))
    /\ \A i \in 1..Len(stack) : FrameInv(stack[i])
=============================================================================
