--------------------------- MODULE Periphery_proof ---------------------------
(***************************************************************************)
(* Proofs about the parts around the bridge, each taken by itself: the     *)
(* forwarder, whose requests are signed, used once, in order, for good,    *)
(* and with the gas they ask for, whatever calls come back; the token with *)
(* its permits; the fee that an oracle's message fixes; the tasks that     *)
(* deploy the proxies; and those that deploy and register tokens.          *)
(***************************************************************************)
EXTENDS Forwarder, Periphery, Integers, SequenceTheorems, FiniteSums_proof, TLAPS

-----------------------------------------------------------------------------
(* The forwarder. *)

Depth == Len(stack)

(* What is final stays so when a transaction is over. *)
Forward == Final(Committed, Committed')

LEMMA RequestType ==
  ASSUME NEW r \in Requests
  PROVE  /\ r.forwarder \in Forwarders /\ r.from \in Signers /\ r.nonce \in Nat /\ r.gas \in Nat
         /\ r.from \notin Forwarders
  BY ForwarderAssumption

LEMMA StackFacts ==
  ASSUME ForwarderTypeOK
  PROVE  /\ Depth \in Nat /\ chain \in Storage
         /\ \A i \in 1..Depth : stack[i] \in Frame
         /\ StorageAt(Depth) = chain
         /\ \A i \in 0..Depth : i # Depth => StorageAt(i) = stack[i + 1].before
         /\ stack # <<>> => Depth >= 1 /\ Top = stack[Depth] /\ StorageAt(Depth - 1) = Top.before
  BY DEF ForwarderTypeOK, Depth, StorageAt, Top

LEMMA FrameType ==
  ASSUME NEW frame \in Frame
  PROVE  /\ frame.request \in Requests /\ frame.before \in Storage /\ frame.calling \in Storage
         /\ frame.left \in Nat /\ frame.given \in Nat
  BY DEF Frame

LEMMA StorageFields ==
  ASSUME NEW c \in Storage
  PROVE  /\ c._nonces \in [Forwarders -> [Signers -> Nat]] /\ c.isValidForwarder \subseteq Forwarders
         /\ c.acts \in Seq(Act) /\ c.failed \subseteq [request : Requests, given : Nat, exhausted : BOOLEAN]
  BY DEF Storage

LEMMA FinalOrder ==
  /\ \A a : Final(a, a)
  /\ \A a, b, c : Final(a, b) /\ Final(b, c) => Final(a, c)
  BY DEF Final

(* Storages that agree on what a request is about.                          *)
LEMMA SameHistory ==
  ASSUME NEW c \in Storage, NEW d \in Storage, d._nonces = c._nonces, d.failed = c.failed,
         \A r \in Requests : Acted(c, r) <=> Acted(d, r)
  PROVE  (Accounted(c) => Accounted(d)) /\ (GasGiven(c) => GasGiven(d)) /\ Final(c, d)
  <1>1. \A r \in Requests : Failed(c, r) <=> Failed(d, r)
    BY DEF Failed
  <1>2. Accounted(c) => Accounted(d)
    BY <1>1 DEF Accounted
  <1>3. GasGiven(c) => GasGiven(d)
    BY DEF GasGiven
  <1>4. Final(c, d)
    BY <1>1 DEF Final, Spent
  <1> QED  BY <1>2, <1>3, <1>4
-----------------------------------------------------------------------------
(* The shapes of a step. *)

LEMMA ReplaceSound ==
  ASSUME ForwarderIInv, NEW n \in 0..Depth, NEW c \in Storage, signed' = signed,
         chain' = c, stack' \in Seq(Frame), Len(stack') = n,
         \A j \in 1..n : stack'[j] = stack[j],
         StorageInv(c), Final(Committed, c)
  PROVE  ForwarderIInv' /\ Forward
  <1>0. ForwarderTypeOK /\ Depth \in Nat /\ n \in Nat /\ n <= Depth
    BY StackFacts DEF ForwarderIInv
  <1>1. ForwarderTypeOK' /\ Depth' = n
    BY <1>0 DEF ForwarderTypeOK, Depth
  <1>2. \A i \in 0..n : i # n => StorageAt(i)' = StorageAt(i)
    BY <1>0 DEF StorageAt, Depth
  <1>3. StorageAt(n)' = c
    BY DEF StorageAt
  <1>4. \A i \in 0..Depth : StorageInv(StorageAt(i)) /\ Final(Committed, StorageAt(i))
    BY DEF ForwarderIInv, Depth
  <1>5. ASSUME NEW i \in 0..n
        PROVE  StorageInv(StorageAt(i))' /\ Final(Committed', StorageAt(i)')
    <2>2. CASE n = 0
      BY <1>3, <2>2, FinalOrder DEF Committed, StorageInv, Authorised
    <2>3. CASE n # 0
      <3>1. Committed' = Committed
        BY <1>0, <1>2, <2>3 DEF Committed
      <3>2. CASE i = n
        BY <1>3, <3>1, <3>2 DEF StorageInv, Authorised
      <3>3. CASE i # n
        <4>1. StorageAt(i)' = StorageAt(i) /\ i \in 0..Depth
          BY <1>0, <1>2, <3>3
        <4> QED  BY <1>4, <3>1, <4>1 DEF StorageInv, Authorised
      <3> QED  BY <3>2, <3>3
    <2> QED  BY <2>2, <2>3
  <1>6. \A i \in 1..n : FrameInv(stack'[i])
    BY <1>0 DEF ForwarderIInv, Depth
  <1>7. Forward
    <2>1. CASE n = 0
      BY <1>3, <2>1 DEF Committed, Forward
    <2>2. CASE n # 0
      BY <1>0, <1>2, <2>2, FinalOrder DEF Committed, Forward
    <2> QED  BY <2>1, <2>2
  <1>8. ForwarderIInv'
    BY <1>1, <1>5, <1>6 DEF ForwarderIInv, Depth
  <1> QED  BY <1>7, <1>8

LEMMA UpdateSound ==
  ASSUME ForwarderIInv, NEW c \in Storage, chain' = c, UNCHANGED <<stack, signed>>,
         StorageInv(c), Final(chain, c)
  PROVE  ForwarderIInv' /\ Forward
  <1>1. /\ ForwarderTypeOK /\ Depth \in 0..Depth /\ StorageAt(Depth) = chain /\ Len(stack') = Depth
        /\ stack' \in Seq(Frame) /\ \A j \in 1..Depth : stack'[j] = stack[j]
    BY StackFacts DEF ForwarderIInv, ForwarderTypeOK, Depth
  <1>2. Final(Committed, c)
    BY <1>1, FinalOrder DEF ForwarderIInv, Depth
  <1> QED  BY <1>1, <1>2, ReplaceSound

LEMMA FinishSound ==
  ASSUME ForwarderIInv, stack # <<>>, NEW c \in Storage, chain' = c, signed' = signed,
         stack' = SubSeq(stack, 1, Len(stack) - 1), StorageInv(c), Final(Committed, c)
  PROVE  ForwarderIInv' /\ Forward
  <1>0. ForwarderTypeOK /\ Depth \in Nat /\ Depth >= 1 /\ Depth - 1 \in 0..Depth
    BY StackFacts DEF ForwarderIInv
  <1>1. \A j \in 1..Depth - 1 : stack[j] \in Frame
    BY <1>0, StackFacts
  <1> DEFINE s == SubSeq(stack, 1, Depth - 1)
  <1>2. /\ s \in Seq(Frame)
        /\ Len(s) = IF 1 <= Depth - 1 THEN Depth - 1 - 1 + 1 ELSE 0
        /\ \A j \in 1..Depth - 1 - 1 + 1 : s[j] = stack[1 + j - 1]
    BY <1>0, <1>1, SubSeqProperties
  <1>3. stack' = s
    BY DEF Depth
  <1> HIDE DEF s
  <1>4. Len(s) = Depth - 1 /\ \A j \in 1..Depth - 1 : s[j] = stack[j]
    <2>1. Len(s) = Depth - 1
      BY <1>0, <1>2
    <2> SUFFICES ASSUME NEW j \in 1..Depth - 1 PROVE s[j] = stack[j]
      BY <2>1
    <2>2. 1 + j - 1 = j /\ j \in 1..Depth - 1 - 1 + 1
      BY <1>0
    <2> QED  BY <1>2, <2>2
  <1> QED  BY <1>0, <1>2, <1>3, <1>4, ReplaceSound

LEMMA CallSound ==
  ASSUME ForwarderIInv, NEW frame \in Frame, NEW c \in Storage,
         chain' = c, signed' = signed, stack' = Append(stack, frame),
         frame.before = chain, FrameInv(frame), StorageInv(c), Final(chain, c)
  PROVE  ForwarderIInv' /\ Forward
  <1>0. ForwarderTypeOK /\ Depth \in Nat /\ chain \in Storage /\ StorageAt(Depth) = chain
    BY StackFacts DEF ForwarderIInv
  <1>n. PICK n \in Nat : n = Depth
    BY <1>0
  <1>1. /\ Depth' = n + 1 /\ stack' \in Seq(Frame)
        /\ stack'[n + 1] = frame
        /\ \A j \in 1..n : stack'[j] = stack[j]
    BY <1>n, <1>0 DEF Depth, ForwarderTypeOK
  <1>2. ForwarderTypeOK'
    BY <1>0, <1>1 DEF ForwarderTypeOK
  <1>3. /\ \A i \in 0..n : StorageAt(i)' = StorageAt(i)
        /\ StorageAt(n + 1)' = c
    BY <1>n, <1>0, <1>1 DEF StorageAt, Depth
  <1>4. Committed' = Committed
    BY <1>3 DEF Committed
  <1>5. \A i \in 0..n : StorageInv(StorageAt(i)) /\ Final(Committed, StorageAt(i))
    BY <1>n DEF ForwarderIInv, Depth
  <1>6. Final(Committed, c)
    <2>1. Final(Committed, chain)
      BY <1>n, <1>0, <1>5
    <2> QED  BY <2>1, FinalOrder
  <1>7. ASSUME NEW i \in 0..n + 1
        PROVE  StorageInv(StorageAt(i))' /\ Final(Committed', StorageAt(i)')
    <2>1. CASE i = n + 1
      BY <1>3, <1>4, <1>6, <2>1 DEF StorageInv, Authorised
    <2>2. CASE i \in 0..n
      <3>1. StorageAt(i)' = StorageAt(i)
        BY <1>3, <2>2
      <3> QED  BY <1>4, <1>5, <2>2, <3>1 DEF StorageInv, Authorised
    <2> QED  BY <2>1, <2>2
  <1>8. \A i \in 1..n + 1 : FrameInv(stack'[i])
    <2> SUFFICES ASSUME NEW i \in 1..n + 1 PROVE FrameInv(stack'[i])
      OBVIOUS
    <2>1. CASE i = n + 1
      BY <1>1, <2>1
    <2>2. CASE i \in 1..n
      BY <1>n, <1>1, <2>2 DEF ForwarderIInv, Depth
    <2>3. i = n + 1 \/ i \in 1..n
      BY <1>n
    <2> QED  BY <2>1, <2>2, <2>3
  <1>9. ForwarderIInv'
    BY <1>1, <1>2, <1>7, <1>8 DEF ForwarderIInv, Depth
  <1> QED  BY <1>4, <1>9, FinalOrder DEF Forward

LEMMA SignSound ==
  ASSUME ForwarderIInv, NEW r \in Requests, sign(r)
  PROVE  ForwarderIInv' /\ Forward
  <1>1. signed \subseteq signed' /\ chain' = chain /\ stack' = stack /\ signed' \subseteq Requests
    BY DEF sign, ForwarderIInv, ForwarderTypeOK
  <1>2. ForwarderTypeOK'
    BY <1>1 DEF ForwarderIInv, ForwarderTypeOK
  <1>3. \A i : StorageAt(i)' = StorageAt(i)
    BY <1>1 DEF StorageAt
  <1>4. Committed' = Committed
    BY <1>3 DEF Committed
  <1>5. ASSUME NEW i \in 0..Len(stack)
        PROVE  StorageInv(StorageAt(i))' /\ Final(Committed', StorageAt(i)')
    <2>1. StorageInv(StorageAt(i)) /\ Final(Committed, StorageAt(i)) /\ StorageAt(i)' = StorageAt(i)
      BY <1>3 DEF ForwarderIInv
    <2>2. PICK c : c = StorageAt(i)
      OBVIOUS
    <2>3. Authorised(c)'
      BY <1>1, <2>1, <2>2 DEF StorageInv, Authorised
    <2> QED  BY <1>4, <2>1, <2>2, <2>3 DEF StorageInv, Authorised
  <1>6. ForwarderIInv'
    BY <1>1, <1>2, <1>5 DEF ForwarderIInv
  <1> QED  BY <1>4, <1>6, FinalOrder DEF Forward
-----------------------------------------------------------------------------
(* What the steps do to a storage. *)

(* An act leaves what is spent alone, if the nonce of its request was just  *)
(* used, and is in the name of its caller or of a request's author.         *)
LEMMA ActSound ==
  ASSUME NEW c \in Storage, NEW caller \in Accounts, NEW tail \in Signers, NEW S \in SUBSET Requests,
         caller \in Callers \/ \E r \in S : r.from = tail /\ r \in signed /\ r.forwarder = caller
  PROVE  LET d == Acting(c, caller, tail, S)
         IN  /\ d \in Storage
             /\ d._nonces = c._nonces /\ d.failed = c.failed
             /\ \A r \in Requests : Acted(d, r) <=> Acted(c, r) \/ r \in S
             /\ Authorised(c) => Authorised(d)
             /\ Len(d.acts) = Len(c.acts) + 1 /\ d.acts[Len(c.acts) + 1].request = S
             /\ \A i \in 1..Len(c.acts) : d.acts[i] = c.acts[i]
  <1> DEFINE a == [name |-> MsgSender(c, caller, tail), caller |-> caller, request |-> S]
             q == Append(c.acts, a)
  <1>1. /\ c.acts \in Seq(Act) /\ Len(c.acts) \in Nat /\ c.isValidForwarder \subseteq Forwarders
    BY StorageFields
  <1>2. a \in Act /\ a.name = MsgSender(c, caller, tail) /\ a.caller = caller /\ a.request = S
    BY DEF Act, MsgSender, Accounts
  <1> HIDE DEF a
  <1>3. /\ q \in Seq(Act) /\ Len(q) = Len(c.acts) + 1 /\ q[Len(c.acts) + 1] = a
        /\ \A i \in 1..Len(c.acts) : q[i] = c.acts[i]
    BY <1>1, <1>2
  <1> HIDE DEF q
  <1> DEFINE d == [c EXCEPT !.acts = q]
  <1>4. /\ d \in Storage /\ d.acts = q /\ d._nonces = c._nonces /\ d.failed = c.failed
    BY <1>3 DEF Storage
  <1>5. d = Acting(c, caller, tail, S)
    BY DEF Acting, a, q
  <1> HIDE DEF d
  <1>6. DOMAIN c.acts = 1..Len(c.acts) /\ DOMAIN q = 1..Len(c.acts) + 1
    BY <1>1, <1>3
  <1>7. \A r \in Requests : Acted(d, r) <=> Acted(c, r) \/ r \in S
    BY <1>1, <1>2, <1>3, <1>4, <1>6 DEF Acted
  <1>8. ASSUME Authorised(c) PROVE Authorised(d)
    <2> SUFFICES ASSUME NEW i \in 1..Len(c.acts) + 1, q[i].name \in Signers
                 PROVE  \/ q[i].caller = q[i].name
                        \/ \E r \in q[i].request : r.from = q[i].name /\ r \in signed
      BY <1>4, <1>6 DEF Authorised
    <2>1. CASE i \in 1..Len(c.acts)
      BY <1>3, <1>6, <1>8, <2>1 DEF Authorised
    <2>2. CASE i = Len(c.acts) + 1
      <3>1. CASE caller \in c.isValidForwarder
        BY <1>1, <1>2, <1>3, <2>2, <3>1, ForwarderAssumption DEF MsgSender
      <3>2. CASE caller \notin c.isValidForwarder
        BY <1>2, <1>3, <2>2, <3>2 DEF MsgSender
      <3> QED  BY <3>1, <3>2
    <2> QED  BY <1>1, <2>1, <2>2
  <1> QED  BY <1>2, <1>3, <1>4, <1>5, <1>7, <1>8

LEMMA NonceStep ==
  ASSUME NEW c \in Storage, NEW r \in Requests, c._nonces[r.forwarder][r.from] = r.nonce
  PROVE  LET d == NonceUsed(c, r)
         IN  /\ d \in Storage /\ d.acts = c.acts /\ d.failed = c.failed
             /\ d.isValidForwarder = c.isValidForwarder
             /\ \A f \in Forwarders, s \in Signers :
                   d._nonces[f][s] = IF f = r.forwarder /\ s = r.from THEN r.nonce + 1
                                     ELSE c._nonces[f][s]
  <1>1. /\ c._nonces \in [Forwarders -> [Signers -> Nat]] /\ r.forwarder \in Forwarders
        /\ r.from \in Signers /\ r.nonce + 1 \in Nat
    BY StorageFields, RequestType
  <1>2. c._nonces[r.forwarder] \in [Signers -> Nat]
    BY <1>1
  <1>3. PICK g : g = [c._nonces[r.forwarder] EXCEPT ![r.from] = r.nonce + 1]
    OBVIOUS
  <1>4. g \in [Signers -> Nat] /\ \A s \in Signers : g[s] = IF s = r.from THEN r.nonce + 1 ELSE c._nonces[r.forwarder][s]
    BY <1>1, <1>2, <1>3
  <1>5. PICK h : h = [c._nonces EXCEPT ![r.forwarder] = g]
    OBVIOUS
  <1>6. h \in [Forwarders -> [Signers -> Nat]]
        /\ \A f \in Forwarders : h[f] = IF f = r.forwarder THEN g ELSE c._nonces[f]
    BY <1>1, <1>4, <1>5
  <1>7. PICK d : d = [c EXCEPT !._nonces = h]
    OBVIOUS
  <1>8. /\ d \in Storage /\ d._nonces = h /\ d.acts = c.acts /\ d.failed = c.failed
        /\ d.isValidForwarder = c.isValidForwarder
    BY <1>6, <1>7 DEF Storage
  <1>9. d = NonceUsed(c, r)
    BY <1>3, <1>5, <1>7 DEF NonceUsed
  <1> QED  BY <1>4, <1>6, <1>8, <1>9

(* One request takes effect or fails, and uses the nonce it was signed for. *)
LEMMA SpendSound ==
  ASSUME NEW c \in Storage, NEW d \in Storage, NEW r \in Requests,
         c._nonces[r.forwarder][r.from] = r.nonce,
         \A f \in Forwarders, s \in Signers :
            d._nonces[f][s] = IF f = r.forwarder /\ s = r.from THEN r.nonce + 1
                              ELSE c._nonces[f][s],
         \/ /\ \A q \in Requests : Acted(d, q) <=> Acted(c, q) \/ q = r
            /\ \A q \in Requests : Failed(d, q) <=> Failed(c, q)
         \/ /\ \A q \in Requests : Acted(d, q) <=> Acted(c, q)
            /\ \A q \in Requests : Failed(d, q) <=> Failed(c, q) \/ q = r,
         Accounted(c)
  PROVE  Accounted(d) /\ Final(c, d)
  <1> DEFINE Used(x, q) == Acted(x, q) \/ Failed(x, q)
  <1>1. \A q \in Requests : Used(d, q) <=> Used(c, q) \/ q = r
    OBVIOUS
  <1>2. \A q \in Requests : Used(c, q) => q.nonce < c._nonces[q.forwarder][q.from]
    BY DEF Accounted
  <1>3. \A f \in Forwarders, s \in Signers : c._nonces[f][s] \in Nat
    BY StorageFields
  <1>4. ~Used(c, r) /\ ~Acted(c, r) /\ ~Failed(c, r)
    BY <1>2, RequestType
  <1>5. \A q \in Requests : SameAuthor(q, r) /\ q.nonce = r.nonce => ~Used(c, q)
    <2> SUFFICES ASSUME NEW q \in Requests, SameAuthor(q, r), q.nonce = r.nonce, Used(c, q)
                 PROVE  FALSE
      OBVIOUS
    <2>1. q.nonce < c._nonces[r.forwarder][r.from] /\ q.nonce \in Nat
      BY <1>2, RequestType DEF SameAuthor
    <2> QED  BY <2>1
  <1>6. ASSUME NEW q \in Requests, Used(d, q)
        PROVE  /\ q.nonce < d._nonces[q.forwarder][q.from]
               /\ ~(Acted(d, q) /\ Failed(d, q))
               /\ \A p \in Requests : SameAuthor(q, p) /\ q.nonce = p.nonce /\ Used(d, p) => p = q
    <2>1. CASE q = r
      <3>1. r.nonce < d._nonces[r.forwarder][r.from]
        BY RequestType
      <3>2. ~(Acted(d, r) /\ Failed(d, r))
        BY <1>4
      <3>3. \A p \in Requests : SameAuthor(r, p) /\ r.nonce = p.nonce /\ Used(d, p) => p = r
        BY <1>1, <1>5 DEF SameAuthor
      <3> QED  BY <2>1, <3>1, <3>2, <3>3
    <2>2. CASE q # r
      <3>1. Used(c, q)
        BY <1>1, <1>6, <2>2
      <3>2. q.nonce < c._nonces[q.forwarder][q.from] /\ q.nonce \in Nat /\ q.forwarder \in Forwarders /\ q.from \in Signers
        BY <1>2, <3>1, RequestType
      <3>3. q.nonce < d._nonces[q.forwarder][q.from]
        BY <1>3, <3>2, RequestType
      <3>4. ~(Acted(d, q) /\ Failed(d, q))
        BY <2>2, <3>1 DEF Accounted
      <3>5. ASSUME NEW p \in Requests, SameAuthor(q, p), q.nonce = p.nonce, Used(d, p) PROVE p = q
        <4>1. p # r
          BY <1>5, <3>1, <3>5 DEF SameAuthor
        <4>2. Used(c, p)
          BY <1>1, <3>5, <4>1
        <4> QED  BY <3>1, <3>5, <4>2 DEF Accounted
      <3> QED  BY <3>3, <3>4, <3>5
    <2> QED  BY <2>1, <2>2
  <1>7. ASSUME NEW f \in Forwarders, NEW s \in Signers, NEW n \in 0..d._nonces[f][s],
               n < d._nonces[f][s]
        PROVE  \E q \in Requests : q.forwarder = f /\ q.from = s /\ q.nonce = n /\ Used(d, q)
    <2>1. n \in Nat /\ c._nonces[f][s] \in Nat /\ r.nonce \in Nat
      BY <1>3, RequestType
    <2>2. CASE n < c._nonces[f][s]
      <3>1. n \in 0..c._nonces[f][s]
        BY <2>1, <2>2
      <3>2. PICK q \in Requests : q.forwarder = f /\ q.from = s /\ q.nonce = n /\ Used(c, q)
        BY <2>2, <3>1 DEF Accounted
      <3> QED  BY <1>1, <3>2
    <2>3. CASE ~(n < c._nonces[f][s])
      <3>1. f = r.forwarder /\ s = r.from /\ n = r.nonce
        BY <1>7, <2>1, <2>3
      <3> QED  BY <1>1, <3>1
    <2> QED  BY <2>2, <2>3
  <1>8. Accounted(d)
    BY <1>6, <1>7 DEF Accounted
  <1>9. Final(c, d)
    <2> SUFFICES ASSUME NEW q \in Requests, Spent(c, q)
                 PROVE  /\ Spent(d, q) /\ (Acted(d, q) <=> Acted(c, q))
                        /\ (Failed(d, q) <=> Failed(c, q))
      BY DEF Final
    <2>1. q # r
      BY RequestType DEF Spent
    <2>2. Spent(d, q)
      BY <1>3, RequestType DEF Spent
    <2> QED  BY <2>1, <2>2
  <1> QED  BY <1>8, <1>9
-----------------------------------------------------------------------------
LEMMA ExecuteSound ==
  ASSUME ForwarderIInv, NEW r \in Requests, execute(r)
  PROVE  ForwarderIInv' /\ Forward
  <1>0. /\ ForwarderTypeOK /\ chain \in Storage /\ StorageInv(chain)
        /\ chain._nonces[r.forwarder][r.from] = r.nonce /\ r \in signed
    BY StackFacts DEF ForwarderIInv, execute, Verify, Depth
  <1>1. PICK e \in Storage : e = NonceUsed(chain, r)
    BY <1>0, NonceStep
  <1>2. /\ e.acts = chain.acts /\ e.failed = chain.failed
        /\ \A f \in Forwarders, s \in Signers :
              e._nonces[f][s] = IF f = r.forwarder /\ s = r.from THEN r.nonce + 1
                                ELSE chain._nonces[f][s]
    BY <1>0, <1>1, NonceStep
  <1>3. r.forwarder \in Accounts /\ r.from \in Signers /\ {r} \in SUBSET Requests
    BY RequestType DEF Accounts
  <1>4. PICK d : d = Acting(e, r.forwarder, r.from, {r})
    OBVIOUS
  <1>5. /\ d \in Storage
        /\ d._nonces = e._nonces /\ d.failed = e.failed
        /\ \A q \in Requests : Acted(d, q) <=> Acted(e, q) \/ q \in {r}
        /\ Authorised(e) => Authorised(d)
        /\ Len(d.acts) = Len(e.acts) + 1 /\ d.acts[Len(e.acts) + 1].request = {r}
        /\ \A i \in 1..Len(e.acts) : d.acts[i] = e.acts[i]
    <2>1. \E q \in {r} : q.from = r.from /\ q \in signed /\ q.forwarder = r.forwarder
      BY <1>0
    <2> QED  BY <1>3, <1>4, <2>1, ActSound
  <1>6. /\ \A q \in Requests : Acted(d, q) <=> Acted(chain, q) \/ q = r
        /\ \A q \in Requests : Failed(d, q) <=> Failed(chain, q)
    BY <1>2, <1>5 DEF Acted, Failed
  <1>7. Accounted(d) /\ Final(chain, d)
    <2>1. \A f \in Forwarders, s \in Signers :
             d._nonces[f][s] = IF f = r.forwarder /\ s = r.from THEN r.nonce + 1
                               ELSE chain._nonces[f][s]
      BY <1>2, <1>5
    <2> QED  BY <1>0, <1>5, <1>6, <2>1, SpendSound DEF StorageInv
  <1>8. Authorised(d) /\ GasGiven(d)
    BY <1>0, <1>2, <1>5 DEF StorageInv, Authorised, GasGiven
  <1>9. Ordered(d.acts)
    <2>1. /\ chain.acts \in Seq(Act) /\ Len(chain.acts) \in Nat /\ d.acts \in Seq(Act)
          /\ DOMAIN chain.acts = 1..Len(chain.acts) /\ DOMAIN d.acts = 1..Len(chain.acts) + 1
      BY <1>0, <1>2, <1>5, StorageFields
    <2> SUFFICES ASSUME NEW i \in 1..Len(chain.acts) + 1, NEW j \in 1..Len(chain.acts) + 1, i < j,
                        NEW p \in d.acts[i].request, NEW q \in d.acts[j].request, SameAuthor(p, q)
                 PROVE  p.nonce < q.nonce
      BY <2>1 DEF Ordered
    <2>2. i \in 1..Len(chain.acts) /\ d.acts[i] = chain.acts[i]
      BY <1>2, <1>5, <2>1
    <2>3. CASE j \in 1..Len(chain.acts)
      <3>1. d.acts[j] = chain.acts[j]
        BY <1>2, <1>5, <2>3
      <3>2. Ordered(chain.acts)
        BY <1>0 DEF StorageInv
      <3> QED  BY <2>1, <2>2, <2>3, <3>1, <3>2 DEF Ordered
    <2>4. CASE j = Len(chain.acts) + 1
      <3>1. q = r
        BY <1>2, <1>5, <2>4
      <3>2. p \in Requests /\ Acted(chain, p)
        <4>1. p \in chain.acts[i].request /\ chain.acts[i] \in Act
          BY <2>1, <2>2
        <4>2. p \in Requests
          BY <4>1 DEF Act
        <4> QED  BY <2>1, <2>2, <4>1, <4>2 DEF Acted
      <3>3. p.nonce < chain._nonces[p.forwarder][p.from]
        BY <1>0, <3>2 DEF StorageInv, Accounted
      <3> QED  BY <1>0, <3>1, <3>3 DEF SameAuthor
    <2> QED  BY <2>1, <2>3, <2>4
  <1>10. PICK n \in Gas : stack' = Append(stack, [request |-> r, before |-> chain, calling |-> e,
                                                  left |-> n, given |-> Granted(r.gas, n)])
    BY <1>1 DEF execute
  <1>11. PICK frame : frame = [request |-> r, before |-> chain, calling |-> e,
                               left |-> n, given |-> Granted(r.gas, n)]
    OBVIOUS
  <1>12. n \in Nat /\ Granted(r.gas, n) \in Nat
    BY ForwarderAssumption, RequestType DEF Granted
  <1>13. frame \in Frame /\ frame.before = chain
    BY <1>0, <1>11, <1>12 DEF Frame
  <1>14. FrameInv(frame)
    BY <1>0, <1>1, <1>11 DEF FrameInv
  <1>15. StorageInv(d) /\ chain' = d /\ signed' = signed /\ stack' = Append(stack, frame)
    BY <1>1, <1>4, <1>7, <1>8, <1>9, <1>10, <1>11 DEF StorageInv, execute
  <1> QED  BY <1>5, <1>7, <1>13, <1>14, <1>15, CallSound

LEMMA CallsSound ==
  ASSUME ForwarderIInv, NEW caller \in Callers, NEW tail \in Signers, call(caller, tail)
  PROVE  ForwarderIInv' /\ Forward
  <1>0. /\ chain \in Storage /\ StorageInv(chain) /\ caller \in Accounts /\ {} \in SUBSET Requests
    BY StackFacts DEF ForwarderIInv, Depth, Accounts
  <1>1. PICK d : d = Acting(chain, caller, tail, {})
    OBVIOUS
  <1>2. /\ d \in Storage
        /\ d._nonces = chain._nonces /\ d.failed = chain.failed
        /\ \A q \in Requests : Acted(d, q) <=> Acted(chain, q) \/ q \in {}
        /\ Authorised(chain) => Authorised(d)
        /\ Len(d.acts) = Len(chain.acts) + 1 /\ d.acts[Len(chain.acts) + 1].request = {}
        /\ \A i \in 1..Len(chain.acts) : d.acts[i] = chain.acts[i]
    BY <1>0, <1>1, ActSound
  <1>3. Accounted(d) /\ GasGiven(d) /\ Final(chain, d)
    BY <1>0, <1>2, SameHistory DEF StorageInv
  <1>4. Ordered(d.acts)
    <2>1. /\ chain.acts \in Seq(Act) /\ Len(chain.acts) \in Nat /\ d.acts \in Seq(Act)
          /\ DOMAIN chain.acts = 1..Len(chain.acts) /\ DOMAIN d.acts = 1..Len(chain.acts) + 1
      BY <1>0, <1>2, StorageFields
    <2> SUFFICES ASSUME NEW i \in 1..Len(chain.acts) + 1, NEW j \in 1..Len(chain.acts) + 1, i < j,
                        NEW p \in d.acts[i].request, NEW q \in d.acts[j].request, SameAuthor(p, q)
                 PROVE  p.nonce < q.nonce
      BY <2>1 DEF Ordered
    <2>2. i \in 1..Len(chain.acts) /\ j \in 1..Len(chain.acts)
      BY <1>2, <2>1
    <2> QED  BY <1>0, <1>2, <2>1, <2>2 DEF StorageInv, Ordered
  <1>5. StorageInv(d)
    BY <1>0, <1>2, <1>3, <1>4 DEF StorageInv
  <1> QED  BY <1>1, <1>2, <1>3, <1>5, UpdateSound DEF call

LEMMA SetForwarderSound ==
  ASSUME ForwarderIInv, NEW forwarder \in Forwarders, NEW valid \in BOOLEAN,
         adminSetForwarder(forwarder, valid)
  PROVE  ForwarderIInv' /\ Forward
  <1>0. chain \in Storage /\ StorageInv(chain) /\ chain.isValidForwarder \subseteq Forwarders
    BY StackFacts, StorageFields DEF ForwarderIInv, Depth
  <1>1. PICK V \in SUBSET Forwarders : chain' = [chain EXCEPT !.isValidForwarder = V]
    BY <1>0 DEF adminSetForwarder
  <1>2. PICK d : d = [chain EXCEPT !.isValidForwarder = V]
    OBVIOUS
  <1>3. /\ d \in Storage /\ d._nonces = chain._nonces /\ d.failed = chain.failed /\ d.acts = chain.acts
    BY <1>0, <1>2 DEF Storage
  <1>4. Accounted(d) /\ GasGiven(d) /\ Final(chain, d)
    BY <1>0, <1>3, SameHistory DEF StorageInv, Acted
  <1>5. StorageInv(d)
    BY <1>0, <1>3, <1>4 DEF StorageInv, Authorised
  <1> QED  BY <1>1, <1>2, <1>3, <1>4, <1>5, UpdateSound DEF adminSetForwarder

(* The arithmetic of the assertion: a call that was given less than it      *)
(* asked for, and used it all, leaves too little to pass it.                *)
LEMMA GasLeftOver ==
  ASSUME NEW asked \in Nat, NEW n \in Nat, Granted(asked, n) # asked
  PROVE  ~GasSuffices(n - Granted(asked, n), asked)
  <1>1. Granted(asked, n) = n - n \div 64 /\ asked > n - n \div 64
    BY DEF Granted
  <1>2. n - (n - n \div 64) = n \div 64
    OBVIOUS
  <1>3. n \div 64 <= asked \div 63
    BY <1>1
  <1> QED  BY <1>1, <1>2, <1>3 DEF GasSuffices

LEMMA ReturnSound ==
  ASSUME ForwarderIInv, NEW success \in BOOLEAN, stack # <<>>, NEW burnt \in 0..Top.given,
         Return(success, burnt)
  PROVE  ForwarderIInv' /\ Forward
  <1>0. /\ ForwarderTypeOK /\ Depth \in Nat /\ Depth >= 1 /\ Top = stack[Depth] /\ chain \in Storage
        /\ StorageAt(Depth) = chain /\ StorageAt(Depth - 1) = Top.before /\ Top \in Frame
    BY StackFacts DEF ForwarderIInv
  <1>1. Depth \in 0..Depth /\ Depth - 1 \in 0..Depth /\ Depth \in 1..Depth
    BY <1>0
  <1>2. /\ StorageInv(chain) /\ Final(Committed, chain)
        /\ StorageInv(Top.before) /\ Final(Committed, Top.before)
    BY <1>0, <1>1 DEF ForwarderIInv, Depth
  <1>3. FrameInv(Top)
    BY <1>0, <1>1 DEF ForwarderIInv, Depth
  <1>4. Top.before \in Storage /\ Top.request \in Requests /\ Top.left \in Nat /\ Top.given \in Nat
    BY <1>0, FrameType
  <1>5. CASE chain' = Top.before
    BY <1>2, <1>4, <1>5, FinishSound DEF Return
  <1>6. CASE chain' = chain
    BY <1>0, <1>2, <1>6, FinishSound DEF Return
  <1>7. CASE /\ GasSuffices(Top.left - burnt, Top.request.gas)
             /\ chain' = Failing(Top.calling, Top, burnt)
    <2>1. PICK r \in Requests : r = Top.request
      BY <1>4
    <2>2. PICK b \in Storage : b = Top.before
      BY <1>4
    <2>3. b._nonces[r.forwarder][r.from] = r.nonce /\ Top.calling = NonceUsed(b, r)
          /\ Top.given = Granted(r.gas, Top.left)
      BY <1>3, <2>1, <2>2 DEF FrameInv
    <2>4. PICK e \in Storage : e = NonceUsed(b, r)
      BY <2>3, NonceStep
    <2>5. /\ e.acts = b.acts /\ e.failed = b.failed
          /\ \A f \in Forwarders, s \in Signers :
                e._nonces[f][s] = IF f = r.forwarder /\ s = r.from THEN r.nonce + 1
                                  ELSE b._nonces[f][s]
      BY <2>3, <2>4, NonceStep
    <2>6. PICK x : x = [request |-> r, given |-> Top.given, exhausted |-> burnt = Top.given]
      OBVIOUS
    <2>7. /\ x \in [request : Requests, given : Nat, exhausted : BOOLEAN]
          /\ x.request = r /\ x.given = Top.given /\ (x.exhausted <=> burnt = Top.given)
      BY <1>4, <2>6
    <2>8. PICK d : d = [e EXCEPT !.failed = e.failed \union {x}]
      OBVIOUS
    <2>9. /\ d \in Storage /\ d.acts = e.acts /\ d._nonces = e._nonces
          /\ d.failed = e.failed \union {x}
      BY <2>7, <2>8 DEF Storage
    <2>10. chain' = d
      BY <1>7, <2>1, <2>3, <2>4, <2>6, <2>8 DEF Failing
    <2>11. Accounted(d) /\ Final(b, d)
      <3>1. /\ \A q \in Requests : Acted(d, q) <=> Acted(b, q)
            /\ \A q \in Requests : Failed(d, q) <=> Failed(b, q) \/ q = r
        BY <2>5, <2>7, <2>9 DEF Acted, Failed
      <3>2. \A f \in Forwarders, s \in Signers :
               d._nonces[f][s] = IF f = r.forwarder /\ s = r.from THEN r.nonce + 1
                                 ELSE b._nonces[f][s]
        BY <2>5, <2>9
      <3>3. Accounted(b)
        BY <1>2, <2>2 DEF StorageInv
      <3> QED  BY <2>3, <2>9, <3>1, <3>2, <3>3, SpendSound
    <2>12. GasGiven(d)
      <3>1. GasGiven(b)
        BY <1>2, <2>2 DEF StorageInv
      <3>2. x.exhausted => x.given = x.request.gas
        <4>1. r.gas \in Nat
          BY RequestType
        <4>2. burnt = Top.given => Granted(r.gas, Top.left) = r.gas
          BY <1>4, <1>7, <2>1, <2>3, <4>1, GasLeftOver
        <4> QED  BY <2>3, <2>7, <4>2
      <3> QED  BY <2>5, <2>9, <3>1, <3>2 DEF GasGiven
    <2>13. Authorised(d) /\ Ordered(d.acts)
      BY <1>2, <2>2, <2>5, <2>9 DEF StorageInv, Authorised
    <2>14. Final(Committed, d)
      BY <1>2, <2>2, <2>11, FinalOrder
    <2>15. StorageInv(d)
      BY <2>11, <2>12, <2>13 DEF StorageInv
    <2> QED  BY <2>9, <2>10, <2>14, <2>15, FinishSound DEF Return
  <1> QED  BY <1>5, <1>6, <1>7 DEF Return
-----------------------------------------------------------------------------
LEMMA InitSound == Init => ForwarderIInv
  <1> SUFFICES ASSUME Init PROVE ForwarderIInv
    OBVIOUS
  <1>1. chain = NewStorage /\ stack = <<>> /\ Len(stack) = 0 /\ signed = {}
    BY DEF Init
  <1>2. NewStorage \in Storage
    BY DEF NewStorage, Storage
  <1>3. ForwarderTypeOK
    BY <1>1, <1>2 DEF ForwarderTypeOK
  <1>4. \A r \in Requests : ~Acted(NewStorage, r) /\ ~Failed(NewStorage, r)
    BY DEF Acted, Failed, NewStorage
  <1>5. Accounted(NewStorage)
    <2>1. \A f \in Forwarders, s \in Signers : NewStorage._nonces[f][s] = 0
      BY DEF NewStorage
    <2> QED  BY <1>4, <2>1 DEF Accounted
  <1>6. Authorised(NewStorage) /\ Ordered(NewStorage.acts) /\ GasGiven(NewStorage)
    BY DEF Authorised, Ordered, GasGiven, NewStorage
  <1>7. StorageAt(0) = chain
    BY <1>1 DEF StorageAt
  <1> QED  BY <1>1, <1>3, <1>5, <1>6, <1>7, FinalOrder DEF ForwarderIInv, StorageInv, Committed

LEMMA StepSound ==
  ASSUME ForwarderIInv, [Next]_vars
  PROVE  ForwarderIInv' /\ Forward
  <1>1. CASE stack # <<>> /\ ReturnWithin
    BY <1>1, ReturnSound DEF ReturnWithin
  <1>2. CASE UNCHANGED vars
    <2>1. stack' = stack /\ chain' = chain /\ signed' = signed
      BY <1>2 DEF vars
    <2>2. \A i : StorageAt(i)' = StorageAt(i)
      BY <2>1 DEF StorageAt
    <2>3. Committed' = Committed
      BY <2>2 DEF Committed
    <2>4. ForwarderIInv'
      BY <2>1, <2>2, <2>3 DEF ForwarderIInv, ForwarderTypeOK, StorageInv, Authorised
    <2> QED  BY <2>3, <2>4, FinalOrder DEF Forward
  <1> QED  BY <1>1, <1>2, SignSound, ExecuteSound, CallsSound, SetForwarderSound DEF Next

(* The inductive invariant, for any requests, gas and depth of calls.       *)
THEOREM ForwarderInvariance == Spec => []ForwarderIInv
  <1>1. ForwarderIInv /\ [Next]_vars => ForwarderIInv'
    BY StepSound
  <1> QED  BY <1>1, InitSound, PTL DEF Spec

LEMMA Consequences ==
  ForwarderIInv => ActsAuthorised /\ InNonceOrder /\ NoncesAccounted /\ GasHonoured
  <1> SUFFICES ASSUME ForwarderIInv
               PROVE  ActsAuthorised /\ InNonceOrder /\ NoncesAccounted /\ GasHonoured
    OBVIOUS
  <1>1. Depth \in 0..Depth /\ 0 \in 0..Depth /\ StorageAt(Depth) = chain
    BY StackFacts DEF ForwarderIInv
  <1>2. StorageInv(chain) /\ StorageInv(Committed)
    BY <1>1 DEF ForwarderIInv, Depth, Committed
  <1> QED  BY <1>2 DEF StorageInv, ActsAuthorised, InNonceOrder, NoncesAccounted, GasHonoured

(* The bridge acts in a signer's name only when the signer called it or     *)
(* signed the request.                                                      *)
THEOREM ActsAreAuthorised == Spec => []ActsAuthorised
  BY ForwarderInvariance, Consequences, PTL

(* An author's requests take effect in the order of their nonces.           *)
THEOREM ActsInNonceOrder == Spec => []InNonceOrder
  BY ForwarderInvariance, Consequences, PTL

(* Between transactions each used nonce is that of exactly one request,     *)
(* which took effect or failed.                                             *)
THEOREM EveryNonceAccounted == Spec => []NoncesAccounted
  BY ForwarderInvariance, Consequences, PTL

(* A call that failed for want of gas had all that its author asked for.    *)
THEOREM GasIsHonoured == Spec => []GasHonoured
  BY ForwarderInvariance, Consequences, PTL

(* What a used nonce has come to is final.                                  *)
THEOREM SpentIsFinal == Spec => SpentFinal
  <1>1. ForwarderIInv /\ [Next]_vars => [Final(Committed, Committed')]_vars
    BY StepSound DEF Forward
  <1> QED  BY <1>1, ForwarderInvariance, PTL DEF Spec, SpentFinal
-----------------------------------------------------------------------------
(* The token. *)

LEMMA PermittingTotal ==
  /\ \A S : Token!IsFiniteSet(S) <=> IsFiniteSet(S)
  /\ \A S : Token!Cardinality(S) = Cardinality(S)
  /\ \A f, S : Token!Total(f, S) = Total(f, S)
  <1>1. \A S : Token!IsFiniteSet(S) <=> IsFiniteSet(S)
    BY Zenon DEF Token!IsFiniteSet, IsFiniteSet
  <1>2. \A S : Token!Cardinality(S) = Cardinality(S)
    BY Zenon DEF Token!Cardinality, Cardinality
  <1>3. \A f, S : Token!Total(f, S) = Total(f, S)
    BY <1>2, Zenon DEF Token!Total, Total, Token!Units, Units
  <1> QED  BY <1>1, <1>2, <1>3

(* The invariant in parts that change by themselves: balances and supply,   *)
(* approvals, permits and nonces, and what the admins decide.               *)
Grants == [Holders -> [Holders -> Nat]]

SupplyPart ==
    balance \in [Holders -> Nat] /\ totalSupply \in Nat /\ totalSupply = Total(balance, Holders)

GrantsPart ==
    /\ allowance \in Grants /\ granted \in Grants /\ spent \in Grants
    /\ Token!SpentWithinGrants

PermitsPart ==
    /\ nonces \in [Holders -> Nat] /\ now \in Nat
    /\ used \subseteq [permit : Permits, at : Nat] /\ IsFiniteSet(used)
    /\ \A o \in Holders : nonces[o] = Cardinality({w \in used : w.permit.owner = o})
    /\ Token!NoncesBehind /\ Token!OnePermitPerNonce

AdminPart == minters \subseteq Holders /\ blackList \subseteq Holders \union {Zero} /\ paused \in BOOLEAN

LEMMA TokenParts == Token!BridgeTokenIInv <=> SupplyPart /\ GrantsPart /\ PermitsPart /\ AdminPart
  <1>1. Token!SupplyAddsUp <=> totalSupply = Total(balance, Holders)
    BY PermittingTotal DEF Token!SupplyAddsUp
  <1>2. Token!NoncesCount
          <=> \A o \in Holders : nonces[o] = Cardinality({w \in used : w.permit.owner = o})
    BY PermittingTotal DEF Token!NoncesCount
  <1>3. Token!BridgeTokenTypeOK
          <=> /\ balance \in [Holders -> Nat] /\ totalSupply \in Nat
              /\ allowance \in Grants /\ granted \in Grants /\ spent \in Grants
              /\ AdminPart /\ nonces \in [Holders -> Nat] /\ now \in Nat
              /\ used \subseteq [permit : Permits, at : Nat]
    BY DEF Token!BridgeTokenTypeOK, Grants, AdminPart
  <1>4. Token!IsFiniteSet(used) <=> IsFiniteSet(used)
    BY PermittingTotal
  <1> QED  BY <1>1, <1>2, <1>3, <1>4
           DEF Token!BridgeTokenIInv, Token!PermitsAccounted, SupplyPart, GrantsPart, PermitsPart

LEMMA TokenConstants ==
  ASSUME Token!BridgeTokenAssumption
  PROVE  /\ IsFiniteSet(Holders) /\ Amounts \subseteq Nat /\ Zero \notin Holders
         /\ InitialMinters \subseteq Holders
         /\ \A p \in Permits : /\ p.owner \in Holders /\ p.spender \in Holders
                               /\ p.value \in Nat /\ p.nonce \in Nat /\ p.deadline \in Nat
  BY PermittingTotal DEF Token!BridgeTokenAssumption

LEMMA TokenStart ==
  ASSUME Token!BridgeTokenAssumption, Token!Init
  PROVE  Token!BridgeTokenIInv
  <1> USE DEF Token!Init
  <1>1. SupplyPart
    <2>1. balance \in [Holders -> Nat] /\ \A a \in Holders : balance[a] = 0
      OBVIOUS
    <2>2. IsFiniteSet(Holders) /\ Cardinality(Holders) \in Nat
      BY TokenConstants, FS_CardinalityType
    <2>3. Total(balance, Holders) = 0 * Cardinality(Holders)
      BY <2>1, <2>2, TotalConstant
    <2> QED  BY <2>1, <2>2, <2>3 DEF SupplyPart
  <1>2. GrantsPart
    BY DEF GrantsPart, Grants, Token!SpentWithinGrants
  <1>3. PermitsPart
    <2>1. \A o \in Holders : {w \in used : w.permit.owner = o} = {}
      OBVIOUS
    <2>2. IsFiniteSet(used) /\ Cardinality({}) = 0
      BY FS_EmptySet
    <2> QED  BY <2>1, <2>2 DEF PermitsPart, Token!NoncesBehind, Token!OnePermitPerNonce
  <1>4. AdminPart
    BY TokenConstants DEF AdminPart
  <1> QED  BY <1>1, <1>2, <1>3, <1>4, TokenParts

(* What moves, is burnt or minted.                                          *)
LEMMA MoveSupply ==
  ASSUME IsFiniteSet(Holders), SupplyPart, NEW a \in Holders, NEW b \in Holders, NEW n \in Nat,
         Token!Move(a, b, n)
  PROVE  SupplyPart'
  <1> DEFINE taken == [balance EXCEPT ![a] = balance[a] - n]
             after == [taken EXCEPT ![b] = taken[b] + n]
  <1>1. balance' = after /\ totalSupply' = totalSupply /\ balance[a] >= n
    BY DEF Token!Move
  <1>2. /\ balance \in [Holders -> Nat] /\ balance[a] - n \in Nat
        /\ totalSupply \in Nat /\ totalSupply = Total(balance, Holders)
    BY <1>1 DEF SupplyPart
  <1>3. Less(balance, taken, a, n) /\ More(taken, after, b, n)
    BY DEF Less, More
  <1> HIDE DEF taken, after
  <1>4. after \in [Holders -> Nat] /\ Total(after, Holders) = Total(balance, Holders)
    BY <1>2, <1>3, TotalMoved
  <1> QED  BY <1>1, <1>2, <1>4 DEF SupplyPart

LEMMA BurnSupply ==
  ASSUME IsFiniteSet(Holders), SupplyPart, NEW a \in Holders, NEW n \in Nat, Token!Burn(a, n)
  PROVE  SupplyPart'
  <1> DEFINE after == [balance EXCEPT ![a] = balance[a] - n]
  <1>1. balance' = after /\ totalSupply' = totalSupply - n /\ balance[a] >= n
    BY DEF Token!Burn
  <1>2. balance \in [Holders -> Nat] /\ balance[a] - n \in Nat /\ totalSupply = Total(balance, Holders)
    BY <1>1 DEF SupplyPart
  <1>3. after \in [Holders -> Nat]
    BY <1>2
  <1>4. Total(after, Holders) \in Nat /\ Total(balance, Holders) = Total(after, Holders) + n
    BY <1>2, TotalLess
  <1> HIDE DEF after
  <1> QED  BY <1>1, <1>2, <1>3, <1>4 DEF SupplyPart

LEMMA MintSupply ==
  ASSUME IsFiniteSet(Holders), SupplyPart, NEW b \in Holders, NEW n \in Nat,
         balance' = [balance EXCEPT ![b] = balance[b] + n], totalSupply' = totalSupply + n
  PROVE  SupplyPart'
  <1> DEFINE after == [balance EXCEPT ![b] = balance[b] + n]
  <1>1. balance \in [Holders -> Nat] /\ totalSupply \in Nat /\ totalSupply = Total(balance, Holders)
    BY DEF SupplyPart
  <1>2. after \in [Holders -> Nat]
    BY <1>1
  <1>3. Total(after, Holders) = Total(balance, Holders) + n
    BY <1>1, TotalMore
  <1>4. balance' \in [Holders -> Nat] /\ Total(balance', Holders) = totalSupply'
    BY <1>1, <1>2, <1>3
  <1>5. totalSupply' \in Nat
    BY <1>1
  <1> QED  BY <1>4, <1>5, Zenon DEF SupplyPart

(* What is spent of an approval, and what is approved.                      *)
LEMMA SpendGrants ==
  ASSUME GrantsPart, NEW o \in Holders, NEW w \in Holders, NEW n \in Nat,
         Token!SpendAllowance(o, w, n)
  PROVE  GrantsPart'
  <1>1. /\ allowance[o][w] >= n /\ granted' = granted
        /\ allowance' = [allowance EXCEPT ![o][w] = @ - n]
        /\ spent' = [spent EXCEPT ![o][w] = @ + n]
    BY DEF Token!SpendAllowance
  <1>2. /\ allowance \in Grants /\ granted \in Grants /\ spent \in Grants
        /\ \A x, y \in Holders : spent[x][y] + allowance[x][y] <= granted[x][y]
    BY DEF GrantsPart, Token!SpentWithinGrants
  <1>3. allowance[o][w] - n \in Nat /\ spent[o][w] + n \in Nat
    BY <1>1, <1>2 DEF Grants
  <1>4. allowance' \in Grants /\ spent' \in Grants
    BY <1>1, <1>2, <1>3 DEF Grants
  <1>5. ASSUME NEW x \in Holders, NEW y \in Holders
        PROVE  spent'[x][y] + allowance'[x][y] <= granted[x][y]
    <2>1. spent[x][y] \in Nat /\ allowance[x][y] \in Nat /\ granted[x][y] \in Nat
      BY <1>2 DEF Grants
    <2>2. CASE x = o /\ y = w
      <3>1. spent'[x][y] = spent[x][y] + n /\ allowance'[x][y] = allowance[x][y] - n
        BY <1>1, <1>2, <2>2 DEF Grants
      <3> QED  BY <1>2, <2>1, <3>1
    <2>3. CASE ~(x = o /\ y = w)
      <3>1. spent'[x][y] = spent[x][y] /\ allowance'[x][y] = allowance[x][y]
        BY <1>1, <1>2, <2>3 DEF Grants
      <3> QED  BY <1>2, <3>1
    <2> QED  BY <2>2, <2>3
  <1> QED  BY <1>1, <1>2, <1>4, <1>5 DEF GrantsPart, Token!SpentWithinGrants

LEMMA ApproveGrants ==
  ASSUME GrantsPart, NEW o \in Holders, NEW w \in Holders, NEW n \in Nat,
         Token!_approve(o, w, n), Token!Granted(o, w, n)
  PROVE  GrantsPart'
  <1>1. /\ spent' = spent
        /\ allowance' = [allowance EXCEPT ![o][w] = n]
        /\ granted' = [granted EXCEPT ![o][w] = @ + n]
    BY DEF Token!_approve, Token!Granted
  <1>2. /\ allowance \in Grants /\ granted \in Grants /\ spent \in Grants
        /\ \A x, y \in Holders : spent[x][y] + allowance[x][y] <= granted[x][y]
    BY DEF GrantsPart, Token!SpentWithinGrants
  <1>3. granted[o][w] + n \in Nat
    BY <1>2 DEF Grants
  <1>4. allowance' \in Grants /\ granted' \in Grants
    BY <1>1, <1>2, <1>3 DEF Grants
  <1>5. ASSUME NEW x \in Holders, NEW y \in Holders
        PROVE  spent[x][y] + allowance'[x][y] <= granted'[x][y]
    <2>1. spent[x][y] \in Nat /\ allowance[x][y] \in Nat /\ granted[x][y] \in Nat
      BY <1>2 DEF Grants
    <2>2. CASE x = o /\ y = w
      <3>1. granted'[x][y] = granted[x][y] + n /\ allowance'[x][y] = n
        BY <1>1, <1>2, <2>2 DEF Grants
      <3>2. spent[x][y] + allowance[x][y] <= granted[x][y]
        BY <1>2
      <3> QED  BY <2>1, <3>1, <3>2
    <2>3. CASE ~(x = o /\ y = w)
      <3>1. granted'[x][y] = granted[x][y] /\ allowance'[x][y] = allowance[x][y]
        BY <1>1, <1>2, <2>3 DEF Grants
      <3> QED  BY <1>2, <3>1
    <2> QED  BY <2>2, <2>3
  <1> QED  BY <1>1, <1>2, <1>4, <1>5 DEF GrantsPart, Token!SpentWithinGrants

(* A permit that fits the nonce has not been used, and moves the nonce on.  *)
LEMMA PermitFresh ==
  ASSUME Token!NoncesBehind, NEW p, p.nonce = nonces[p.owner], p.nonce \in Nat
  PROVE  \A w \in used : ~(w.permit.owner = p.owner /\ w.permit.nonce = p.nonce)
  BY DEF Token!NoncesBehind

LEMMA PermitPermits ==
  ASSUME Token!BridgeTokenAssumption, PermitsPart, NEW p \in Permits, Token!permit(p)
  PROVE  PermitsPart'
  <1> DEFINE entry == [permit |-> p, at |-> now]
             Of(o, S) == {w \in S : w.permit.owner = o}
  <1>1. /\ p.owner \in Holders /\ p.nonce \in Nat /\ p.nonce = nonces[p.owner]
        /\ nonces' = [nonces EXCEPT ![p.owner] = nonces[p.owner] + 1]
        /\ used' = used \union {entry} /\ now' = now
    BY TokenConstants DEF Token!permit, Token!UseNonce
  <1>2. /\ nonces \in [Holders -> Nat] /\ now \in Nat
        /\ used \subseteq [permit : Permits, at : Nat] /\ IsFiniteSet(used)
        /\ \A o \in Holders : nonces[o] = Cardinality(Of(o, used))
        /\ Token!NoncesBehind /\ Token!OnePermitPerNonce
    BY DEF PermitsPart
  <1>3. \A w \in used : ~(w.permit.owner = p.owner /\ w.permit.nonce = p.nonce)
    BY <1>1, <1>2, PermitFresh
  <1>4. entry \in [permit : Permits, at : Nat] /\ entry.permit = p /\ entry \notin used
    BY <1>2, <1>3
  <1>5. \A w \in used : /\ w.permit \in Permits /\ w.permit.owner \in Holders
                        /\ w.permit.nonce \in Nat /\ w.permit.nonce < nonces[w.permit.owner]
    BY <1>2, TokenConstants DEF Token!NoncesBehind
  <1> HIDE DEF entry
  <1>6. nonces' \in [Holders -> Nat] /\ now' \in Nat /\ used' \subseteq [permit : Permits, at : Nat]
    <2>1. nonces[p.owner] + 1 \in Nat
      BY <1>1, <1>2
    <2> QED  BY <1>1, <1>2, <1>4, <2>1
  <1>7. IsFiniteSet(used')
    BY <1>1, <1>2, FS_AddElement
  <1>8. ASSUME NEW o \in Holders PROVE nonces'[o] = Cardinality(Of(o, used'))
    <2>1. IsFiniteSet(Of(o, used)) /\ nonces[o] = Cardinality(Of(o, used))
      BY <1>2, FS_Subset
    <2>2. CASE o = p.owner
      <3>1. Of(o, used') = Of(o, used) \union {entry} /\ entry \notin Of(o, used)
        BY <1>1, <1>4, <2>2
      <3>2. Cardinality(Of(o, used) \union {entry}) = Cardinality(Of(o, used)) + 1
        BY <2>1, <3>1, FS_AddElement
      <3>3. nonces'[o] = nonces[o] + 1
        BY <1>1, <1>2, <2>2
      <3> QED  BY <2>1, <3>1, <3>2, <3>3
    <2>3. CASE o # p.owner
      <3>1. Of(o, used') = Of(o, used)
        BY <1>1, <1>4, <2>3
      <3>2. nonces'[o] = nonces[o]
        BY <1>1, <1>2, <2>3
      <3> QED  BY <2>1, <3>1, <3>2
    <2> QED  BY <2>2, <2>3
  <1>9. ASSUME NEW w \in used' PROVE w.permit.nonce < nonces'[w.permit.owner]
    <2>1. CASE w \in used
      <3>1. nonces[w.permit.owner] \in Nat /\ nonces'[w.permit.owner] >= nonces[w.permit.owner]
        BY <1>1, <1>2, <1>5, <2>1
      <3> QED  BY <1>5, <1>6, <2>1, <3>1
    <2>2. CASE w = entry
      BY <1>1, <1>2, <1>4, <2>2
    <2> QED  BY <1>1, <2>1, <2>2
  <1>10. ASSUME NEW w \in used', NEW v \in used',
                w.permit.owner = v.permit.owner, w.permit.nonce = v.permit.nonce
         PROVE  w = v
    <2>1. CASE w \in used /\ v \in used
      BY <1>2, <1>10, <2>1 DEF Token!OnePermitPerNonce
    <2>2. CASE w = entry \/ v = entry
      BY <1>1, <1>3, <1>4, <1>10, <2>2
    <2> QED  BY <1>1, <2>1, <2>2
  <1> HIDE DEF Of
  <1>11. \A o \in Holders : nonces'[o] = Cardinality({w \in used' : w.permit.owner = o})
    BY <1>8 DEF Of
  <1> QED  BY <1>6, <1>7, <1>9, <1>10, <1>11
           DEF PermitsPart, Token!NoncesBehind, Token!OnePermitPerNonce

LEMMA PermitGrants ==
  ASSUME Token!BridgeTokenAssumption, GrantsPart, PermitsPart, NEW p \in Permits, Token!permit(p)
  PROVE  GrantsPart' /\ balance' = balance /\ totalSupply' = totalSupply
  <1>1. /\ p.owner \in Holders /\ p.spender \in Holders /\ p.value \in Nat /\ p.nonce \in Nat
        /\ p.nonce = nonces[p.owner]
    BY TokenConstants DEF Token!permit
  <1>2. p \notin {w.permit : w \in used}
    BY <1>1, PermitFresh DEF PermitsPart
  <1>3. Token!_approve(p.owner, p.spender, p.value) /\ Token!Granted(p.owner, p.spender, p.value)
    BY <1>2 DEF Token!permit
  <1> QED  BY <1>1, <1>3, ApproveGrants DEF Token!_approve

LEMMA TokenUsed ==
  ASSUME Token!BridgeTokenAssumption, SupplyPart, GrantsPart, Token!UseToken
  PROVE  SupplyPart' /\ GrantsPart'
  <1>1. PICK a \in Holders, b \in Holders, n \in Amounts :
           \/ Token!transfer(a, b, n)
           \/ \E w \in Holders : Token!transferFrom(w, a, b, n)
           \/ Token!burn(a, n)
           \/ Token!burnFrom(b, a, n)
           \/ Token!mint(a, b, n)
           \/ Token!approve(a, b, n)
    BY DEF Token!UseToken
  <1>2. IsFiniteSet(Holders) /\ n \in Nat
    BY TokenConstants
  <1>3. UNCHANGED <<allowance, granted, spent>> => GrantsPart'
    BY DEF GrantsPart, Token!SpentWithinGrants
  <1>4. CASE Token!transfer(a, b, n)
    BY <1>2, <1>3, <1>4, MoveSupply DEF Token!transfer
  <1>5. ASSUME NEW w \in Holders, Token!transferFrom(w, a, b, n)
        PROVE  SupplyPart' /\ GrantsPart'
    BY <1>2, <1>5, MoveSupply, SpendGrants DEF Token!transferFrom
  <1>6. CASE Token!burn(a, n)
    BY <1>2, <1>3, <1>6, BurnSupply DEF Token!burn
  <1>7. CASE Token!burnFrom(b, a, n)
    BY <1>2, <1>7, BurnSupply, SpendGrants DEF Token!burnFrom
  <1>8. CASE Token!mint(a, b, n)
    BY <1>2, <1>3, <1>8, MintSupply DEF Token!mint
  <1>9. CASE Token!approve(a, b, n)
    <2>1. GrantsPart'
      BY <1>2, <1>9, ApproveGrants DEF Token!approve
    <2>2. balance' = balance /\ totalSupply' = totalSupply
      BY <1>9 DEF Token!approve, Token!_approve
    <2> QED  BY <2>1, <2>2 DEF SupplyPart
  <1> QED  BY <1>1, <1>4, <1>5, <1>6, <1>7, <1>8, <1>9

(* Parts that a step leaves alone.                                          *)
LEMMA PartsKept ==
  /\ SupplyPart /\ UNCHANGED <<balance, totalSupply>> => SupplyPart'
  /\ GrantsPart /\ UNCHANGED <<allowance, granted, spent>> => GrantsPart'
  /\ PermitsPart /\ UNCHANGED <<nonces, now, used>> => PermitsPart'
  /\ AdminPart /\ UNCHANGED <<minters, blackList, paused>> => AdminPart'
  <1>1. SupplyPart /\ UNCHANGED <<balance, totalSupply>> => SupplyPart'
    BY DEF SupplyPart
  <1>2. GrantsPart /\ UNCHANGED <<allowance, granted, spent>> => GrantsPart'
    BY DEF GrantsPart, Token!SpentWithinGrants
  <1>3. PermitsPart /\ UNCHANGED <<nonces, now, used>> => PermitsPart'
    BY DEF PermitsPart, Token!NoncesBehind, Token!OnePermitPerNonce
  <1>4. AdminPart /\ UNCHANGED <<minters, blackList, paused>> => AdminPart'
    BY DEF AdminPart
  <1> QED  BY <1>1, <1>2, <1>3, <1>4

LEMMA TokenStep ==
  ASSUME Token!BridgeTokenAssumption, Token!BridgeTokenIInv, [Token!Next]_(Token!vars)
  PROVE  Token!BridgeTokenIInv'
  <1> USE DEF Token!token, Token!vars
  <1>1. SupplyPart /\ GrantsPart /\ PermitsPart /\ AdminPart
    BY TokenParts
  <1>2. SUFFICES SupplyPart' /\ GrantsPart' /\ PermitsPart' /\ AdminPart'
    BY TokenParts, PTL
  <1>3. CASE Token!UseToken
    <2>1. UNCHANGED <<minters, blackList, paused, nonces, now, used>>
      BY <1>3 DEF Token!UseToken
    <2> QED  BY <1>1, <1>3, <2>1, TokenUsed, PartsKept
  <1>4. CASE Token!Administer
    <2>1. UNCHANGED <<balance, totalSupply, allowance, granted, spent, nonces, now, used>>
      BY <1>4 DEF Token!Administer
    <2>2. PICK admin \in Holders, account \in Holders \union {Zero} :
             \/ Token!setBlackList(admin, account)
             \/ \E value \in BOOLEAN : Token!SetPaused(admin, value)
             \/ account # Zero /\ Token!SetMinter(admin, account)
      BY <1>4 DEF Token!Administer
    <2>3. AdminPart'
      BY <1>1, <2>2 DEF AdminPart, Token!setBlackList, Token!SetPaused, Token!SetMinter
    <2> QED  BY <1>1, <2>1, <2>3, PartsKept
  <1>5. ASSUME NEW p \in Permits, Token!permit(p)
        PROVE  SupplyPart' /\ GrantsPart' /\ PermitsPart' /\ AdminPart'
    <2>1. UNCHANGED <<minters, blackList, paused>>
      BY <1>5 DEF Token!permit
    <2> QED  BY <1>1, <1>5, <2>1, PermitPermits, PermitGrants, PartsKept
  <1>6. CASE Token!Tick
    <2>1. /\ UNCHANGED <<balance, totalSupply, allowance, granted, spent, minters, blackList, paused>>
          /\ UNCHANGED <<nonces, used>> /\ now' = now + 1
      BY <1>6 DEF Token!Tick
    <2>2. PermitsPart'
      BY <1>1, <2>1 DEF PermitsPart, Token!NoncesBehind, Token!OnePermitPerNonce
    <2> QED  BY <1>1, <2>1, <2>2, PartsKept
  <1>7. CASE UNCHANGED Token!vars
    <2>1. /\ UNCHANGED <<balance, totalSupply>> /\ UNCHANGED <<allowance, granted, spent>>
          /\ UNCHANGED <<nonces, now, used>> /\ UNCHANGED <<minters, blackList, paused>>
      BY <1>7
    <2> QED  BY <1>1, <2>1, PartsKept
  <1> QED  BY <1>3, <1>4, <1>5, <1>6, <1>7 DEF Token!Next

(* The inductive invariant of the token.                                    *)
THEOREM TokenInvariance ==
  ASSUME Token!BridgeTokenAssumption
  PROVE  Token!Spec => []Token!BridgeTokenIInv
  <1>1. Token!BridgeTokenIInv /\ [Token!Next]_(Token!vars) => Token!BridgeTokenIInv'
    BY TokenStep
  <1> QED  BY <1>1, TokenStart, PTL DEF Token!Spec

(* Nobody moves more of an owner's tokens than the owner approved, of the   *)
(* permits for one nonce at most one is used, and balances add up.          *)
THEOREM PermitsAlwaysAccounted ==
  ASSUME Token!BridgeTokenAssumption
  PROVE  Token!Spec => []PermitsAccounted
  <1>1. Token!BridgeTokenIInv => Token!PermitsAccounted
    BY DEF Token!BridgeTokenIInv
  <1> QED  BY <1>1, TokenInvariance, PTL DEF PermitsAccounted

(* What is on the black list, or paused, does not move.                     *)
LEMMA FrozenMoves ==
  ASSUME balance \in [Holders -> Nat], NEW a \in Holders, NEW b \in Holders, NEW n \in Nat,
         Token!Move(a, b, n) \/ Token!Burn(a, n)
  PROVE  /\ \A x \in Holders \ {a} : balance'[x] >= balance[x]
         /\ a \notin blackList /\ ~paused
  <1>1. a \notin blackList /\ ~paused
    BY DEF Token!Move, Token!Burn, Token!_beforeTokenTransfer
  <1>2. ASSUME NEW x \in Holders \ {a} PROVE balance'[x] >= balance[x]
    <2>1. CASE Token!Move(a, b, n)
      BY <2>1 DEF Token!Move
    <2>2. CASE Token!Burn(a, n)
      BY <2>2 DEF Token!Burn
    <2> QED  BY <2>1, <2>2
  <1> QED  BY <1>1, <1>2

LEMMA FrozenStep ==
  ASSUME Token!BridgeTokenAssumption, Token!BridgeTokenIInv, [Token!Next]_(Token!vars)
  PROVE  Token!BalancesFrozen
  <1> USE DEF Token!BalancesFrozen
  <1>1. balance \in [Holders -> Nat] /\ blackList \ {Zero} \subseteq Holders
    BY TokenParts DEF SupplyPart, AdminPart
  <1>2. CASE balance' = balance
    BY <1>1, <1>2
  <1>3. ASSUME NEW a \in Holders, NEW b \in Holders, NEW n \in Amounts,
               Token!Move(a, b, n) \/ Token!Burn(a, n)
        PROVE  Token!BalancesFrozen
    BY <1>1, <1>3, TokenConstants, FrozenMoves
  <1>4. ASSUME NEW a \in Holders, NEW b \in Holders, NEW n \in Amounts, Token!mint(a, b, n)
        PROVE  Token!BalancesFrozen
    <2>1. balance' = [balance EXCEPT ![b] = @ + n] /\ ~paused /\ n \in Nat
      BY <1>4, TokenConstants DEF Token!mint, Token!_beforeTokenTransfer
    <2>2. \A x \in Holders : balance'[x] >= balance[x]
      BY <1>1, <2>1
    <2> QED  BY <1>1, <2>1, <2>2
  <1>5. CASE Token!UseToken
    <2>1. PICK a \in Holders, b \in Holders, n \in Amounts :
             \/ Token!transfer(a, b, n)
             \/ \E w \in Holders : Token!transferFrom(w, a, b, n)
             \/ Token!burn(a, n)
             \/ Token!burnFrom(b, a, n)
             \/ Token!mint(a, b, n)
             \/ Token!approve(a, b, n)
      BY <1>5 DEF Token!UseToken
    <2>2. CASE Token!approve(a, b, n)
      BY <1>2, <2>2 DEF Token!approve, Token!_approve
    <2> QED  BY <1>3, <1>4, <2>1, <2>2
             DEF Token!transfer, Token!transferFrom, Token!burn, Token!burnFrom
  <1>6. CASE Token!Administer \/ Token!Tick \/ UNCHANGED Token!vars
    BY <1>2, <1>6 DEF Token!Administer, Token!Tick, Token!vars, Token!token
  <1>7. ASSUME NEW p \in Permits, Token!permit(p)
        PROVE  Token!BalancesFrozen
    BY <1>2, <1>7 DEF Token!permit, Token!_approve
  <1> QED  BY <1>5, <1>6, <1>7 DEF Token!Next

(* A black-listed account's tokens go nowhere; in a pause none do.          *)
THEOREM FrozenAccountsStay ==
  ASSUME Token!BridgeTokenAssumption
  PROVE  Token!Spec => FrozenStays
  <1>1. Token!BridgeTokenIInv /\ [Token!Next]_(Token!vars)
          => [Token!BalancesFrozen]_(Token!vars)
    BY FrozenStep
  <1> QED  BY <1>1, TokenInvariance, PTL DEF Token!Spec, FrozenStays
-----------------------------------------------------------------------------
(* The fee that an oracle's message fixes. *)

LEMMA Quotient ==
  ASSUME NEW m \in Nat, NEW d \in Nat \ {0}
  PROVE  m \div d \in Nat
  OBVIOUS

LEMMA Product ==
  ASSUME NEW m \in Nat, NEW n \in Nat
  PROVE  m * n \in Nat
  OBVIOUS

(* The cost and the share that the fee is computed from are the true ones:  *)
(* a product that does not fit yields no fee.                               *)
LEMMA FeeTrue ==
  ASSUME NEW message, NEW route, NEW amount, NEW fee \in Fees!_calculateFee(message, route, amount)
  PROVE  LET c == [fee |-> fee, message |-> message, amount |-> amount,
                   gas |-> _gasUsed, percent |-> _feePercent]
         IN  fee = IF Fees!TrueShare(c) < Fees!TrueCost(c) THEN Fees!TrueCost(c) ELSE Fees!TrueShare(c)
  <1> DEFINE c == [fee |-> fee, message |-> message, amount |-> amount,
                   gas |-> _gasUsed, percent |-> _feePercent]
  <1>1. ASSUME NEW x, NEW y, NEW z \in Fees!Times(x, y) PROVE z = x * y
    BY <1>1 DEF Fees!Times
  <1>2. ASSUME NEW cost \in Fees!TxCost(message) PROVE cost = Fees!TrueCost(c)
    <2>1. PICK z \in Fees!Times(message.dstGasPrice, _gasUsed) :
             \E product \in Fees!Times(z, message.ter) : cost = product \div TerScale
      BY <1>2 DEF Fees!TxCost
    <2>2. PICK product \in Fees!Times(z, message.ter) : cost = product \div TerScale
      BY <2>1
    <2>3. product = message.dstGasPrice * _gasUsed * message.ter
      BY <1>1
    <2> QED  BY <2>2, <2>3 DEF Fees!TrueCost
  <1>3. ASSUME NEW share \in Fees!Share(amount) PROVE share = Fees!TrueShare(c)
    BY <1>1, <1>3 DEF Fees!Share, Fees!TrueShare
  <1>4. PICK share \in Fees!Share(amount), cost \in Fees!TxCost(message) :
           fee = IF share < cost THEN cost ELSE share
    BY DEF Fees!_calculateFee
  <1> QED  BY <1>2, <1>3, <1>4

(* What a fee was collected with, and that it is the greater of the two.    *)
Collected == [fee : Nat, message : Fees!Messages, amount : FeeAmounts, gas : Nat, percent : Nat]

FeesIInv ==
    /\ _gasUsed \in Nat /\ _feePercent \in Nat
    /\ collected \subseteq Collected
    /\ Fees!FeeCovers

LEMMA FeeNumbers ==
  ASSUME Fees!FeeOracleAssumption, NEW message \in Fees!Messages, NEW gas \in Nat, NEW percent \in Nat,
         NEW amount \in FeeAmounts, NEW fee
  PROVE  LET c == [fee |-> fee, message |-> message, amount |-> amount, gas |-> gas, percent |-> percent]
         IN  Fees!TrueCost(c) \in Nat /\ Fees!TrueShare(c) \in Nat
  <1>1. /\ message.dstGasPrice \in Nat /\ message.ter \in Nat /\ amount \in Nat
        /\ TerScale \in Nat \ {0} /\ PercentScale \in Nat \ {0}
    BY DEF Fees!FeeOracleAssumption, Fees!Messages
  <1>2. message.dstGasPrice * gas \in Nat
    BY <1>1, Product
  <1>3. message.dstGasPrice * gas * message.ter \in Nat /\ amount * percent \in Nat
    BY <1>1, <1>2, Product
  <1>4. (message.dstGasPrice * gas * message.ter) \div TerScale \in Nat
    BY <1>1, <1>3, Quotient
  <1>5. (amount * percent) \div PercentScale \in Nat
    BY <1>1, <1>3, Quotient
  <1> QED  BY <1>4, <1>5 DEF Fees!TrueCost, Fees!TrueShare

LEMMA FeesStep ==
  ASSUME Fees!FeeOracleAssumption, FeesIInv, [Fees!Next]_(Fees!vars)
  PROVE  FeesIInv'
  <1> USE DEF FeesIInv
  <1>1. ASSUME NEW message \in Fees!Messages, NEW route \in Routes, NEW amount \in FeeAmounts,
               Fees!collectFee(message, route, amount)
        PROVE  FeesIInv'
    <2>1. UNCHANGED <<_gasUsed, _feePercent>>
      BY <1>1 DEF Fees!collectFee
    <2>2. PICK fee \in Fees!_calculateFee(message, route, amount) :
             collected' = {[fee |-> fee, message |-> message, amount |-> amount,
                            gas |-> _gasUsed, percent |-> _feePercent]}
      BY <1>1 DEF Fees!collectFee
    <2> DEFINE c == [fee |-> fee, message |-> message, amount |-> amount,
                     gas |-> _gasUsed, percent |-> _feePercent]
               cost == Fees!TrueCost(c)
               share == Fees!TrueShare(c)
    <2>3. cost \in Nat /\ share \in Nat
      BY FeeNumbers
    <2>4. fee = IF share < cost THEN cost ELSE share
      BY FeeTrue
    <2>5. collected' = {c} /\ c.fee = fee
      BY <2>2
    <2> HIDE DEF cost, share
    <2>6. fee \in Nat /\ fee >= cost /\ fee >= share /\ fee \in {cost, share}
      BY <2>3, <2>4
    <2>7. c \in Collected
      BY <2>6 DEF Collected
    <2> HIDE DEF c
    <2>8. Fees!FeeCovers'
      BY <2>5, <2>6 DEF Fees!FeeCovers, cost, share
    <2> QED  BY <2>1, <2>5, <2>7, <2>8
  <1>2. ASSUME UNCHANGED collected, _gasUsed' \in Nat, _feePercent' \in Nat
        PROVE  FeesIInv'
    BY <1>2 DEF Fees!FeeCovers
  <1>3. ASSUME NEW oracle \in Oracles, Fees!setFeeOracle(oracle)
        PROVE  FeesIInv'
    BY <1>2, <1>3 DEF Fees!setFeeOracle
  <1>4. ASSUME NEW gas \in GasUses, NEW percent \in Percents, Fees!setFeeProperties(gas, percent)
        PROVE  FeesIInv'
    <2>1. gas \in Nat /\ percent \in Nat
      BY DEF Fees!FeeOracleAssumption
    <2> QED  BY <1>2, <1>4, <2>1 DEF Fees!setFeeProperties
  <1>5. CASE Fees!Tick \/ UNCHANGED Fees!vars
    BY <1>2, <1>5 DEF Fees!Tick, Fees!vars
  <1> QED  BY <1>1, <1>3, <1>4, <1>5 DEF Fees!Next

(* A fee that is collected covers the cost and the share in full numbers,   *)
(* and is one of the two, whatever the width of the machine's word.         *)
THEOREM FeeAlwaysCovers ==
  ASSUME Fees!FeeOracleAssumption
  PROVE  Fees!Spec => []FeeCovers
  <1>1. Fees!Init => FeesIInv
    BY DEF Fees!Init, FeesIInv, Fees!FeeCovers
  <1>2. FeesIInv /\ [Fees!Next]_(Fees!vars) => FeesIInv'
    BY FeesStep
  <1>3. FeesIInv => Fees!FeeCovers
    BY DEF FeesIInv
  <1> QED  BY <1>1, <1>2, <1>3, PTL DEF FeeCovers, Fees!Spec
-----------------------------------------------------------------------------
(* The tasks that deploy the proxies. *)

Parts == Deployment!Parts
Names == Deployment!HandlerNames
Ids == ProxyDomains \union {Deployment!NoId}
Proxy == [part : Parts, bridge : Nat, domain : Ids, omitted : BOOLEAN]

(* Fits, for any deployments and file.                                      *)
FitsWith(deployments, config) ==
    /\ \A p \in Parts : config.at[p] <= Len(deployments)
    /\ \A h \in Names :
          /\ config.at[h] # 0 => config.at["bridge"] # 0
          /\ config.at[h] > config.at["bridge"] => deployments[config.at[h]].bridge = config.at["bridge"]
    /\ config.at["bridge"] # 0 => deployments[config.at["bridge"]].domain = config.id

LEMMA PartNames ==
  ASSUME Deployment!ProxyTasksAssumption
  PROVE  /\ "bridge" \in Parts /\ "signature" \in Parts /\ Names \subseteq Parts
         /\ "bridge" \notin Names /\ "signature" \notin Names
         /\ \A p \in Parts : p = "bridge" \/ p = "signature" \/ p \in Names
         /\ Handlers \in Seq(Parts)
  <1>1. \A i \in 1..Len(Handlers) : Handlers[i] \in Names
    BY DEF Deployment!ProxyTasksAssumption, Names, Deployment!HandlerNames, Deployment!ToSet
  <1>2. Names \intersect {"bridge", "signature"} = {}
    BY DEF Deployment!ProxyTasksAssumption, Names, Deployment!HandlerNames
  <1>3. Parts = {"bridge", "signature"} \union Names
    BY DEF Parts, Names, Deployment!Parts
  <1>4. Handlers \in Seq(Parts)
    <2>1. Handlers \in Seq(STRING)
      BY DEF Deployment!ProxyTasksAssumption
    <2> QED  BY <1>1, <1>3, <2>1
  <1> QED  BY <1>2, <1>3, <1>4

LEMMA FileType ==
  ASSUME NEW c \in Deployment!File
  PROVE  c.id \in Ids /\ c.at \in [Parts -> Nat]
  BY DEF Deployment!File, Ids, Parts

(* What fits keeps fitting when something is deployed.                      *)
LEMMA FitsKept ==
  ASSUME Deployment!ProxyTasksAssumption, NEW deployments \in Seq(Proxy), NEW x \in Proxy,
         NEW c \in Deployment!File, FitsWith(deployments, c)
  PROVE  FitsWith(Append(deployments, x), c)
  <1> DEFINE more == Append(deployments, x)
  <1>1. /\ Len(deployments) \in Nat /\ Len(more) = Len(deployments) + 1
        /\ \A i \in 1..Len(deployments) : more[i] = deployments[i]
    OBVIOUS
  <1> HIDE DEF more
  <1>2. c.at \in [Parts -> Nat] /\ "bridge" \in Parts /\ Names \subseteq Parts
    BY FileType, PartNames
  <1>3. \A p \in Parts : c.at[p] <= Len(deployments) /\ c.at[p] <= Len(more)
    BY <1>1, <1>2 DEF FitsWith
  <1>4. \A p \in Parts : c.at[p] # 0 => more[c.at[p]] = deployments[c.at[p]]
    BY <1>1, <1>2, <1>3
  <1>5. ASSUME NEW h \in Names
        PROVE  /\ c.at[h] # 0 => c.at["bridge"] # 0
               /\ c.at[h] > c.at["bridge"] => more[c.at[h]].bridge = c.at["bridge"]
    <2>1. /\ c.at[h] # 0 => c.at["bridge"] # 0
          /\ c.at[h] > c.at["bridge"] => deployments[c.at[h]].bridge = c.at["bridge"]
      BY DEF FitsWith
    <2>2. c.at[h] > c.at["bridge"] => c.at[h] # 0
      BY <1>2
    <2> QED  BY <1>2, <1>4, <2>1, <2>2
  <1>6. c.at["bridge"] # 0 => more[c.at["bridge"]].domain = c.id
    BY <1>2, <1>4 DEF FitsWith
  <1>7. FitsWith(more, c)
    BY <1>3, <1>5, <1>6 DEF FitsWith
  <1> QED  BY <1>7 DEF more

(* A copy in which the part just deployed is recorded.                      *)
Recorded(c, id, part, n) == [id |-> id, at |-> [c.at EXCEPT ![part] = n]]

LEMMA DeployedFits ==
  ASSUME Deployment!ProxyTasksAssumption, NEW deployments \in Seq(Proxy), NEW x \in Proxy,
         NEW c \in Deployment!File, FitsWith(deployments, c),
         NEW part \in Parts, NEW id \in Ids,
         part \in Names => c.at["bridge"] # 0 /\ x.bridge = c.at["bridge"],
         part = "bridge" => x.domain = id,
         part # "bridge" => id = c.id,
         NEW n, n = Len(deployments) + 1,
         NEW d, d = Recorded(c, id, part, n)
  PROVE  /\ d \in Deployment!File /\ FitsWith(Append(deployments, x), d)
         /\ \A p \in Parts : d.at[p] >= c.at[p]
  <1> DEFINE more == Append(deployments, x)
  <1>1. /\ Len(deployments) \in Nat /\ n \in Nat /\ Len(more) = n /\ n # 0
        /\ \A i \in 1..Len(deployments) : more[i] = deployments[i]
        /\ more[n] = x
    OBVIOUS
  <1>2. FitsWith(more, c)
    BY FitsKept
  <1> HIDE DEF more
  <1>3. c.at \in [Parts -> Nat] /\ "bridge" \in Parts /\ Names \subseteq Parts /\ "bridge" \notin Names
    BY FileType, PartNames
  <1>4. \A p \in Parts : c.at[p] < n
    BY <1>1, <1>3 DEF FitsWith
  <1>5. d.id = id /\ d.at = [c.at EXCEPT ![part] = n] /\ d.at \in [Parts -> Nat] /\ d \in Deployment!File
    BY <1>1, <1>3 DEF Recorded, Deployment!File, Ids, Parts
  <1>6. \A p \in Parts : d.at[p] = IF p = part THEN n ELSE c.at[p]
    BY <1>3, <1>5
  <1>7. \A p \in Parts : d.at[p] >= c.at[p] /\ d.at[p] <= Len(more)
    BY <1>1, <1>3, <1>4, <1>6
  <1>8. ASSUME NEW h \in Names
        PROVE  /\ d.at[h] # 0 => d.at["bridge"] # 0
               /\ d.at[h] > d.at["bridge"] => more[d.at[h]].bridge = d.at["bridge"]
    <2>1. /\ c.at[h] # 0 => c.at["bridge"] # 0
          /\ c.at[h] > c.at["bridge"] => more[c.at[h]].bridge = c.at["bridge"]
          /\ c.at[h] \in Nat /\ c.at["bridge"] \in Nat
      BY <1>2, <1>3 DEF FitsWith
    <2>2. CASE part = "bridge"
      <3>1. d.at["bridge"] = n /\ d.at[h] = c.at[h] /\ c.at[h] < n
        BY <1>3, <1>4, <1>6, <2>2
      <3> QED  BY <1>1, <2>1, <3>1
    <2>3. CASE part = h
      <3>1. d.at["bridge"] = c.at["bridge"] /\ d.at[h] = n
        BY <1>3, <1>6, <2>3
      <3> QED  BY <1>1, <2>3, <3>1
    <2>4. CASE part # "bridge" /\ part # h
      <3>1. d.at["bridge"] = c.at["bridge"] /\ d.at[h] = c.at[h]
        BY <1>3, <1>6, <2>4
      <3> QED  BY <2>1, <3>1
    <2> QED  BY <2>2, <2>3, <2>4
  <1>9. d.at["bridge"] # 0 => more[d.at["bridge"]].domain = d.id
    <2>1. CASE part = "bridge"
      BY <1>1, <1>3, <1>5, <1>6, <2>1
    <2>2. CASE part # "bridge"
      BY <1>2, <1>3, <1>5, <1>6, <2>2 DEF FitsWith
    <2> QED  BY <2>1, <2>2
  <1>10. FitsWith(more, d)
    BY <1>7, <1>8, <1>9 DEF FitsWith
  <1> QED  BY <1>5, <1>7, <1>10 DEF more

Task == [running : BOOLEAN, left : Seq(Parts),
         domain : ProxyDomains \union {Deployment!Omitted, Deployment!Empty},
         config : Deployment!File, read : Deployment!File]

(* A task's copy fits and is not behind what it read.                       *)
Working(deployments, t) ==
    FitsWith(deployments, t.config) /\ \A p \in Parts : t.config.at[p] >= t.read.at[p]

DeploymentInv ==
    /\ proxies \in Seq(Proxy) /\ proxyFile \in Deployment!File
    /\ proxyTask \in [Operators -> Task] /\ proxiesStarted \in Nat
    /\ FitsWith(proxies, proxyFile)
    /\ \A o \in Operators : Working(proxies, proxyTask[o])

LEMMA DeploymentParts == Deployment!ProxyTasksIInv <=> DeploymentInv
  <1>1. \A c : Deployment!Fits(c) <=> FitsWith(proxies, c)
    BY DEF Deployment!Fits, FitsWith, Deployment!HandlersFitIn, Deployment!IdOfBridgeIn, Parts, Names
  <1>2. Deployment!ProxyTasksTypeOK
          <=> /\ proxies \in Seq(Proxy) /\ proxyFile \in Deployment!File
              /\ proxyTask \in [Operators -> Task] /\ proxiesStarted \in Nat
    BY DEF Deployment!ProxyTasksTypeOK, Proxy, Ids, Task, Parts
  <1> QED  BY <1>1, <1>2 DEF Deployment!ProxyTasksIInv, DeploymentInv, Working, Parts

(* Nothing is named in an empty file.                                       *)
LEMMA IdleSound ==
  ASSUME Deployment!ProxyTasksAssumption, NEW deployments \in Seq(Proxy)
  PROVE  Deployment!Idle \in Task /\ Working(deployments, Deployment!Idle)
  <1>1. /\ Deployment!NoFile \in Deployment!File /\ Deployment!NoFile.at = [p \in Parts |-> 0]
        /\ Deployment!Idle.config = Deployment!NoFile /\ Deployment!Idle.read = Deployment!NoFile
    BY DEF Deployment!NoFile, Deployment!File, Deployment!Idle, Parts
  <1>2. Deployment!Idle \in Task
    BY <1>1 DEF Deployment!Idle, Task
  <1>3. FitsWith(deployments, Deployment!NoFile)
    BY <1>1, PartNames DEF FitsWith
  <1> QED  BY <1>1, <1>2, <1>3 DEF Working

LEMMA DeploymentStart ==
  ASSUME Deployment!ProxyTasksAssumption, Deployment!Init
  PROVE  DeploymentInv
  <1> USE DEF Deployment!Init
  <1>1. proxies = <<>> /\ proxies \in Seq(Proxy) /\ proxiesStarted \in Nat
    OBVIOUS
  <1>2. Deployment!Idle \in Task /\ Working(proxies, Deployment!Idle)
    BY <1>1, IdleSound
  <1>3. proxyFile = Deployment!Idle.config
    BY DEF Deployment!Idle
  <1>4. proxyFile \in Deployment!File /\ FitsWith(proxies, proxyFile)
    BY <1>2, <1>3 DEF Task, Working
  <1> QED  BY <1>1, <1>2, <1>4 DEF DeploymentInv

(* What becomes of one task.                                                *)
LEMMA TaskChange ==
  ASSUME DeploymentInv, NEW o \in Operators, NEW t \in Task, proxyTask' = [proxyTask EXCEPT ![o] = t],
         proxies' \in Seq(Proxy), proxyFile' \in Deployment!File, proxiesStarted' \in Nat,
         FitsWith(proxies', proxyFile'), Working(proxies', t),
         \A q \in Operators : Working(proxies', proxyTask[q])
  PROVE  DeploymentInv'
  <1>1. proxyTask \in [Operators -> Task]
    BY DEF DeploymentInv
  <1>2. proxyTask' \in [Operators -> Task]
    BY <1>1
  <1>3. \A q \in Operators : proxyTask'[q] = IF q = o THEN t ELSE proxyTask[q]
    BY <1>1
  <1>4. \A q \in Operators : Working(proxies', proxyTask'[q])
    BY <1>3
  <1> QED  BY <1>2, <1>4 DEF DeploymentInv

LEMMA StartSound ==
  ASSUME Deployment!ProxyTasksAssumption, DeploymentInv,
         NEW o \in Operators, NEW list \in Seq(Parts),
         NEW domain \in ProxyDomains \union {Deployment!Omitted, Deployment!Empty},
         Deployment!Start(o, list, domain)
  PROVE  DeploymentInv'
  <1> DEFINE t == [running |-> TRUE, left |-> list, domain |-> domain, config |-> proxyFile, read |-> proxyFile]
  <1>1. /\ proxyTask' = [proxyTask EXCEPT ![o] = t] /\ proxiesStarted' = proxiesStarted + 1
        /\ proxies' = proxies /\ proxyFile' = proxyFile
    BY DEF Deployment!Start, Deployment!loadConfig
  <1>2. /\ proxies \in Seq(Proxy) /\ proxyFile \in Deployment!File /\ proxiesStarted \in Nat
        /\ FitsWith(proxies, proxyFile) /\ \A q \in Operators : Working(proxies, proxyTask[q])
    BY DEF DeploymentInv
  <1>3. t \in Task
    BY <1>2 DEF Task
  <1>4. Working(proxies, t)
    BY <1>2, FileType DEF Working
  <1> HIDE DEF t
  <1>5. /\ proxies' \in Seq(Proxy) /\ proxyFile' \in Deployment!File /\ proxiesStarted' \in Nat
        /\ FitsWith(proxies', proxyFile') /\ Working(proxies', t)
        /\ \A q \in Operators : Working(proxies', proxyTask[q])
    BY <1>1, <1>2, <1>4
  <1> QED  BY <1>1, <1>3, <1>5, TaskChange

LEMMA StartsSound ==
  ASSUME Deployment!ProxyTasksAssumption, DeploymentInv, NEW o \in Operators,
         \/ \E contract \in {"all", "bridge"} \union Names,
               domain \in ProxyDomains \union {Deployment!Omitted, Deployment!Empty} :
                  Deployment!DeployProxyAll(o, contract, domain)
         \/ Deployment!DeploySigProxy(o)
  PROVE  DeploymentInv'
  <1>1. ASSUME NEW contract \in {"all", "bridge"} \union Names,
               NEW domain \in ProxyDomains \union {Deployment!Omitted, Deployment!Empty},
               Deployment!DeployProxyAll(o, contract, domain)
        PROVE  DeploymentInv'
    <2> DEFINE list == IF contract = "all" THEN <<"bridge">> \o Handlers ELSE <<contract>>
    <2>1. list \in Seq(Parts)
      <3>1. CASE contract = "all"
        <4>1. <<"bridge">> \in Seq(Parts) /\ Handlers \in Seq(Parts)
          BY PartNames
        <4> QED  BY <3>1, <4>1
      <3>2. CASE contract # "all"
        <4>1. contract \in Parts
          BY <3>2, PartNames
        <4> QED  BY <3>2, <4>1
      <3> QED  BY <3>1, <3>2
    <2>2. Deployment!Start(o, list, domain)
      BY <1>1 DEF Deployment!DeployProxyAll
    <2> HIDE DEF list
    <2> QED  BY <2>1, <2>2, StartSound
  <1>2. CASE Deployment!DeploySigProxy(o)
    <2>1. <<"signature">> \in Seq(Parts)
      BY PartNames
    <2>2. Deployment!Start(o, <<"signature">>, Deployment!Empty)
      BY <1>2 DEF Deployment!DeploySigProxy
    <2> QED  BY <2>1, <2>2, StartSound
  <1> QED  BY <1>1, <1>2

LEMMA EndSound ==
  ASSUME Deployment!ProxyTasksAssumption, DeploymentInv, NEW o \in Operators,
         Deployment!saveConfig(o) \/ Deployment!Fail(o)
  PROVE  DeploymentInv' /\ Deployment!MovesOn
  <1>1. /\ proxies \in Seq(Proxy) /\ proxyFile \in Deployment!File /\ proxiesStarted \in Nat
        /\ proxyTask \in [Operators -> Task]
        /\ FitsWith(proxies, proxyFile) /\ \A q \in Operators : Working(proxies, proxyTask[q])
    BY DEF DeploymentInv
  <1>2. /\ proxyTask' = [proxyTask EXCEPT ![o] = Deployment!Idle] /\ proxies' = proxies /\ proxiesStarted' = proxiesStarted
        /\ proxyFile' # proxyFile => proxyFile' = proxyTask[o].config
    BY DEF Deployment!saveConfig, Deployment!Fail, Deployment!Saved
  <1>3. proxyTask[o] \in Task /\ proxyTask[o].config \in Deployment!File /\ Working(proxies, proxyTask[o])
    BY <1>1 DEF Task
  <1>4. proxyFile' \in Deployment!File /\ FitsWith(proxies, proxyFile')
    BY <1>1, <1>2, <1>3 DEF Working
  <1>5. Deployment!Idle \in Task /\ Working(proxies, Deployment!Idle)
    BY <1>1, IdleSound
  <1>6. DeploymentInv'
    BY <1>1, <1>2, <1>4, <1>5, TaskChange
  <1>7. Deployment!MovesOn
    <2>1. SUFFICES ASSUME NEW q \in Operators, proxyTask[q].running, ~proxyTask'[q].running, proxyFile' # proxyFile,
                          NEW p \in Parts
                   PROVE  proxyFile'.at[p] >= proxyTask[q].read.at[p]
      BY DEF Deployment!MovesOn, Parts
    <2>2. q = o
      BY <1>1, <1>2, <2>1
    <2> QED  BY <1>2, <1>3, <2>1, <2>2 DEF Working
  <1> QED  BY <1>6, <1>7

(* The domain of a bridge to deploy, and what Deploy does with a part that  *)
(* it passes over or deploys.                                               *)
LEMMA DomainFits ==
  ASSUME Deployment!ProxyTasksAssumption, NEW o, proxyTask[o] \in Task
  PROVE  Deployment!DomainOf(o) \in Ids
  <1>1. proxyTask[o].config.id \in Ids /\ proxyTask[o].domain \in ProxyDomains \union {Deployment!Omitted, Deployment!Empty}
    BY FileType DEF Task
  <1>2. "0" \in ProxyDomains
    BY DEF Deployment!ProxyTasksAssumption
  <1> QED  BY <1>1, <1>2 DEF Deployment!DomainOf, Deployment!Given, Ids

PassedOver(o) ==
    proxies' = proxies /\ proxyTask' = [proxyTask EXCEPT ![o] = [proxyTask[o] EXCEPT !.left = Tail(proxyTask[o].left)]]

Deploys(o, part, id, x) ==
    /\ proxies' = Append(proxies, x)
    /\ part \in Names => proxyTask[o].config.at["bridge"] # 0 /\ x.bridge = proxyTask[o].config.at["bridge"]
    /\ part = "bridge" => x.domain = id
    /\ part # "bridge" => id = proxyTask[o].config.id
    /\ proxyTask' = [proxyTask EXCEPT ![o] =
                   [proxyTask[o] EXCEPT !.left = Tail(proxyTask[o].left),
                                   !.config = Recorded(proxyTask[o].config, id, part, Len(proxies) + 1)]]

LEMMA DeployShape ==
  ASSUME Deployment!ProxyTasksAssumption, DeploymentInv, NEW o \in Operators, Deployment!Deploy(o)
  PROVE  /\ proxyTask[o].left # <<>> /\ proxyFile' = proxyFile /\ proxiesStarted' = proxiesStarted
         /\ \/ PassedOver(o)
            \/ \E part \in Parts, id \in Ids, x \in Proxy : Deploys(o, part, id, x)
  <1> DEFINE part == Head(proxyTask[o].left)
             config == proxyTask[o].config
             able == CASE part = "bridge" -> Deployment!DomainOf(o) # Deployment!NoId
                       [] part = "signature" -> TRUE
                       [] OTHER -> config.at["bridge"] # 0
             id == IF part = "bridge" /\ able THEN Deployment!DomainOf(o) ELSE config.id
             x == [part |-> part,
                   bridge |-> IF part \in Names THEN config.at["bridge"] ELSE 0,
                   domain |-> IF part = "bridge" THEN id ELSE Deployment!NoId,
                   omitted |-> proxyTask[o].domain = Deployment!Omitted]
  <1>1. /\ proxyTask[o].left # <<>> /\ proxyFile' = proxyFile /\ proxiesStarted' = proxiesStarted
        /\ proxies' = IF able THEN Append(proxies, x) ELSE proxies
        /\ proxyTask' = [proxyTask EXCEPT ![o].left = Tail(@),
                                ![o].config = IF able
                                              THEN [id |-> id, at |-> [@.at EXCEPT ![part] = Len(proxies')]]
                                              ELSE @]
    BY DEF Deployment!Deploy, Names
  <1>2. /\ proxies \in Seq(Proxy) /\ proxyTask \in [Operators -> Task] /\ proxyTask[o] \in Task
    BY DEF DeploymentInv
  <1>3. /\ config.id \in Ids /\ config.at \in [Parts -> Nat] /\ proxyTask[o].left \in Seq(Parts)
        /\ Deployment!DomainOf(o) \in Ids /\ Deployment!NoId \in Ids
    BY <1>2, FileType, DomainFits DEF Task, Ids
  <1>4. part \in Parts
    BY <1>1, <1>3
  <1>5. part \in Names => part # "bridge" /\ part # "signature"
    BY PartNames
  <1>6. able /\ part \in Names => config.at["bridge"] # 0
    BY <1>5
  <1> HIDE DEF able
  <1>7. id \in Ids /\ (part # "bridge" => id = config.id)
    BY <1>3
  <1> HIDE DEF id
  <1>8. x \in Proxy /\ (part \in Names => x.bridge = config.at["bridge"]) /\ (part = "bridge" => x.domain = id)
    <2>1. "bridge" \in Parts
      BY PartNames
    <2> QED  BY <1>3, <1>4, <1>7, <2>1 DEF Proxy
  <1> HIDE DEF x
  <1>9. CASE ~able
    BY <1>1, <1>2, <1>9 DEF Task, PassedOver
  <1>10. CASE able
    <2>1. proxies' = Append(proxies, x) /\ Len(proxies') = Len(proxies) + 1
      BY <1>1, <1>2, <1>8, <1>10
    <2>2. proxyTask' = [proxyTask EXCEPT ![o] = [proxyTask[o] EXCEPT !.left = Tail(proxyTask[o].left),
                                                      !.config = Recorded(config, id, part, Len(proxies) + 1)]]
      BY <1>1, <1>2, <1>10, <2>1 DEF Task, Recorded
    <2>3. Deploys(o, part, id, x)
      BY <1>6, <1>7, <1>8, <1>10, <2>1, <2>2 DEF Deploys
    <2> HIDE DEF part
    <2> QED  BY <1>1, <1>4, <1>7, <1>8, <2>3
  <1> QED  BY <1>1, <1>9, <1>10

LEMMA DeploySound ==
  ASSUME Deployment!ProxyTasksAssumption, DeploymentInv, NEW o \in Operators, Deployment!Deploy(o)
  PROVE  DeploymentInv'
  <1>1. /\ proxies \in Seq(Proxy) /\ proxyFile \in Deployment!File /\ proxiesStarted \in Nat
        /\ proxyTask \in [Operators -> Task]
        /\ FitsWith(proxies, proxyFile) /\ \A q \in Operators : Working(proxies, proxyTask[q])
    BY DEF DeploymentInv
  <1>2. /\ proxyTask[o] \in Task /\ proxyTask[o].config \in Deployment!File /\ proxyTask[o].read \in Deployment!File
        /\ Working(proxies, proxyTask[o]) /\ proxyTask[o].left \in Seq(Parts)
        /\ \A q \in Operators : proxyTask[q].config \in Deployment!File
    BY <1>1 DEF Task
  <1>3. proxyFile' = proxyFile /\ proxiesStarted' = proxiesStarted /\ Tail(proxyTask[o].left) \in Seq(Parts)
    BY <1>2, DeployShape
  <1>4. CASE PassedOver(o)
    <2> DEFINE t == [proxyTask[o] EXCEPT !.left = Tail(proxyTask[o].left)]
    <2>1. t \in Task /\ t.config = proxyTask[o].config /\ t.read = proxyTask[o].read
      BY <1>2, <1>3 DEF Task
    <2>2. proxyTask' = [proxyTask EXCEPT ![o] = t] /\ proxies' = proxies
      BY <1>4 DEF PassedOver
    <2> HIDE DEF t
    <2>3. Working(proxies, t)
      BY <1>2, <2>1 DEF Working
    <2>4. /\ proxies' \in Seq(Proxy) /\ proxyFile' \in Deployment!File /\ proxiesStarted' \in Nat
          /\ FitsWith(proxies', proxyFile') /\ Working(proxies', t)
          /\ \A q \in Operators : Working(proxies', proxyTask[q])
      BY <1>1, <1>3, <2>2, <2>3
    <2> QED  BY <2>1, <2>2, <2>4, TaskChange
  <1>5. ASSUME NEW part \in Parts, NEW id \in Ids, NEW x \in Proxy, Deploys(o, part, id, x)
        PROVE  DeploymentInv'
    <2> DEFINE n == Len(proxies) + 1
               d == Recorded(proxyTask[o].config, id, part, n)
               t == [proxyTask[o] EXCEPT !.left = Tail(proxyTask[o].left), !.config = d]
               c == proxyTask[o].config
               more == Append(proxies, x)
    <2>1. n = Len(proxies) + 1 /\ d = Recorded(c, id, part, n) /\ FitsWith(proxies, c) /\ c \in Deployment!File
      BY <1>2 DEF Working
    <2>2. /\ part \in Names => c.at["bridge"] # 0 /\ x.bridge = c.at["bridge"]
          /\ part = "bridge" => x.domain = id
          /\ part # "bridge" => id = c.id
      BY <1>5 DEF Deploys
    <2> HIDE DEF n, d, c
    <2>3. d \in Deployment!File /\ FitsWith(more, d) /\ \A p \in Parts : d.at[p] >= c.at[p]
      BY <1>1, <2>1, <2>2, DeployedFits
    <2>4. t \in Task /\ t.config = d /\ t.read = proxyTask[o].read
      BY <1>2, <1>3, <2>3 DEF Task
    <2>5. proxyTask' = [proxyTask EXCEPT ![o] = t]
      BY <1>5 DEF Deploys, d, n
    <2> HIDE DEF t
    <2>6. Working(more, t)
      <3>1. ASSUME NEW p \in Parts PROVE d.at[p] >= proxyTask[o].read.at[p]
        <4>1. c.at[p] >= proxyTask[o].read.at[p]
          BY <1>2 DEF Working, c
        <4>2. d.at[p] \in Nat /\ c.at[p] \in Nat /\ proxyTask[o].read.at[p] \in Nat
          BY <1>2, <2>1, <2>3, FileType
        <4> QED  BY <2>3, <4>1, <4>2
      <3> QED  BY <2>3, <2>4, <3>1 DEF Working
    <2>7. FitsWith(more, proxyFile)
      BY <1>1, FitsKept
    <2>8. ASSUME NEW q \in Operators PROVE Working(more, proxyTask[q])
      <3>1. FitsWith(proxies, proxyTask[q].config) /\ proxyTask[q].config \in Deployment!File
        BY <1>1, <1>2 DEF Working
      <3>2. FitsWith(more, proxyTask[q].config)
        BY <1>1, <3>1, FitsKept
      <3> QED  BY <1>1, <3>2 DEF Working
    <2>9. proxies' = more /\ more \in Seq(Proxy)
      BY <1>1, <1>5 DEF Deploys
    <2> HIDE DEF more
    <2>10. /\ proxies' \in Seq(Proxy) /\ proxyFile' \in Deployment!File /\ proxiesStarted' \in Nat
           /\ FitsWith(proxies', proxyFile') /\ Working(proxies', t)
           /\ \A q \in Operators : Working(proxies', proxyTask[q])
      BY <1>1, <1>3, <2>6, <2>7, <2>8, <2>9
    <2> QED  BY <2>4, <2>5, <2>10, TaskChange
  <1> QED  BY <1>4, <1>5, DeployShape

LEMMA DeploymentStep ==
  ASSUME Deployment!ProxyTasksAssumption, DeploymentInv, [Deployment!Next]_(Deployment!vars)
  PROVE  DeploymentInv' /\ Deployment!MovesOn
  <1>1. ASSUME NEW o \in Operators,
               \/ \E contract \in {"all", "bridge"} \union Names,
                     domain \in ProxyDomains \union {Deployment!Omitted, Deployment!Empty} :
                        Deployment!DeployProxyAll(o, contract, domain)
               \/ Deployment!DeploySigProxy(o)
        PROVE  DeploymentInv' /\ Deployment!MovesOn
    <2>1. proxyFile' = proxyFile
      BY <1>1 DEF Deployment!DeployProxyAll, Deployment!DeploySigProxy, Deployment!Start
    <2> QED  BY <1>1, <2>1, StartsSound DEF Deployment!MovesOn
  <1>2. ASSUME NEW o \in Operators, Deployment!Deploy(o)
        PROVE  DeploymentInv' /\ Deployment!MovesOn
    <2>1. proxyFile' = proxyFile
      BY <1>2, DeployShape
    <2> QED  BY <1>2, <2>1, DeploySound DEF Deployment!MovesOn
  <1>3. ASSUME NEW o \in Operators, Deployment!saveConfig(o) \/ Deployment!Fail(o)
        PROVE  DeploymentInv' /\ Deployment!MovesOn
    BY <1>3, EndSound
  <1>4. CASE UNCHANGED Deployment!vars
    <2>1. proxies' = proxies /\ proxyFile' = proxyFile /\ proxyTask' = proxyTask /\ proxiesStarted' = proxiesStarted
      BY <1>4 DEF Deployment!vars
    <2> QED  BY <2>1 DEF DeploymentInv, Deployment!MovesOn
  <1>5. CASE Deployment!Next
    <2>1. PICK o \in Operators :
             \/ \E contract \in {"all", "bridge"} \union Names,
                   domain \in ProxyDomains \union {Deployment!Omitted, Deployment!Empty} :
                      Deployment!DeployProxyAll(o, contract, domain)
             \/ Deployment!DeploySigProxy(o)
             \/ Deployment!Deploy(o)
             \/ Deployment!saveConfig(o)
             \/ Deployment!Fail(o)
      BY <1>5 DEF Deployment!Next, Names
    <2> QED  BY <1>1, <1>2, <1>3, <2>1
  <1> QED  BY <1>4, <1>5

(* The inductive invariant of the deployment tasks.                         *)
THEOREM DeploymentInvariance ==
  ASSUME Deployment!ProxyTasksAssumption
  PROVE  Deployment!Spec => []Deployment!ProxyTasksIInv
  <1>1. Deployment!Init => DeploymentInv
    BY DeploymentStart
  <1>2. DeploymentInv /\ [Deployment!Next]_(Deployment!vars) => DeploymentInv'
    BY DeploymentStep
  <1>3. DeploymentInv => Deployment!ProxyTasksIInv
    BY DeploymentParts
  <1> QED  BY <1>1, <1>2, <1>3, PTL DEF Deployment!Spec

(* The file's handlers serve its bridge, its bridge is of its domain, and   *)
(* no task takes a part back to an older proxy than it has read.            *)
THEOREM FileAlwaysFits ==
  ASSUME Deployment!ProxyTasksAssumption
  PROVE  Deployment!Spec => FileFits
  <1>1. DeploymentInv /\ [Deployment!Next]_(Deployment!vars) => [Deployment!MovesOn]_(Deployment!vars)
    BY DeploymentStep
  <1>2. Deployment!ProxyTasksIInv <=> DeploymentInv
    BY DeploymentParts
  <1>3. Deployment!ProxyTasksIInv => Deployment!HandlersFit /\ Deployment!IdOfBridge
    BY DEF Deployment!ProxyTasksIInv, Deployment!Fits, Deployment!HandlersFit, Deployment!IdOfBridge
  <1> QED  BY <1>1, <1>2, <1>3, DeploymentInvariance, PTL
           DEF Deployment!Spec, FileFits
-----------------------------------------------------------------------------
(* The tasks that register tokens. *)

Native == Registration!Native
Step(does) == Registration!Step(does)
RegistrationTask == [left : Seq(Registration!Steps), from : Domains,
                     token : Registration!Addresses \union {Registration!NoToken},
                     config : Seq(Registration!Entries)]

(* A task is where the invariant says.                                      *)
TaskAt(t, own) ==
    \/ Registration!Registering(t, own) \/ Registration!Recording(t, own)
    \/ Registration!Ending(t, own) \/ Registration!Beginning(t)

OwnEntries == {Registration!Entry(token, from) : token \in 1..deployed, from \in Domains}

RegistrationInv(own) ==
    /\ own \subseteq OwnEntries
    /\ \A e, g \in own : e.address = g.address => e = g
    /\ Registration!EntriesKnown(file, own) /\ Registration!HandlerFits(own)
    /\ \A o \in Operators : TaskAt(task[o], own)

SomeOwn == \E own : RegistrationInv(own)

LEMMA RegistrationParts == Registration!TokenTasksIInv <=> Registration!TokenTasksTypeOK /\ SomeOwn
  BY DEF Registration!TokenTasksIInv, SomeOwn, RegistrationInv, OwnEntries, TaskAt

LEMMA Numbers ==
  ASSUME Registration!TokenTasksAssumption
  PROVE  /\ Native = 0 /\ Registration!NoToken = -1 /\ MaxTokens \in Nat /\ Id \in Domains
         /\ Registration!Addresses = 0..MaxTokens
         /\ \A a, from : /\ Registration!createResourceID(a, from) = [address |-> a, from |-> from]
                         /\ Registration!Entry(a, from) = [address |-> a, resource |-> [address |-> a, from |-> from]]
         /\ Registration!Resources = [address : 0..MaxTokens, from : Domains]
  BY DEF Registration!TokenTasksAssumption, Native, Registration!Native, Registration!NoToken,
         Registration!Addresses, Registration!createResourceID, Registration!Entry, Registration!Resources

(* Steps and what they do.                                                  *)
LEMMA StepDoes ==
  /\ \A d : Step(d).does = d
  /\ \A d \in {"deploy", "push", "push own", "burnable", "save"} : Step(d) \in Registration!Steps
  /\ Registration!Looks \subseteq Registration!Steps
  /\ \A s \in Registration!Looks : s.does \in {"look", "set"}
  BY DEF Step, Registration!Step, Registration!Steps, Registration!Looks

LEMMA CoinStep ==
  ASSUME NEW s, Registration!OfCoin(s)
  PROVE  /\ s \in Registration!Looks /\ s.does \in {"look", "set"} /\ s.token = Native
         /\ s.native = TRUE /\ s.resource \in Registration!Resources /\ s.resource.address = Native
         /\ s.by = "resource"
         /\ Registration!OfCoin([s EXCEPT !.does = "set"])
  BY DEF Registration!OfCoin, Registration!Looks, Native

LEMMA EntryStep ==
  ASSUME NEW s, NEW own, Registration!OfEntry(s, own)
  PROVE  /\ s \in Registration!Looks /\ s.does \in {"look", "set"}
         /\ [address |-> s.token, resource |-> s.resource] \in Registration!Known(own)
         /\ s.native = FALSE
         /\ Registration!OfEntry([s EXCEPT !.does = "set"], own)
  BY DEF Registration!OfEntry, Registration!Looks

(* What a task does next tells where it is.                                 *)
LEMMA List1 == ASSUME NEW a PROVE Head(<<a>>) = a /\ Tail(<<a>>) = <<>> /\ <<a>> # <<>>
  OBVIOUS

LEMMA List2 == ASSUME NEW a, NEW b PROVE Head(<<a, b>>) = a /\ Tail(<<a, b>>) = <<b>> /\ <<a, b>> # <<>>
  OBVIOUS

LEMMA List3 ==
  ASSUME NEW a, NEW b, NEW c
  PROVE  Head(<<a, b, c>>) = a /\ Tail(<<a, b, c>>) = <<b, c>> /\ <<a, b, c>> # <<>>
  OBVIOUS

LEMMA List4 ==
  ASSUME NEW a, NEW b, NEW c, NEW d
  PROVE  Head(<<a, b, c, d>>) = a /\ Tail(<<a, b, c, d>>) = <<b, c, d>> /\ <<a, b, c, d>> # <<>>
  OBVIOUS

LEMMA List5 ==
  ASSUME NEW a, NEW b, NEW c, NEW d, NEW e
  PROVE  Head(<<a, b, c, d, e>>) = a /\ Tail(<<a, b, c, d, e>>) = <<b, c, d, e>> /\ <<a, b, c, d, e>> # <<>>
  OBVIOUS

(* The token gets no entry.                                                 *)
Unlisted(t, own) == t.token \in 1..deployed /\ \A e \in own : e.address # t.token

Known(t, own) == Registration!EntriesKnown(t.config, own)

Coin(s) == Registration!OfCoin(s)

Does(t, d) == t.left # <<>> /\ Head(t.left).does = d

Looking(t) == Does(t, "look") \/ Does(t, "set")

LEMMA CoinLooks ==
  ASSUME NEW s, Coin(s), NEW t, t.left # <<>>, Head(t.left) = s
  PROVE  Looking(t)
  BY CoinStep DEF Coin, Looking, Does

LEMMA Where ==
  ASSUME Registration!TokenTasksAssumption, NEW own, NEW t \in RegistrationTask, TaskAt(t, own),
         t.left # <<>>
  PROVE  \/ Looking(t) /\ Registration!Registering(t, own)
         \/ Does(t, "save") /\ Known(t, own) /\ Tail(t.left) = <<>>
         \/ Does(t, "push") /\ Known(t, own) /\ Tail(t.left) = <<Step("save")>>
              /\ t.token = Native /\ Native \in isNative
         \/ Looking(t) /\ Known(t, own) /\ Tail(t.left) = <<Step("push"), Step("save")>>
              /\ t.token = Native /\ Coin(Head(t.left))
         \/ Does(t, "deploy") /\ Known(t, own) /\ Tail(t.left) = <<Step("push own"), Step("save")>>
         \/ Does(t, "push own") /\ Known(t, own) /\ Tail(t.left) = <<Step("save")>>
              /\ Registration!Entry(t.token, t.from) \in own
         \/ Does(t, "push") /\ Unlisted(t, own)
              /\ \E s : Coin(s) /\ Tail(t.left) = <<s, Step("burnable"), Step("save")>>
         \/ Looking(t) /\ Unlisted(t, own) /\ Coin(Head(t.left))
              /\ Tail(t.left) = <<Step("burnable"), Step("save")>>
         \/ Does(t, "burnable") /\ Unlisted(t, own) /\ Tail(t.left) = <<Step("save")>>
         \/ Does(t, "deploy")
              /\ \E s : Coin(s) /\ Tail(t.left) = <<Step("push"), s, Step("burnable"), Step("save")>>
  <1>1. CASE Registration!Registering(t, own)
    <2>1. 1 \in DOMAIN t.left /\ Head(t.left) = t.left[1]
      BY DEF RegistrationTask
    <2>2. Coin(t.left[1]) \/ Registration!OfEntry(t.left[1], own)
      BY <1>1, <2>1 DEF Registration!Registering, Coin
    <2>3. Looking(t)
      BY <2>1, <2>2, CoinLooks, EntryStep DEF Looking, Does
    <2> QED  BY <1>1, <2>3
  <1>2. CASE Registration!Recording(t, own)
    <2>1. Known(t, own)
      BY <1>2 DEF Registration!Recording, Known
    <2>2. CASE t.left = <<Step("save")>>
      <3>1. Head(t.left) = Step("save") /\ Tail(t.left) = <<>>
        BY <2>2, List1
      <3> QED  BY <2>1, <3>1, StepDoes DEF Does
    <2>3. CASE t.left = <<Step("push"), Step("save")>> /\ t.token = Native /\ Native \in isNative
      <3>1. Head(t.left) = Step("push") /\ Tail(t.left) = <<Step("save")>>
        BY <2>3, List2
      <3> QED  BY <2>1, <2>3, <3>1, StepDoes DEF Does
    <2>4. ASSUME NEW s, Coin(s), t.left = <<s, Step("push"), Step("save")>>, t.token = Native
          PROVE  /\ Looking(t) /\ Tail(t.left) = <<Step("push"), Step("save")>>
                 /\ t.token = Native /\ Coin(Head(t.left))
      <3>1. Head(t.left) = s /\ Tail(t.left) = <<Step("push"), Step("save")>>
        BY <2>4, List3
      <3> QED  BY <2>4, <3>1, CoinLooks
    <2>5. CASE t.left = <<Step("deploy"), Step("push own"), Step("save")>>
      <3>1. Head(t.left) = Step("deploy") /\ Tail(t.left) = <<Step("push own"), Step("save")>>
        <4> DEFINE a == Step("deploy")
                   b == Step("push own")
                   c == Step("save")
        <4>1. t.left = <<a, b, c>>
          BY <2>5
        <4> HIDE DEF a, b, c
        <4>2. Head(t.left) = a /\ Tail(t.left) = <<b, c>>
          BY <4>1, List3
        <4> QED  BY <4>2 DEF a, b, c
      <3> QED  BY <2>1, <3>1, StepDoes DEF Does
    <2>6. CASE t.left = <<Step("push own"), Step("save")>> /\ Registration!Entry(t.token, t.from) \in own
      <3>1. Head(t.left) = Step("push own") /\ Tail(t.left) = <<Step("save")>>
        BY <2>6, List2
      <3> QED  BY <2>1, <2>6, <3>1, StepDoes DEF Does
    <2>7. /\ Registration!DeployToken = <<Step("deploy"), Step("push own"), Step("save")>>
          /\ Tail(Registration!DeployToken) = <<Step("push own"), Step("save")>>
      BY List3 DEF Registration!DeployToken, Step
    <2>8. \/ t.left = <<Step("save")>>
          \/ t.left = <<Step("push"), Step("save")>> /\ t.token = Native /\ Native \in isNative
          \/ (\E s : Coin(s) /\ t.left = <<s, Step("push"), Step("save")>>) /\ t.token = Native
          \/ t.left = Registration!DeployToken
          \/ t.left = Tail(Registration!DeployToken) /\ Registration!Entry(t.token, t.from) \in own
      BY <1>2 DEF Registration!Recording, Step, Coin, Native
    <2> QED  BY <2>1, <2>2, <2>3, <2>4, <2>5, <2>6, <2>7, <2>8
  <1>3. CASE Registration!Ending(t, own)
    <2>1. Unlisted(t, own)
      BY <1>3 DEF Registration!Ending, Unlisted
    <2>2. PICK s : Coin(s) /\ \/ t.left = <<Step("push"), s, Step("burnable"), Step("save")>>
                              \/ t.left = <<s, Step("burnable"), Step("save")>>
                              \/ t.left = <<Step("burnable"), Step("save")>>
      BY <1>3 DEF Registration!Ending, Step, Coin
    <2>3. CASE t.left = <<Step("push"), s, Step("burnable"), Step("save")>>
      <3>1. Head(t.left) = Step("push") /\ Tail(t.left) = <<s, Step("burnable"), Step("save")>>
        BY <2>3, List4
      <3> QED  BY <2>1, <2>2, <3>1, StepDoes DEF Does
    <2>4. CASE t.left = <<s, Step("burnable"), Step("save")>>
      <3>1. Head(t.left) = s /\ Tail(t.left) = <<Step("burnable"), Step("save")>>
        BY <2>4, List3
      <3> QED  BY <2>1, <2>2, <3>1, CoinLooks
    <2>5. CASE t.left = <<Step("burnable"), Step("save")>>
      <3>1. Head(t.left) = Step("burnable") /\ Tail(t.left) = <<Step("save")>>
        BY <2>5, List2
      <3> QED  BY <2>1, <3>1, StepDoes DEF Does
    <2> QED  BY <2>2, <2>3, <2>4, <2>5
  <1>4. CASE Registration!Beginning(t)
    <2>1. PICK s : Coin(s) /\ t.left = <<Step("deploy"), Step("push"), s, Step("burnable"), Step("save")>>
      BY <1>4 DEF Registration!Beginning, Step, Coin
    <2>2. Head(t.left) = Step("deploy") /\ Tail(t.left) = <<Step("push"), s, Step("burnable"), Step("save")>>
      BY <2>1, List5
    <2> QED  BY <2>1, <2>2, StepDoes DEF Does
  <1> QED  BY <1>1, <1>2, <1>3, <1>4 DEF TaskAt

(* More entries, and the coin known, leave every task where it is.          *)
Growing(own, more) ==
    /\ own \subseteq more /\ isNative \subseteq isNative'
    /\ deployed \in Nat /\ deployed' \in Nat /\ deployed' >= deployed
    /\ \A e \in more \ own : e.address = deployed + 1

LEMMA KnownKept ==
  ASSUME NEW own, NEW more, Growing(own, more)
  PROVE  /\ \A e \in Registration!Known(own) : e \in Registration!Known(more)'
         /\ \A c : Registration!EntriesKnown(c, own) => Registration!EntriesKnown(c, more)'
  <1>1. \A e \in Registration!Known(own) : e \in Registration!Known(more)'
    BY DEF Growing, Registration!Known
  <1> QED  BY <1>1 DEF Registration!EntriesKnown

LEMMA TaskAtKept ==
  ASSUME NEW own, NEW more, Growing(own, more), NEW t, TaskAt(t, own)
  PROVE  TaskAt(t, more)'
  <1>1. Registration!Registering(t, own) => Registration!Registering(t, more)'
    <2>1. \A s : Registration!OfEntry(s, own) => Registration!OfEntry(s, more)'
      BY KnownKept DEF Registration!OfEntry
    <2> QED  BY <2>1 DEF Registration!Registering
  <1>2. Registration!Recording(t, own) => Registration!Recording(t, more)'
    <2>1. own \subseteq more /\ isNative \subseteq isNative'
      BY DEF Growing
    <2> QED  BY <2>1, KnownKept DEF Registration!Recording
  <1>3. Registration!Ending(t, own) => Registration!Ending(t, more)'
    <2>1. ASSUME t.token \in 1..deployed, \A e \in own : e.address # t.token
          PROVE  t.token \in 1..deployed' /\ \A e \in more : e.address # t.token
      BY <2>1 DEF Growing
    <2> QED  BY <2>1 DEF Registration!Ending
  <1>4. Registration!Beginning(t) => Registration!Beginning(t)'
    BY DEF Registration!Beginning
  <1> QED  BY <1>1, <1>2, <1>3, <1>4 DEF TaskAt

(* What becomes of one task, and of everything else.                        *)
Typed ==
    /\ deployed \in 0..MaxTokens /\ file \in Seq(Registration!Entries) /\ started \in Nat
    /\ tokenOf \in [Registration!Resources -> Registration!Addresses \union {Registration!NoToken}]
    /\ resourceOf \in [Registration!Addresses -> SUBSET Registration!Resources]
    /\ isNative \subseteq Registration!Addresses

LEMMA TypedParts ==
  Registration!TokenTasksTypeOK <=> Typed /\ task \in [Operators -> RegistrationTask]
  BY DEF Registration!TokenTasksTypeOK, Typed, RegistrationTask

LEMMA RegistrationChange ==
  ASSUME Registration!TokenTasksTypeOK, NEW own, RegistrationInv(own), NEW more, Growing(own, more),
         NEW o \in Operators, NEW t \in RegistrationTask, task' = [task EXCEPT ![o] = t],
         TaskAt(t, more)', Typed', more \subseteq OwnEntries',
         \A e, g \in more : e.address = g.address => e = g,
         Registration!EntriesKnown(file, more)', Registration!HandlerFits(more)'
  PROVE  Registration!TokenTasksIInv'
  <1>1. task \in [Operators -> RegistrationTask]
    BY TypedParts
  <1>2. task' \in [Operators -> RegistrationTask]
    BY <1>1
  <1>3. Registration!TokenTasksTypeOK'
    BY <1>2 DEF Registration!TokenTasksTypeOK, Typed, RegistrationTask
  <1>4. ASSUME NEW q \in Operators PROVE TaskAt(task[q], more)'
    <2>1. CASE q = o
      <3>1. task'[q] = t
        BY <1>1, <2>1
      <3> QED  BY <3>1
    <2>2. CASE q # o
      <3>1. task'[q] = task[q]
        BY <1>1, <2>2
      <3>2. PICK u : u = task[q]
        OBVIOUS
      <3>3. TaskAt(u, own)
        BY <3>2 DEF RegistrationInv
      <3>4. TaskAt(u, more)'
        BY <3>3, TaskAtKept
      <3> QED  BY <3>1, <3>2, <3>4
    <2> QED  BY <2>1, <2>2
  <1>5. RegistrationInv(more)'
    BY <1>4 DEF RegistrationInv
  <1>6. SomeOwn'
    BY <1>5 DEF SomeOwn
  <1> QED  BY <1>3, <1>6, RegistrationParts, PTL

(* A step of one task that leaves the file and the handler alone.           *)
LEMMA TaskOnly ==
  ASSUME Registration!TokenTasksAssumption, Registration!TokenTasksTypeOK,
         NEW own, RegistrationInv(own),
         NEW o \in Operators, NEW t \in RegistrationTask, task' = [task EXCEPT ![o] = t],
         TaskAt(t, own) \/ TaskAt(t, own)',
         UNCHANGED <<deployed, file, Registration!handler>>, started' \in Nat
  PROVE  Registration!TokenTasksIInv'
  <1>1. /\ deployed' = deployed /\ file' = file
        /\ tokenOf' = tokenOf /\ resourceOf' = resourceOf /\ isNative' = isNative
    BY DEF Registration!handler
  <1>2. Typed /\ deployed \in Nat
    BY TypedParts, Numbers DEF Typed
  <1>3. Growing(own, own)
    BY <1>1, <1>2 DEF Growing
  <1>4. TaskAt(t, own)'
    BY <1>3, TaskAtKept
  <1>5. Typed'
    BY <1>1, <1>2 DEF Typed
  <1>6. own \subseteq OwnEntries' /\ \A e, g \in own : e.address = g.address => e = g
    <2>1. OwnEntries' = OwnEntries
      BY <1>1 DEF OwnEntries, Registration!Entry, Registration!createResourceID
    <2> QED  BY <2>1 DEF RegistrationInv
  <1>7. Registration!EntriesKnown(file, own)'
    <2>1. PICK f : f = file
      OBVIOUS
    <2>2. Registration!EntriesKnown(f, own)'
      BY <1>3, <2>1, KnownKept DEF RegistrationInv
    <2> QED  BY <1>1, <2>1, <2>2
  <1>8. Registration!HandlerFits(own)'
    BY <1>1 DEF RegistrationInv, Registration!HandlerFits, Registration!NativeKnown, Registration!Resources,
                Registration!Addresses
  <1> QED  BY <1>3, <1>4, <1>5, <1>6, <1>7, <1>8, RegistrationChange

LEMMA TaskType ==
  ASSUME Registration!TokenTasksTypeOK, NEW o \in Operators
  PROVE  /\ task[o] \in RegistrationTask /\ task[o].left \in Seq(Registration!Steps)
         /\ task[o].from \in Domains /\ task[o].token \in Registration!Addresses \union {Registration!NoToken}
         /\ task[o].config \in Seq(Registration!Entries)
  BY TypedParts DEF RegistrationTask

LEMMA IdleAt ==
  ASSUME Registration!TokenTasksAssumption, NEW own
  PROVE  Registration!Idle \in RegistrationTask /\ TaskAt(Registration!Idle, own)
  <1>1. Registration!Idle \in RegistrationTask
    BY Numbers DEF Registration!Idle, RegistrationTask
  <1>2. Registration!Registering(Registration!Idle, own)
    BY DEF Registration!Registering, Registration!Idle
  <1> QED  BY <1>1, <1>2 DEF TaskAt

LEMMA RegistrationStart ==
  ASSUME Registration!TokenTasksAssumption, Registration!Init
  PROVE  Registration!TokenTasksIInv
  <1> USE DEF Registration!Init
  <1>1. Typed
    BY Numbers DEF Typed
  <1>2. Registration!TokenTasksTypeOK
    BY <1>1, IdleAt, TypedParts
  <1>3. RegistrationInv({})
    <2>1. Registration!EntriesKnown(file, {})
      BY DEF Registration!EntriesKnown
    <2>2. Registration!HandlerFits({})
      BY Numbers DEF Registration!HandlerFits, Registration!NativeKnown, Native
    <2>3. \A o \in Operators : TaskAt(task[o], {})
      BY IdleAt
    <2> QED  BY <2>1, <2>2, <2>3 DEF RegistrationInv
  <1> QED  BY <1>2, <1>3, RegistrationParts DEF SomeOwn

LEMMA FailKeeps ==
  ASSUME Registration!TokenTasksAssumption, Registration!TokenTasksTypeOK,
         NEW own, RegistrationInv(own), NEW o \in Operators, Registration!Fail(o)
  PROVE  Registration!TokenTasksIInv'
  <1>1. /\ task' = [task EXCEPT ![o] = Registration!Idle]
        /\ UNCHANGED <<deployed, file, Registration!handler>> /\ started' = started
    BY DEF Registration!Fail
  <1>2. started' \in Nat
    BY <1>1, TypedParts DEF Typed
  <1>3. PICK t : t = Registration!Idle
    OBVIOUS
  <1>4. t \in RegistrationTask /\ TaskAt(t, own)
    BY <1>3, IdleAt
  <1> QED  BY <1>1, <1>2, <1>3, <1>4, TaskOnly

(* The tasks as they start.                                                 *)
LEMMA BeginSound ==
  ASSUME Registration!TokenTasksAssumption, Registration!TokenTasksTypeOK,
         NEW own, RegistrationInv(own), NEW o \in Operators, NEW from \in Domains,
         NEW list \in Seq(Registration!Steps), Registration!Start(o, from, list),
         \A t : t.left = list /\ t.token = Native /\ Known(t, own) => TaskAt(t, own)
  PROVE  Registration!TokenTasksIInv'
  <1>1. /\ task' = [task EXCEPT ![o] = [left |-> list, from |-> from, token |-> Native, config |-> file]]
        /\ started' = started + 1 /\ UNCHANGED <<deployed, file, Registration!handler>>
    BY DEF Registration!Start, Native
  <1>2. started' \in Nat /\ file \in Seq(Registration!Entries) /\ Native \in Registration!Addresses
    BY <1>1, TypedParts, Numbers DEF Typed
  <1>3. PICK t : t = [left |-> list, from |-> from, token |-> Native, config |-> file]
    OBVIOUS
  <1>4. t \in RegistrationTask /\ t.left = list /\ t.token = Native /\ t.config = file
    BY <1>2, <1>3 DEF RegistrationTask
  <1>5. Known(t, own)
    BY <1>4 DEF RegistrationInv, Known
  <1>6. TaskAt(t, own)
    BY <1>4, <1>5
  <1> QED  BY <1>1, <1>2, <1>3, <1>4, <1>6, TaskOnly

LEMMA CoinAsked ==
  ASSUME Registration!TokenTasksAssumption, NEW from \in Domains
  PROVE  Coin(Registration!LookResource(Registration!createResourceID(Native, from), Native))
  <1> DEFINE r == Registration!createResourceID(Native, from)
             s == Registration!LookResource(r, Native)
  <1>1. r = [address |-> Native, from |-> from] /\ Native = 0 /\ MaxTokens \in Nat
    BY Numbers
  <1>2. /\ Registration!Resources = [address : 0..MaxTokens, from : Domains]
        /\ Registration!Addresses = 0..MaxTokens
    BY Numbers
  <1> HIDE DEF r
  <1>3. r \in Registration!Resources /\ r.address = Native /\ Native \in Registration!Addresses
    BY <1>1, <1>2
  <1>4. s = [does |-> "look", by |-> "resource", resource |-> r, token |-> Native, native |-> TRUE]
    BY DEF Registration!LookResource
  <1>5. s \in Registration!Looks /\ s.by = "resource" /\ s.native /\ s.token = Native /\ s.resource = r
    BY <1>4, <1>3 DEF Registration!Looks
  <1> HIDE DEF s
  <1>6. Coin(s)
    BY <1>5, <1>3 DEF Coin, Registration!OfCoin, Native
  <1> QED  BY <1>6 DEF s, r

LEMMA DeployNativeSound ==
  ASSUME Registration!TokenTasksAssumption, Registration!TokenTasksTypeOK,
         NEW own, RegistrationInv(own), NEW o \in Operators, NEW from \in Domains,
         Registration!Start(o, from, Registration!DeployNative(from))
  PROVE  Registration!TokenTasksIInv'
  <1> DEFINE s == Registration!LookResource(Registration!createResourceID(Native, from), Native)
  <1>1. Coin(s) /\ s \in Registration!Looks /\ s \in Registration!Steps
    BY CoinAsked, CoinStep, StepDoes DEF Coin
  <1>2. /\ Step("deploy") \in Registration!Steps /\ Step("push") \in Registration!Steps
        /\ Step("burnable") \in Registration!Steps /\ Step("save") \in Registration!Steps
    BY StepDoes
  <1>3. CASE from = Id
    <2>1. Registration!DeployNative(from) = <<s, Step("push"), Step("save")>>
      BY <1>3 DEF Registration!DeployNative, Step, Native
    <2> HIDE DEF s
    <2>2. <<s, Step("push"), Step("save")>> \in Seq(Registration!Steps)
      BY <1>1, <1>2
    <2>3. ASSUME NEW t, t.left = <<s, Step("push"), Step("save")>>, t.token = Native, Known(t, own)
          PROVE  TaskAt(t, own)
      BY <1>1, <2>3 DEF TaskAt, Registration!Recording, Step, Native, Known, Coin
    <2> QED  BY <2>1, <2>2, <2>3, BeginSound
  <1>4. CASE from # Id
    <2>1. Registration!DeployNative(from)
            = <<Step("deploy"), Step("push"), s, Step("burnable"), Step("save")>>
      BY <1>4 DEF Registration!DeployNative, Step, Native
    <2> HIDE DEF s
    <2>2. <<Step("deploy"), Step("push"), s, Step("burnable"), Step("save")>> \in Seq(Registration!Steps)
      BY <1>1, <1>2
    <2>3. ASSUME NEW t, t.left = <<Step("deploy"), Step("push"), s, Step("burnable"), Step("save")>>
          PROVE  TaskAt(t, own)
      BY <1>1, <2>3 DEF TaskAt, Registration!Beginning, Step, Coin
    <2> QED  BY <2>1, <2>2, <2>3, BeginSound
  <1> QED  BY <1>3, <1>4

LEMMA DeployTokenSound ==
  ASSUME Registration!TokenTasksAssumption, Registration!TokenTasksTypeOK,
         NEW own, RegistrationInv(own), NEW o \in Operators, NEW from \in Domains,
         Registration!Start(o, from, Registration!DeployToken)
  PROVE  Registration!TokenTasksIInv'
  <1>1. Registration!DeployToken \in Seq(Registration!Steps)
    <2>1. /\ Step("deploy") \in Registration!Steps /\ Step("push own") \in Registration!Steps
          /\ Step("save") \in Registration!Steps
      BY StepDoes
    <2> DEFINE a == Step("deploy")
               b == Step("push own")
               c == Step("save")
    <2>2. Registration!DeployToken = <<a, b, c>>
      BY DEF Registration!DeployToken, Step
    <2>3. a \in Registration!Steps /\ b \in Registration!Steps /\ c \in Registration!Steps
      BY <2>1
    <2> HIDE DEF a, b, c
    <2>4. <<a, b, c>> \in Seq(Registration!Steps)
      BY <2>3
    <2> QED  BY <2>2, <2>4
  <1>2. ASSUME NEW t, t.left = Registration!DeployToken, Known(t, own)
        PROVE  TaskAt(t, own)
    BY <1>2 DEF TaskAt, Registration!Recording, Known
  <1> QED  BY <1>1, <1>2, BeginSound

LEMMA RegNativeSound ==
  ASSUME Registration!TokenTasksAssumption, Registration!TokenTasksTypeOK,
         NEW own, RegistrationInv(own), NEW o \in Operators, Registration!Start(o, Id, Registration!RegNative)
  PROVE  Registration!TokenTasksIInv'
  <1> DEFINE s == Registration!LookResource(Registration!createResourceID(Native, Id), Native)
  <1>1. Coin(s) /\ s \in Registration!Steps /\ Id \in Domains
    BY CoinAsked, CoinStep, StepDoes, Numbers DEF Coin
  <1>2. Registration!RegNative = <<s>>
    BY DEF Registration!RegNative, Native
  <1> HIDE DEF s
  <1>3. <<s>> \in Seq(Registration!Steps)
    BY <1>1
  <1>4. ASSUME NEW t, t.left = <<s>>
        PROVE  TaskAt(t, own)
    BY <1>1, <1>4 DEF TaskAt, Registration!Registering, Coin
  <1> QED  BY <1>1, <1>2, <1>3, <1>4, BeginSound

LEMMA RegResourceIdSound ==
  ASSUME Registration!TokenTasksAssumption, Registration!TokenTasksTypeOK,
         NEW own, RegistrationInv(own), NEW o \in Operators,
         Registration!Start(o, Id, Registration!RegResourceId)
  PROVE  Registration!TokenTasksIInv'
  <1> DEFINE look(i) == Registration!LookToken(file[i].resource, file[i].address)
  <1>1. file \in Seq(Registration!Entries) /\ Registration!EntriesKnown(file, own) /\ Id \in Domains
    BY TypedParts, Numbers DEF Typed, RegistrationInv
  <1>2. ASSUME NEW i \in DOMAIN file
        PROVE  look(i) \in Registration!Steps /\ Registration!OfEntry(look(i), own)
    <2>1. /\ file[i] \in Registration!Entries /\ file[i] \in Registration!Known(own)
          /\ file[i].resource \in Registration!Resources /\ file[i].address \in Registration!Addresses
          /\ file[i] = [address |-> file[i].address, resource |-> file[i].resource]
      <3>1. file[i] \in Registration!Entries
        BY <1>1
      <3>2. file[i] \in Registration!Known(own)
        BY <1>1 DEF Registration!EntriesKnown
      <3> QED  BY <3>1, <3>2 DEF Registration!Entries
    <2>2. look(i) = [does |-> "look", by |-> "token", resource |-> file[i].resource,
                     token |-> file[i].address, native |-> FALSE]
      BY DEF Registration!LookToken
    <2>3. look(i) \in Registration!Looks
      BY <2>1, <2>2 DEF Registration!Looks
    <2>4. Registration!OfEntry(look(i), own)
      BY <2>1, <2>2, <2>3 DEF Registration!OfEntry
    <2> QED  BY <2>3, <2>4, StepDoes
  <1>3. Registration!RegResourceId = [i \in DOMAIN file |-> look(i)]
    BY DEF Registration!RegResourceId
  <1> HIDE DEF look
  <1>4. Registration!RegResourceId \in Seq(Registration!Steps)
    <2>1. DOMAIN file = 1..Len(file) /\ Len(file) \in Nat
      BY <1>1
    <2> QED  BY <1>2, <1>3, <2>1
  <1>5. ASSUME NEW t, t.left = Registration!RegResourceId
        PROVE  TaskAt(t, own)
    BY <1>2, <1>3, <1>5 DEF TaskAt, Registration!Registering
  <1> QED  BY <1>1, <1>4, <1>5, BeginSound

(* A step that is done, or found not to be needed, is passed.               *)
Passing(t) == [t EXCEPT !.left = Tail(t.left)]

LEMMA PassingType ==
  ASSUME NEW t \in RegistrationTask, t.left # <<>>
  PROVE  /\ Passing(t) \in RegistrationTask /\ Passing(t).left = Tail(t.left)
         /\ Passing(t).from = t.from /\ Passing(t).token = t.token /\ Passing(t).config = t.config
         /\ t.left \in Seq(Registration!Steps) /\ Head(t.left) \in Registration!Steps
         /\ Tail(t.left) \in Seq(Registration!Steps)
  <1>1. /\ t.left \in Seq(Registration!Steps) /\ Head(t.left) \in Registration!Steps
        /\ Tail(t.left) \in Seq(Registration!Steps)
    BY DEF RegistrationTask
  <1> QED  BY <1>1 DEF RegistrationTask, Passing

LEMMA PassingAt ==
  ASSUME Registration!TokenTasksAssumption, NEW own, Growing(own, own),
         NEW t \in RegistrationTask, TaskAt(t, own), Looking(t),
         Coin(Head(t.left)) => Native \in isNative',
         NEW w, w = Passing(t)
  PROVE  TaskAt(w, own)'
  <1>1. t.left # <<>>
    BY DEF Looking, Does
  <1>2. w.left = Tail(t.left) /\ w.token = t.token /\ w.config = t.config
    BY <1>1, PassingType
  <1>3. CASE Registration!Registering(t, own)
    <2>1. ASSUME NEW i \in DOMAIN w.left
          PROVE  Registration!OfCoin(w.left[i]) \/ Registration!OfEntry(w.left[i], own)'
      <3>1. w.left[i] = t.left[i + 1] /\ i + 1 \in DOMAIN t.left
        BY <1>1, <1>2, PassingType
      <3>2. Registration!OfCoin(t.left[i + 1]) \/ Registration!OfEntry(t.left[i + 1], own)
        BY <1>3, <3>1 DEF Registration!Registering
      <3> QED  BY <3>1, <3>2, KnownKept DEF Registration!OfEntry
    <2>2. Registration!Registering(w, own)'
      BY <2>1 DEF Registration!Registering
    <2> QED  BY <2>2 DEF TaskAt
  <1>4. CASE /\ Known(t, own) /\ Tail(t.left) = <<Step("push"), Step("save")>>
             /\ t.token = Native /\ Coin(Head(t.left))
    <2>1. Registration!EntriesKnown(w.config, own)'
      BY <1>2, <1>4, KnownKept DEF Known
    <2>2. w.left = <<Step("push"), Step("save")>> /\ w.token = Native /\ Native \in isNative'
      BY <1>2, <1>4
    <2> QED  BY <2>1, <2>2 DEF TaskAt, Registration!Recording, Step, Native
  <1>5. CASE /\ Unlisted(t, own) /\ Coin(Head(t.left)) /\ Tail(t.left) = <<Step("burnable"), Step("save")>>
    <2>1. w.token \in 1..deployed' /\ \A e \in own : e.address # w.token
      BY <1>2, <1>5 DEF Unlisted, Growing
    <2>2. w.left = <<Step("burnable"), Step("save")>> /\ Head(t.left) \in Registration!Looks
      BY <1>2, <1>5, CoinStep DEF Coin
    <2>3. Registration!Ending(w, own)'
      BY <1>5, <2>1, <2>2 DEF Registration!Ending, Step, Coin
    <2> QED  BY <2>3 DEF TaskAt
  <1>6. ~Does(t, "save") /\ ~Does(t, "push") /\ ~Does(t, "push own") /\ ~Does(t, "deploy") /\ ~Does(t, "burnable")
    BY DEF Looking, Does
  <1> QED  BY <1>1, <1>3, <1>4, <1>5, <1>6, Where

(* What is found free is to be set.                                         *)
Setting(t) == [t EXCEPT !.left = <<[Head(t.left) EXCEPT !.does = "set"]>> \o Tail(t.left)]

LEMMA Joined ==
  ASSUME NEW a, NEW b, NEW c
  PROVE  <<a>> \o <<b, c>> = <<a, b, c>>
  <1> DEFINE x == <<a>> \o <<b, c>>
             y == <<a, b, c>>
  <1>1. <<a>> \in Seq({a, b, c}) /\ <<b, c>> \in Seq({a, b, c}) /\ Len(<<a>>) = 1 /\ Len(<<b, c>>) = 2
    OBVIOUS
  <1>2. x \in Seq({a, b, c}) /\ Len(x) = 3
    BY <1>1
  <1>3. x[1] = a /\ x[2] = b /\ x[3] = c
    BY <1>1
  <1>4. y \in Seq({a, b, c}) /\ Len(y) = 3 /\ y[1] = a /\ y[2] = b /\ y[3] = c
    OBVIOUS
  <1> HIDE DEF x, y
  <1>5. \A i \in 1..Len(x) : x[i] = y[i]
    BY <1>2, <1>3, <1>4
  <1>6. x = y
    BY <1>2, <1>4, <1>5, SeqEqual
  <1> QED  BY <1>6 DEF x, y

LEMMA SettingAt ==
  ASSUME Registration!TokenTasksAssumption, NEW own,
         NEW t \in RegistrationTask, TaskAt(t, own), Does(t, "look"),
         NEW w, w = Setting(t)
  PROVE  w \in RegistrationTask /\ TaskAt(w, own)
  <1> DEFINE s == [Head(t.left) EXCEPT !.does = "set"]
             list == <<s>> \o Tail(t.left)
  <1>1. t.left # <<>> /\ Looking(t)
    BY DEF Looking, Does
  <1>2. /\ Head(t.left) \in Registration!Steps /\ Tail(t.left) \in Seq(Registration!Steps)
        /\ t.left \in Seq(Registration!Steps)
    BY <1>1, PassingType
  <1>3. Head(t.left) \in Registration!Looks
    <2>1. \/ Head(t.left) \in Registration!Looks
          \/ \E d \in {"deploy", "push", "push own", "burnable", "save"} : Head(t.left) = Step(d)
      BY <1>2 DEF Registration!Steps, Step
    <2>2. \A d \in {"deploy", "push", "push own", "burnable", "save"} : Head(t.left) # Step(d)
      BY StepDoes DEF Does
    <2> QED  BY <2>1, <2>2
  <1>4. s \in Registration!Looks
    BY <1>3 DEF Registration!Looks
  <1>5. w = [t EXCEPT !.left = list]
    BY DEF Setting
  <1>6. Coin(Head(t.left)) => Coin(s)
    BY CoinStep DEF Coin
  <1>7. Registration!OfEntry(Head(t.left), own) => Registration!OfEntry(s, own)
    BY EntryStep
  <1> HIDE DEF s
  <1>8. list \in Seq(Registration!Steps)
    <2>1. s \in Registration!Steps
      BY <1>4, StepDoes
    <2> QED  BY <1>2, <2>1
  <1>9. w \in RegistrationTask /\ w.left = list /\ w.token = t.token /\ w.config = t.config
    BY <1>5, <1>8 DEF RegistrationTask
  <1>10. CASE Registration!Registering(t, own)
    <2>1. ASSUME NEW i \in DOMAIN list
          PROVE  Registration!OfCoin(list[i]) \/ Registration!OfEntry(list[i], own)
      <3>1. CASE i = 1
        <4>1. list[i] = s /\ 1 \in DOMAIN t.left /\ t.left[1] = Head(t.left)
          BY <1>1, <1>2, <3>1
        <4> QED  BY <1>6, <1>7, <1>10, <4>1 DEF Registration!Registering, Coin
      <3>2. CASE i # 1
        <4>1. list[i] = t.left[i] /\ i \in DOMAIN t.left
          BY <1>1, <1>2, <3>2
        <4> QED  BY <1>10, <4>1 DEF Registration!Registering
      <3> QED  BY <3>1, <3>2
    <2> HIDE DEF list
    <2> QED  BY <1>9, <2>1 DEF TaskAt, Registration!Registering
  <1>11. CASE /\ Known(t, own) /\ Tail(t.left) = <<Step("push"), Step("save")>>
              /\ t.token = Native /\ Coin(Head(t.left))
    <2>1. list = <<s, Step("push"), Step("save")>>
      BY <1>11, Joined
    <2> HIDE DEF list
    <2> QED  BY <1>4, <1>6, <1>9, <1>11, <2>1
             DEF TaskAt, Registration!Recording, Known, Coin, Step, Native
  <1>12. CASE /\ Unlisted(t, own) /\ Coin(Head(t.left)) /\ Tail(t.left) = <<Step("burnable"), Step("save")>>
    <2>1. list = <<s, Step("burnable"), Step("save")>>
      BY <1>12, Joined
    <2> HIDE DEF list
    <2> QED  BY <1>4, <1>6, <1>9, <1>12, <2>1 DEF TaskAt, Registration!Ending, Unlisted, Coin, Step
  <1>13. ~Does(t, "save") /\ ~Does(t, "push") /\ ~Does(t, "push own") /\ ~Does(t, "deploy") /\ ~Does(t, "burnable")
    BY DEF Does
  <1> QED  BY <1>1, <1>9, <1>10, <1>11, <1>12, <1>13, Where

LEMMA LookSound ==
  ASSUME Registration!TokenTasksAssumption, Registration!TokenTasksTypeOK,
         NEW own, RegistrationInv(own), NEW o \in Operators, Registration!Look(o)
  PROVE  Registration!TokenTasksIInv'
  <1> DEFINE step == Head(task[o].left)
             free == IF step.by = "resource" THEN tokenOf[step.resource] = Registration!NoToken
                     ELSE resourceOf[step.token] = {}
  <1>1. /\ Does(task[o], "look") /\ started' = started
        /\ UNCHANGED <<deployed, file, Registration!handler>>
        /\ task' = [task EXCEPT ![o].left =
                       IF free THEN <<[step EXCEPT !.does = "set"]>> \o Tail(@) ELSE Tail(@)]
    BY DEF Registration!Look, Registration!Does, Does
  <1>2. /\ task \in [Operators -> RegistrationTask] /\ task[o] \in RegistrationTask
        /\ TaskAt(task[o], own) /\ started \in Nat /\ deployed \in Nat
    BY TypedParts, Numbers DEF RegistrationInv, Typed
  <1>3. task' = [task EXCEPT ![o] = IF free THEN Setting(task[o]) ELSE Passing(task[o])]
    BY <1>1, <1>2 DEF Setting, Passing, RegistrationTask
  <1>4. CASE free
    <2>1. PICK w : w = Setting(task[o])
      OBVIOUS
    <2>2. w \in RegistrationTask /\ TaskAt(w, own)
      BY <1>1, <1>2, <2>1, SettingAt
    <2>3. task' = [task EXCEPT ![o] = w]
      BY <1>3, <1>4, <2>1
    <2> QED  BY <1>1, <1>2, <2>2, <2>3, TaskOnly
  <1>5. CASE ~free
    <2>1. PICK u, w : u = task[o] /\ w = Passing(u)
      OBVIOUS
    <2>2. task' = [task EXCEPT ![o] = w] /\ w \in RegistrationTask
      BY <1>1, <1>2, <1>3, <1>5, <2>1, PassingType DEF Does
    <2>3. isNative' = isNative /\ deployed' = deployed
      BY <1>1 DEF Registration!handler
    <2>4. Growing(own, own)
      BY <1>2, <2>3 DEF Growing
    <2>5. ASSUME Coin(Head(u.left)) PROVE Native \in isNative'
      <3>1. step.by = "resource" /\ step.resource \in Registration!Resources /\ step.resource.address = Native
        BY <2>1, <2>5, CoinStep DEF Coin
      <3>2. tokenOf[step.resource] # Registration!NoToken
        BY <1>5, <3>1
      <3>3. Native \in isNative
        BY <3>1, <3>2 DEF RegistrationInv, Registration!HandlerFits, Native
      <3> QED  BY <2>3, <3>3
    <2>6. Looking(u) /\ u \in RegistrationTask /\ TaskAt(u, own)
      BY <1>1, <1>2, <2>1 DEF Looking
    <2>7. TaskAt(w, own)'
      BY <2>1, <2>4, <2>5, <2>6, PassingAt
    <2> HIDE DEF free
    <2> QED  BY <1>1, <1>2, <2>2, <2>7, TaskOnly
  <1> QED  BY <1>4, <1>5

LEMMA BurnableSound ==
  ASSUME Registration!TokenTasksAssumption, Registration!TokenTasksTypeOK,
         NEW own, RegistrationInv(own), NEW o \in Operators, Registration!adminSetBurnable(o)
  PROVE  Registration!TokenTasksIInv'
  <1>1. /\ Does(task[o], "burnable") /\ started' = started
        /\ UNCHANGED <<deployed, file, Registration!handler>>
        /\ task' = [task EXCEPT ![o] = IF resourceOf[@.token] = {} THEN Registration!Idle
                                       ELSE [@ EXCEPT !.left = Tail(@)]]
    BY DEF Registration!adminSetBurnable, Registration!Does, Does
  <1>2. task[o] \in RegistrationTask /\ TaskAt(task[o], own) /\ Typed /\ task[o].left # <<>>
    BY <1>1, TypedParts DEF RegistrationInv, Does
  <1>3. Unlisted(task[o], own)
    <2>1. \A d \in {"look", "set", "save", "push", "push own", "deploy"} : ~Does(task[o], d)
      BY <1>1 DEF Does
    <2> QED  BY <1>2, <2>1, Where DEF Looking
  <1>4. resourceOf[task[o].token] = {}
    <2> DEFINE n == task[o].token
    <2>1. n \in 1..deployed /\ deployed \in 0..MaxTokens /\ \A e \in own : e.address # n
      BY <1>2, <1>3 DEF Unlisted, Typed
    <2>2. n \in Registration!Addresses \ {Registration!Native}
      BY <2>1, Numbers DEF Native
    <2> HIDE DEF n
    <2>3. \A r \in resourceOf[n] : [address |-> n, resource |-> r] \in own
      BY <2>2 DEF RegistrationInv, Registration!HandlerFits
    <2>4. \A r \in resourceOf[n] : FALSE
      BY <2>1, <2>3
    <2>5. resourceOf[n] = {}
      BY <2>4
    <2> QED  BY <2>5 DEF n
  <1>5. PICK t : t = Registration!Idle
    OBVIOUS
  <1>6. task' = [task EXCEPT ![o] = t] /\ t \in RegistrationTask /\ TaskAt(t, own) /\ started' \in Nat
    <2>1. task \in [Operators -> RegistrationTask]
      BY TypedParts
    <2>2. task' = [task EXCEPT ![o] = t]
      BY <1>1, <1>4, <1>5, <2>1
    <2> QED  BY <1>1, <1>2, <1>5, <2>2, IdleAt DEF Typed
  <1> QED  BY <1>1, <1>6, TaskOnly

(* An entry is recorded in the copy.                                        *)
LEMMA PushSound ==
  ASSUME Registration!TokenTasksAssumption, Registration!TokenTasksTypeOK,
         NEW own, RegistrationInv(own), NEW o \in Operators, Registration!Push(o)
  PROVE  Registration!TokenTasksIInv'
  <1> DEFINE u == task[o]
             of == IF Does(u, "push own") THEN u.token ELSE Native
             entry == [address |-> u.token, resource |-> Registration!createResourceID(of, u.from)]
  <1>1. /\ Does(u, "push") \/ Does(u, "push own")
        /\ UNCHANGED <<deployed, file, Registration!handler>> /\ started' = started
        /\ task' = [task EXCEPT ![o].left = Tail(@), ![o].config = Append(@, entry)]
    BY DEF Registration!Push, Registration!Does, Does, Native
  <1>2. /\ task \in [Operators -> RegistrationTask] /\ u \in RegistrationTask /\ TaskAt(u, own)
        /\ Typed /\ u.left # <<>> /\ own \subseteq OwnEntries
    BY <1>1, TypedParts DEF RegistrationInv, Does
  <1>3. /\ u.left \in Seq(Registration!Steps) /\ Tail(u.left) \in Seq(Registration!Steps)
        /\ u.config \in Seq(Registration!Entries) /\ u.from \in Domains
    BY <1>2, PassingType DEF RegistrationTask
  <1>4. PICK t : t = [u EXCEPT !.left = Tail(u.left), !.config = Append(u.config, entry)]
    OBVIOUS
  <1>5. task' = [task EXCEPT ![o] = t]
    BY <1>1, <1>2, <1>4 DEF RegistrationTask
  <1>6. ~Looking(u) /\ ~Does(u, "save") /\ ~Does(u, "deploy") /\ ~Does(u, "burnable")
        /\ ~(Does(u, "push") /\ Does(u, "push own"))
    BY <1>1 DEF Looking, Does
  <1>7. u.token \in Registration!Addresses
    <2>1. u.token = Native \/ u.token \in 1..deployed
      <3>1. CASE Registration!Entry(u.token, u.from) \in own
        <4>1. PICK n \in 1..deployed, f \in Domains : Registration!Entry(u.token, u.from) = Registration!Entry(n, f)
          BY <1>2, <3>1 DEF OwnEntries
        <4>2. u.token = n
          BY <4>1 DEF Registration!Entry
        <4> QED  BY <4>2
      <3> QED  BY <1>2, <1>6, <3>1, Where DEF Unlisted
    <2> QED  BY <1>2, <2>1, Numbers DEF Typed
  <1>8. entry \in Registration!Entries
    <2>1. of \in Registration!Addresses
      <3>1. Native \in Registration!Addresses
        BY Numbers
      <3> HIDE DEF u
      <3> QED  BY <1>7, <3>1
    <2> HIDE DEF of
    <2>2. Registration!createResourceID(of, u.from) \in Registration!Resources
      BY <1>3, <2>1 DEF Registration!createResourceID, Registration!Resources
    <2> QED  BY <1>7, <2>2 DEF Registration!Entries
  <1>9. t \in RegistrationTask /\ t.left = Tail(u.left) /\ t.token = u.token /\ t.config = Append(u.config, entry)
    <2> HIDE DEF entry
    <2>1. Append(u.config, entry) \in Seq(Registration!Entries)
      <3> HIDE DEF u
      <3> QED  BY <1>3, <1>8
    <2> QED  BY <1>2, <1>3, <1>4, <2>1 DEF RegistrationTask
  <1>10. ASSUME Known(u, own), entry \in Registration!Known(own), Tail(u.left) = <<Step("save")>>
         PROVE  TaskAt(t, own)
    <2> HIDE DEF entry
    <2>1. ASSUME NEW i \in DOMAIN t.config PROVE t.config[i] \in Registration!Known(own)
      <3>1. CASE i = Len(u.config) + 1
        BY <1>3, <1>8, <1>9, <1>10, <3>1
      <3>2. CASE i # Len(u.config) + 1
        <4>1. t.config[i] = u.config[i] /\ i \in DOMAIN u.config
          BY <1>3, <1>8, <1>9, <3>2
        <4> QED  BY <1>10, <4>1 DEF Known, Registration!EntriesKnown
      <3> QED  BY <3>1, <3>2
    <2>2. Registration!EntriesKnown(t.config, own)
      BY <2>1 DEF Registration!EntriesKnown
    <2> QED  BY <1>9, <1>10, <2>2 DEF TaskAt, Registration!Recording, Step
  <1>11. CASE Does(u, "push") /\ Known(u, own) /\ Tail(u.left) = <<Step("save")>>
              /\ u.token = Native /\ Native \in isNative
    <2>1. entry = Registration!Entry(Native, u.from)
      BY <1>6, <1>11 DEF Registration!Entry
    <2>2. entry \in Registration!Known(own)
      BY <1>3, <1>11, <2>1 DEF Registration!Known, Native
    <2>3. TaskAt(t, own)
      BY <1>10, <1>11, <2>2
    <2> HIDE DEF entry, u
    <2>4. started' \in Nat
      BY <1>1, <1>2 DEF Typed
    <2> QED  BY <1>1, <1>5, <1>9, <2>3, <2>4, TaskOnly
  <1>12. CASE Does(u, "push own") /\ Known(u, own) /\ Tail(u.left) = <<Step("save")>>
              /\ Registration!Entry(u.token, u.from) \in own
    <2>1. entry = Registration!Entry(u.token, u.from)
      BY <1>12 DEF Registration!Entry
    <2>2. entry \in Registration!Known(own)
      BY <1>12, <2>1 DEF Registration!Known
    <2>3. TaskAt(t, own)
      BY <1>10, <1>12, <2>2
    <2> HIDE DEF entry, u
    <2>4. started' \in Nat
      BY <1>1, <1>2 DEF Typed
    <2> QED  BY <1>1, <1>5, <1>9, <2>3, <2>4, TaskOnly
  <1>13. CASE Does(u, "push") /\ Unlisted(u, own)
              /\ \E s : Coin(s) /\ Tail(u.left) = <<s, Step("burnable"), Step("save")>>
    <2> HIDE DEF entry, u
    <2>1. PICK s : Coin(s) /\ Tail(u.left) = <<s, Step("burnable"), Step("save")>>
      BY <1>13
    <2>2. TaskAt(t, own)
      BY <1>9, <1>13, <2>1, CoinStep DEF TaskAt, Registration!Ending, Unlisted, Coin, Step
    <2>3. started' \in Nat
      BY <1>1, <1>2 DEF Typed
    <2> QED  BY <1>1, <1>5, <1>9, <2>2, <2>3, TaskOnly
  <1> HIDE DEF u
  <1> QED  BY <1>2, <1>6, <1>11, <1>12, <1>13, Where

(* A token is deployed, and an entry for it is set apart.                   *)
LEMMA DeployKeeps ==
  ASSUME Registration!TokenTasksAssumption, Registration!TokenTasksTypeOK,
         NEW own, RegistrationInv(own), NEW f \in Domains,
         NEW more, own \subseteq more, more \subseteq own \union {Registration!Entry(deployed + 1, f)},
         deployed < MaxTokens, deployed' = deployed + 1,
         UNCHANGED <<file, Registration!handler, started>>
  PROVE  /\ Growing(own, more) /\ Typed' /\ more \subseteq OwnEntries'
         /\ \A e, g \in more : e.address = g.address => e = g
         /\ Registration!EntriesKnown(file, more)' /\ Registration!HandlerFits(more)'
         /\ \A e \in own : e.address # deployed + 1
  <1>1. /\ file' = file /\ started' = started
        /\ tokenOf' = tokenOf /\ resourceOf' = resourceOf /\ isNative' = isNative
    BY DEF Registration!handler
  <1>2. Typed /\ deployed \in Nat /\ MaxTokens \in Nat /\ own \subseteq OwnEntries
    BY TypedParts, Numbers DEF Typed, RegistrationInv
  <1>3. \A n, d : Registration!Entry(n, d).address = n
    BY DEF Registration!Entry
  <1>4. Growing(own, more)
    BY <1>1, <1>2, <1>3 DEF Growing
  <1>5. Typed'
    <2>1. deployed' \in 0..MaxTokens
      BY <1>2
    <2> QED  BY <1>1, <1>2, <2>1 DEF Typed
  <1>6. \A e \in own : e.address \in 1..deployed
    BY <1>2, <1>3 DEF OwnEntries
  <1>7. \A e \in own : e.address # deployed + 1
    BY <1>2, <1>6
  <1>8. more \subseteq OwnEntries'
    <2>1. OwnEntries' = {Registration!Entry(n, d) : n \in 1..(deployed + 1), d \in Domains}
      BY DEF OwnEntries, Registration!Entry, Registration!createResourceID
    <2>2. ASSUME NEW e \in own PROVE e \in OwnEntries'
      <3>1. PICK n \in 1..deployed, d \in Domains : e = Registration!Entry(n, d)
        BY <1>2 DEF OwnEntries
      <3>2. n \in 1..(deployed + 1)
        BY <1>2
      <3> QED  BY <2>1, <3>1, <3>2
    <2>3. Registration!Entry(deployed + 1, f) \in OwnEntries'
      <3>1. deployed + 1 \in 1..(deployed + 1)
        BY <1>2
      <3> QED  BY <2>1, <3>1
    <2> QED  BY <2>2, <2>3
  <1>9. \A e, g \in more : e.address = g.address => e = g
    <2>1. \A e, g \in own : e.address = g.address => e = g
      BY DEF RegistrationInv
    <2> QED  BY <1>3, <1>7, <2>1
  <1>10. Registration!EntriesKnown(file, more)'
    <2>1. PICK c : c = file
      OBVIOUS
    <2>2. Registration!EntriesKnown(c, more)'
      BY <1>4, <2>1, KnownKept DEF RegistrationInv
    <2> QED  BY <1>1, <2>1, <2>2
  <1>11. Registration!HandlerFits(more)'
    BY <1>1 DEF RegistrationInv, Registration!HandlerFits, Registration!NativeKnown, Registration!Resources,
                Registration!Addresses
  <1> QED  BY <1>4, <1>5, <1>7, <1>8, <1>9, <1>10, <1>11

LEMMA TokenDeploySound ==
  ASSUME Registration!TokenTasksAssumption, Registration!TokenTasksTypeOK,
         NEW own, RegistrationInv(own), NEW o \in Operators, Registration!deployContract(o)
  PROVE  Registration!TokenTasksIInv'
  <1>1. /\ Does(task[o], "deploy") /\ deployed < MaxTokens /\ deployed' = deployed + 1
        /\ UNCHANGED <<file, Registration!handler, started>>
        /\ task' = [task EXCEPT ![o].left = Tail(@), ![o].token = deployed']
    BY DEF Registration!deployContract, Registration!Does, Does
  <1>2. /\ task \in [Operators -> RegistrationTask] /\ task[o] \in RegistrationTask
        /\ TaskAt(task[o], own) /\ deployed \in Nat /\ MaxTokens \in Nat
    BY TypedParts, Numbers DEF RegistrationInv, Typed
  <1>3. PICK u, n : u = task[o] /\ n = deployed + 1
    OBVIOUS
  <1>4. PICK t : t = [u EXCEPT !.left = Tail(u.left), !.token = n]
    OBVIOUS
  <1>5. task' = [task EXCEPT ![o] = t]
    BY <1>1, <1>2, <1>3, <1>4 DEF RegistrationTask
  <1>6. u \in RegistrationTask /\ u.left # <<>> /\ Does(u, "deploy") /\ TaskAt(u, own) /\ u.from \in Domains
    BY <1>1, <1>2, <1>3 DEF Does, RegistrationTask
  <1>7. n \in Registration!Addresses
    BY <1>1, <1>2, <1>3, Numbers
  <1>8. /\ t \in RegistrationTask /\ t.left = Tail(u.left) /\ t.token = n
        /\ t.from = u.from /\ t.config = u.config
    BY <1>4, <1>6, <1>7, PassingType DEF RegistrationTask
  <1>9. n \in 1..deployed'
    BY <1>1, <1>2, <1>3
  <1>10. ~Looking(u) /\ ~Does(u, "save") /\ ~Does(u, "push") /\ ~Does(u, "push own") /\ ~Does(u, "burnable")
    BY <1>6 DEF Looking, Does
  <1>11. CASE Known(u, own) /\ Tail(u.left) = <<Step("push own"), Step("save")>>
    <2>1. PICK more : more = own \union {Registration!Entry(n, u.from)}
      OBVIOUS
    <2>2. /\ Growing(own, more) /\ Typed' /\ more \subseteq OwnEntries'
          /\ \A e, g \in more : e.address = g.address => e = g
          /\ Registration!EntriesKnown(file, more)' /\ Registration!HandlerFits(more)'
      <3>1. /\ own \subseteq more /\ u.from \in Domains
            /\ more \subseteq own \union {Registration!Entry(deployed + 1, u.from)}
        BY <1>3, <1>6, <2>1
      <3>2. PICK f \in Domains : f = u.from
        BY <3>1
      <3> QED  BY <1>1, <3>1, <3>2, DeployKeeps
    <2>3. Registration!EntriesKnown(t.config, more)'
      BY <1>8, <1>11, <2>2, KnownKept DEF Known
    <2>4. t.left = Tail(Registration!DeployToken)
      <3>1. Tail(Registration!DeployToken) = <<Step("push own"), Step("save")>>
        BY List3 DEF Registration!DeployToken, Step
      <3> QED  BY <1>8, <1>11, <3>1
    <2>5. Registration!Entry(t.token, t.from) \in more
      BY <1>8, <2>1
    <2>6. TaskAt(t, more)'
      BY <2>3, <2>4, <2>5 DEF TaskAt, Registration!Recording
    <2> QED  BY <1>5, <1>8, <2>2, <2>6, RegistrationChange
  <1>12. CASE \E s : Coin(s) /\ Tail(u.left) = <<Step("push"), s, Step("burnable"), Step("save")>>
    <2>1. PICK s : Coin(s) /\ Tail(u.left) = <<Step("push"), s, Step("burnable"), Step("save")>>
      BY <1>12
    <2>2. /\ Growing(own, own) /\ Typed' /\ own \subseteq OwnEntries'
          /\ \A e, g \in own : e.address = g.address => e = g
          /\ Registration!EntriesKnown(file, own)' /\ Registration!HandlerFits(own)'
          /\ \A e \in own : e.address # n
      BY <1>1, <1>3, <1>6, DeployKeeps
    <2>3. Registration!Ending(t, own)'
      BY <1>8, <1>9, <2>1, <2>2, CoinStep DEF Registration!Ending, Step, Coin
    <2>4. TaskAt(t, own)'
      BY <2>3 DEF TaskAt
    <2> QED  BY <1>5, <1>8, <2>2, <2>4, RegistrationChange
  <1> QED  BY <1>6, <1>10, <1>11, <1>12, Where

(* The copy is written.                                                     *)
LEMMA SaveSound ==
  ASSUME Registration!TokenTasksAssumption, Registration!TokenTasksTypeOK,
         NEW own, RegistrationInv(own), NEW o \in Operators, Registration!saveConfig(o)
  PROVE  Registration!TokenTasksIInv'
  <1>1. /\ Does(task[o], "save") /\ file' = task[o].config
        /\ UNCHANGED <<deployed, Registration!handler, started>>
        /\ task' = [task EXCEPT ![o].left = Tail(@)]
    BY DEF Registration!saveConfig, Registration!Does, Does
  <1>2. /\ task \in [Operators -> RegistrationTask] /\ task[o] \in RegistrationTask
        /\ TaskAt(task[o], own) /\ Typed /\ deployed \in Nat
    BY TypedParts, Numbers DEF RegistrationInv, Typed
  <1>3. PICK u, t : u = task[o] /\ t = Passing(u)
    OBVIOUS
  <1>4. task' = [task EXCEPT ![o] = t]
    BY <1>1, <1>2, <1>3 DEF Passing, RegistrationTask
  <1>5. u \in RegistrationTask /\ u.left # <<>> /\ Does(u, "save") /\ TaskAt(u, own)
    BY <1>1, <1>2, <1>3 DEF Does
  <1>6. Known(u, own) /\ Tail(u.left) = <<>>
    <2>1. \A d \in {"look", "set", "push", "push own", "deploy", "burnable"} : ~Does(u, d)
      BY <1>5 DEF Does
    <2> QED  BY <1>5, <2>1, Where DEF Looking
  <1>7. t \in RegistrationTask /\ t.left = <<>>
    BY <1>3, <1>5, <1>6, PassingType
  <1>8. /\ deployed' = deployed /\ started' = started
        /\ tokenOf' = tokenOf /\ resourceOf' = resourceOf /\ isNative' = isNative
    BY <1>1 DEF Registration!handler
  <1>9. Growing(own, own)
    BY <1>2, <1>8 DEF Growing
  <1>10. TaskAt(t, own)'
    BY <1>7 DEF TaskAt, Registration!Registering
  <1>11. Typed'
    <2>1. file' \in Seq(Registration!Entries)
      BY <1>1, <1>2 DEF RegistrationTask
    <2> QED  BY <1>2, <1>8, <2>1 DEF Typed
  <1>12. own \subseteq OwnEntries' /\ \A e, g \in own : e.address = g.address => e = g
    <2>1. OwnEntries' = OwnEntries
      BY <1>8 DEF OwnEntries, Registration!Entry, Registration!createResourceID
    <2> QED  BY <2>1 DEF RegistrationInv
  <1>13. Registration!EntriesKnown(file, own)'
    <2>1. PICK c : c = u.config
      OBVIOUS
    <2>2. Registration!EntriesKnown(c, own)'
      BY <1>6, <1>9, <2>1, KnownKept DEF Known
    <2> QED  BY <1>1, <1>3, <2>1, <2>2
  <1>14. Registration!HandlerFits(own)'
    BY <1>8 DEF RegistrationInv, Registration!HandlerFits, Registration!NativeKnown, Registration!Resources,
                Registration!Addresses
  <1> QED  BY <1>4, <1>7, <1>9, <1>10, <1>11, <1>12, <1>13, <1>14, RegistrationChange

(* What is set is the coin, or an entry that is known.                      *)
Right(s, own) == Coin(s) \/ Registration!OfEntry(s, own)

LEMMA SetRight ==
  ASSUME Registration!TokenTasksAssumption, NEW own, NEW t \in RegistrationTask, TaskAt(t, own),
         Does(t, "set")
  PROVE  Right(Head(t.left), own)
  <1>1. t.left # <<>>
    BY DEF Does
  <1>2. CASE Registration!Registering(t, own)
    <2>1. 1 \in DOMAIN t.left /\ Head(t.left) = t.left[1]
      BY <1>1 DEF RegistrationTask
    <2> QED  BY <1>2, <2>1 DEF Registration!Registering, Right, Coin
  <1>3. \A d \in {"save", "push", "push own", "deploy", "burnable"} : ~Does(t, d)
    BY DEF Does
  <1> QED  BY <1>1, <1>2, <1>3, Where DEF Right

LEMMA RightStep ==
  ASSUME Registration!TokenTasksAssumption, NEW own, own \subseteq OwnEntries, NEW s, Right(s, own)
  PROVE  /\ s.resource \in Registration!Resources /\ s.token \in Registration!Addresses
         /\ s.resource.address = s.token /\ s.native \in BOOLEAN
         /\ s.token = Native => s.native \/ Native \in isNative
         /\ s.token # Native => [address |-> s.token, resource |-> s.resource] \in own
         /\ Coin(s) => s.native /\ s.token = Native
  <1>1. CASE Coin(s)
    <2>1. /\ s \in Registration!Looks /\ s.token = Native /\ s.native = TRUE
          /\ s.resource \in Registration!Resources /\ s.resource.address = Native
      BY <1>1, CoinStep DEF Coin
    <2> QED  BY <2>1 DEF Registration!Looks
  <1>2. CASE Registration!OfEntry(s, own)
    <2> DEFINE e == [address |-> s.token, resource |-> s.resource]
    <2>1. /\ s \in Registration!Looks /\ s.native = FALSE /\ e \in Registration!Known(own)
          /\ s.resource \in Registration!Resources /\ s.token \in Registration!Addresses
      <3>1. s \in Registration!Looks /\ s.native = FALSE
        BY <1>2, EntryStep
      <3>2. e \in Registration!Known(own)
        BY <1>2 DEF Registration!OfEntry
      <3> HIDE DEF e
      <3> QED  BY <3>1, <3>2 DEF Registration!Looks
    <2>2. e.address = s.token /\ e.resource = s.resource
      OBVIOUS
    <2> HIDE DEF e
    <2>3. CASE e \in own
      <3>1. PICK n \in 1..deployed, f \in Domains : e = Registration!Entry(n, f)
        BY <2>3 DEF OwnEntries
      <3>2. e.address = n /\ e.resource.address = n
        BY <3>1, Numbers
      <3>3. s.token = n /\ s.resource.address = n /\ n # Native
        BY <2>2, <3>2, Numbers
      <3>4. ~Coin(s)
        BY <3>3, CoinStep DEF Coin
      <3> QED  BY <2>1, <2>3, <3>3, <3>4 DEF e
    <2>4. CASE Native \in isNative /\ \E f \in Domains : e = Registration!Entry(Native, f)
      <3>1. e.address = Native /\ e.resource.address = Native
        BY <2>4, Numbers
      <3>2. ~Coin(s)
        BY <2>1, CoinStep DEF Coin
      <3> QED  BY <2>1, <2>2, <2>4, <3>1, <3>2
    <2>5. e \in own \/ (Native \in isNative /\ \E f \in Domains : e = Registration!Entry(Native, f))
      <3>1. e \in Registration!Known(own)
        BY <2>1
      <3>2. CASE Native \in isNative
        <4>1. Registration!Known(own) = own \union {Registration!Entry(Native, f) : f \in Domains}
          BY <3>2 DEF Registration!Known, Native
        <4> QED  BY <3>1, <3>2, <4>1
      <3>3. CASE Native \notin isNative
        <4>1. Registration!Known(own) = own
          BY <3>3 DEF Registration!Known, Native
        <4> QED  BY <3>1, <4>1
      <3> QED  BY <3>2, <3>3
    <2> QED  BY <2>3, <2>4, <2>5
  <1> QED  BY <1>1, <1>2 DEF Right

(* Setting it leaves what is registered, and all the rest fits.             *)
LEMMA SetKeeps ==
  ASSUME Registration!TokenTasksAssumption, Typed, NEW own, RegistrationInv(own),
         NEW r \in Registration!Resources, NEW a \in Registration!Addresses, NEW native \in BOOLEAN,
         r.address = a, a = Native => native \/ Native \in isNative,
         a # Native => [address |-> a, resource |-> r] \in own,
         tokenOf' = [tokenOf EXCEPT ![r] = a], resourceOf' = [resourceOf EXCEPT ![a] = {r}],
         isNative' = IF native THEN isNative \union {a} ELSE isNative,
         UNCHANGED <<deployed, file, started>>
  PROVE  /\ Typed' /\ Registration!HandlerFits(own)' /\ Registration!Registered
         /\ Growing(own, own)
  <1>1. /\ isNative \subseteq isNative' /\ a = Native => Native \in isNative'
        /\ isNative' \subseteq Registration!Addresses
    BY DEF Typed
  <1>2. /\ tokenOf \in [Registration!Resources -> Registration!Addresses \union {Registration!NoToken}]
        /\ resourceOf \in [Registration!Addresses -> SUBSET Registration!Resources]
    BY DEF Typed
  <1>3. Typed'
    BY <1>1, <1>2 DEF Typed
  <1>4. /\ \A q \in Registration!Resources : tokenOf[q] # Registration!NoToken =>
              tokenOf[q] = q.address /\ (q.address = Native => Native \in isNative)
        /\ \A t \in Registration!Addresses \ {Native} :
              \A q \in resourceOf[t] : [address |-> t, resource |-> q] \in own
        /\ resourceOf[Native] # {} => Native \in isNative
    BY DEF RegistrationInv, Registration!HandlerFits, Registration!NativeKnown, Native
  <1>5. /\ \A q \in Registration!Resources : tokenOf'[q] = IF q = r THEN a ELSE tokenOf[q]
        /\ \A t \in Registration!Addresses : resourceOf'[t] = IF t = a THEN {r} ELSE resourceOf[t]
    BY <1>2
  <1>6. Registration!HandlerFits(own)'
    <2>1. ASSUME NEW q \in Registration!Resources, tokenOf'[q] # Registration!NoToken
          PROVE  tokenOf'[q] = q.address /\ (q.address = Native => Native \in isNative')
      BY <1>1, <1>4, <1>5, <2>1
    <2>2. ASSUME NEW t \in Registration!Addresses \ {Native}, NEW q \in resourceOf'[t]
          PROVE  [address |-> t, resource |-> q] \in own
      <3>1. CASE t = a
        BY <1>5, <2>2, <3>1
      <3>2. CASE t # a
        BY <1>4, <1>5, <2>2, <3>2
      <3> QED  BY <3>1, <3>2
    <2>3. resourceOf'[Native] # {} => Native \in isNative'
      <3>1. Native \in Registration!Addresses
        BY Numbers
      <3> QED  BY <1>1, <1>4, <1>5, <3>1
    <2> QED  BY <2>1, <2>2, <2>3
             DEF Registration!HandlerFits, Registration!NativeKnown, Native, Registration!Native,
                 Registration!NoToken, Registration!Resources, Registration!Addresses
  <1>7. Registration!Registered
    <2>1. ASSUME NEW q \in Registration!Resources, tokenOf[q] # Registration!NoToken
          PROVE  tokenOf'[q] = tokenOf[q]
      BY <1>4, <1>5, <2>1
    <2>2. ASSUME NEW t \in Registration!Addresses \ {Native}, resourceOf[t] # {}
          PROVE  resourceOf'[t] = resourceOf[t]
      <3>1. CASE t = a
        <4>1. ASSUME NEW q \in resourceOf[t] PROVE q = r
          <5>1. [address |-> t, resource |-> q] \in own /\ [address |-> t, resource |-> r] \in own
            BY <1>4, <2>2, <3>1
          <5>2. [address |-> t, resource |-> q] = [address |-> t, resource |-> r]
            BY <5>1 DEF RegistrationInv
          <5> QED  BY <5>2
        <4> QED  BY <1>5, <2>2, <3>1, <4>1
      <3> QED  BY <1>5, <3>1
    <2> QED  BY <2>1, <2>2 DEF Registration!Registered, Native
  <1>8. Growing(own, own)
    BY <1>1, Numbers DEF Growing, Typed
  <1> QED  BY <1>3, <1>6, <1>7, <1>8

LEMMA ResourceSetSound ==
  ASSUME Registration!TokenTasksAssumption, Registration!TokenTasksTypeOK,
         NEW own, RegistrationInv(own), NEW o \in Operators, Registration!adminSetResource(o)
  PROVE  Registration!TokenTasksIInv' /\ Registration!Registered
  <1>1. PICK u, s : u = task[o] /\ s = Head(u.left)
    OBVIOUS
  <1>2. /\ Does(u, "set") /\ UNCHANGED <<deployed, file, started>>
        /\ tokenOf' = [tokenOf EXCEPT ![s.resource] = s.token]
        /\ resourceOf' = [resourceOf EXCEPT ![s.token] = {s.resource}]
        /\ isNative' = IF s.native THEN isNative \union {s.token} ELSE isNative
        /\ task' = [task EXCEPT ![o].left = Tail(@)]
    BY <1>1 DEF Registration!adminSetResource, Registration!Does, Does
  <1>3. /\ task \in [Operators -> RegistrationTask] /\ u \in RegistrationTask
        /\ TaskAt(u, own) /\ Typed /\ own \subseteq OwnEntries
    BY <1>1, TypedParts DEF RegistrationInv
  <1>4. Right(s, own)
    BY <1>1, <1>2, <1>3, SetRight
  <1>5. /\ s.resource \in Registration!Resources /\ s.token \in Registration!Addresses
        /\ s.resource.address = s.token /\ s.native \in BOOLEAN
        /\ s.token = Native => s.native \/ Native \in isNative
        /\ s.token # Native => [address |-> s.token, resource |-> s.resource] \in own
        /\ Coin(s) => s.native /\ s.token = Native
    BY <1>3, <1>4, RightStep
  <1>6. PICK r \in Registration!Resources, a \in Registration!Addresses, native \in BOOLEAN :
           r = s.resource /\ a = s.token /\ native = s.native
    BY <1>5
  <1>7. /\ Typed' /\ Registration!HandlerFits(own)' /\ Registration!Registered /\ Growing(own, own)
    BY <1>2, <1>3, <1>5, <1>6, SetKeeps
  <1>8. PICK t : t = Passing(u)
    OBVIOUS
  <1>9. task' = [task EXCEPT ![o] = t]
    BY <1>1, <1>2, <1>3, <1>8 DEF Passing, RegistrationTask
  <1>10. t \in RegistrationTask
    BY <1>2, <1>3, <1>8, PassingType DEF Does
  <1>11. Coin(s) => Native \in isNative'
    BY <1>2, <1>5
  <1>12. TaskAt(t, own)'
    BY <1>1, <1>2, <1>3, <1>7, <1>8, <1>11, PassingAt DEF Looking
  <1>13. own \subseteq OwnEntries' /\ \A e, g \in own : e.address = g.address => e = g
    <2>1. OwnEntries' = OwnEntries
      BY <1>2 DEF OwnEntries, Registration!Entry, Registration!createResourceID
    <2> QED  BY <2>1 DEF RegistrationInv
  <1>14. Registration!EntriesKnown(file, own)'
    <2>1. PICK c : c = file
      OBVIOUS
    <2>2. Registration!EntriesKnown(c, own)'
      BY <1>7, <2>1, KnownKept DEF RegistrationInv
    <2> QED  BY <1>2, <2>1, <2>2
  <1>15. Registration!TokenTasksIInv'
    BY <1>7, <1>9, <1>10, <1>12, <1>13, <1>14, RegistrationChange
  <1> QED  BY <1>7, <1>15

LEMMA RegistrationStep ==
  ASSUME Registration!TokenTasksAssumption, Registration!TokenTasksIInv, [Registration!Next]_(Registration!vars)
  PROVE  /\ Registration!TokenTasksIInv'
         /\ Registration!Registered \/ UNCHANGED Registration!handler
  <1>1. PICK own : Registration!TokenTasksTypeOK /\ RegistrationInv(own)
    BY RegistrationParts DEF SomeOwn
  <1>2. CASE UNCHANGED Registration!vars
    <2>1. /\ deployed' = deployed /\ file' = file /\ task' = task /\ started' = started
          /\ tokenOf' = tokenOf /\ resourceOf' = resourceOf /\ isNative' = isNative
          /\ UNCHANGED Registration!handler
      BY <1>2 DEF Registration!vars, Registration!handler
    <2>2. Typed /\ deployed \in Nat
      BY <1>1, TypedParts, Numbers DEF Typed
    <2>3. Growing(own, own)
      BY <2>1, <2>2 DEF Growing
    <2>4. Registration!TokenTasksTypeOK'
      BY <1>1, <2>1 DEF Registration!TokenTasksTypeOK
    <2>5. ASSUME NEW o \in Operators PROVE TaskAt(task[o], own)'
      <3>1. PICK u : u = task[o]
        OBVIOUS
      <3>2. TaskAt(u, own)'
        BY <1>1, <2>3, <3>1, TaskAtKept DEF RegistrationInv
      <3> QED  BY <2>1, <3>1, <3>2
    <2>6. Registration!EntriesKnown(file, own)'
      <3>1. PICK c : c = file
        OBVIOUS
      <3>2. Registration!EntriesKnown(c, own)'
        BY <1>1, <2>3, <3>1, KnownKept DEF RegistrationInv
      <3> QED  BY <2>1, <3>1, <3>2
    <2>7. Registration!HandlerFits(own)'
      BY <1>1, <2>1 DEF RegistrationInv, Registration!HandlerFits, Registration!NativeKnown,
                        Registration!Resources, Registration!Addresses
    <2>8. OwnEntries' = OwnEntries
      BY <2>1 DEF OwnEntries, Registration!Entry, Registration!createResourceID
    <2>9. RegistrationInv(own)'
      BY <1>1, <2>5, <2>6, <2>7, <2>8 DEF RegistrationInv
    <2>10. SomeOwn'
      BY <2>9 DEF SomeOwn
    <2>11. Registration!TokenTasksIInv'
      BY <2>4, <2>10, RegistrationParts, PTL
    <2> QED  BY <2>1, <2>11
  <1>3. CASE Registration!Next
    <2>1. PICK o \in Operators :
             \/ \E from \in Domains : \/ Registration!Start(o, from, Registration!DeployNative(from))
                                      \/ Registration!Start(o, from, Registration!DeployToken)
             \/ Registration!Start(o, Id, Registration!RegNative)
             \/ Registration!Start(o, Id, Registration!RegResourceId)
             \/ Registration!deployContract(o)
             \/ Registration!Push(o)
             \/ Registration!Look(o)
             \/ Registration!adminSetResource(o)
             \/ Registration!adminSetBurnable(o)
             \/ Registration!saveConfig(o)
             \/ Registration!Fail(o)
      BY <1>3 DEF Registration!Next
    <2>2. ASSUME NEW from \in Domains, Registration!Start(o, from, Registration!DeployNative(from))
          PROVE  Registration!TokenTasksIInv' /\ UNCHANGED Registration!handler
      BY <1>1, <2>2, DeployNativeSound DEF Registration!Start
    <2>3. ASSUME NEW from \in Domains, Registration!Start(o, from, Registration!DeployToken)
          PROVE  Registration!TokenTasksIInv' /\ UNCHANGED Registration!handler
      BY <1>1, <2>3, DeployTokenSound DEF Registration!Start
    <2>4. CASE Registration!Start(o, Id, Registration!RegNative)
      BY <1>1, <2>4, RegNativeSound DEF Registration!Start
    <2>5. CASE Registration!Start(o, Id, Registration!RegResourceId)
      BY <1>1, <2>5, RegResourceIdSound DEF Registration!Start
    <2>6. CASE Registration!deployContract(o)
      BY <1>1, <2>6, TokenDeploySound DEF Registration!deployContract
    <2>7. CASE Registration!Push(o)
      BY <1>1, <2>7, PushSound DEF Registration!Push
    <2>8. CASE Registration!Look(o)
      BY <1>1, <2>8, LookSound DEF Registration!Look
    <2>9. CASE Registration!adminSetResource(o)
      BY <1>1, <2>9, ResourceSetSound
    <2>10. CASE Registration!adminSetBurnable(o)
      BY <1>1, <2>10, BurnableSound DEF Registration!adminSetBurnable
    <2>11. CASE Registration!saveConfig(o)
      BY <1>1, <2>11, SaveSound DEF Registration!saveConfig
    <2>12. CASE Registration!Fail(o)
      BY <1>1, <2>12, FailKeeps DEF Registration!Fail
    <2> QED  BY <2>1, <2>2, <2>3, <2>4, <2>5, <2>6, <2>7, <2>8, <2>9, <2>10, <2>11, <2>12
  <1> QED  BY <1>2, <1>3

(* The file and the handler know only tokens deployed for themselves and    *)
(* the coin once it is native, and every task is where that leaves it       *)
(* (tasks/DeployToken.ts, DeployNative.ts, RegNative.ts, RegResourceId.ts). *)
THEOREM RegistrationInvariance ==
  ASSUME Registration!TokenTasksAssumption
  PROVE  Registration!Spec => []Registration!TokenTasksIInv
  <1>1. Registration!Init => Registration!TokenTasksIInv
    BY RegistrationStart
  <1>2. Registration!TokenTasksIInv /\ [Registration!Next]_(Registration!vars) => Registration!TokenTasksIInv'
    BY RegistrationStep
  <1> QED  BY <1>1, <1>2, PTL DEF Registration!Spec

(* What is registered with the handler stays registered, whoever runs the   *)
(* tasks at the same time or again after a failure, and the network's coin  *)
(* is registered only as a native coin.                                     *)
THEOREM TokensStayRegistered ==
  ASSUME Registration!TokenTasksAssumption
  PROVE  Registration!Spec => RegisteredRight
  <1>1. Registration!TokenTasksIInv => Registration!NativeKnown
    BY RegistrationParts DEF SomeOwn, RegistrationInv, Registration!HandlerFits
  <1>2. Registration!TokenTasksIInv /\ [Registration!Next]_(Registration!vars)
          => [Registration!Registered]_(Registration!vars)
    <2>1. UNCHANGED Registration!handler => Registration!Registered
      BY DEF Registration!Registered, Registration!handler
    <2> QED  BY <2>1, RegistrationStep
  <1> QED  BY <1>1, <1>2, RegistrationInvariance, PTL
           DEF Registration!Spec, RegisteredRight
=============================================================================
