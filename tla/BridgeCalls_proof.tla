-------------------------- MODULE BridgeCalls_proof --------------------------
(***************************************************************************)
(* Proofs about BridgeCalls: whatever calls come back into the bridge,     *)
(* from one transaction to the next proposals keep their life cycle and    *)
(* the reentrancy guard is free.                                           *)
(***************************************************************************)
EXTENDS BridgeCalls, FiniteSetTheorems, SequenceTheorems, TLAPS

Depth == Len(stack)

(* Decisions of finished transactions are not revised. *)
Forward == \A t \in Transfers : Leads(Committed.status[t], Committed'.status[t])

LEMMA StackFacts ==
  ASSUME CallsTypeOK
  PROVE  /\ Depth \in Nat /\ chain \in Storage
         /\ \A i \in 1..Depth : stack[i] \in Frame
         /\ StorageAt(Depth) = chain
         /\ \A i \in 0..Depth : i # Depth => StorageAt(i) = stack[i + 1].before
         /\ stack # <<>> => Depth >= 1 /\ Top = stack[Depth] /\ StorageAt(Depth - 1) = Top.before
  BY DEF CallsTypeOK, Depth, StorageAt, Top

LEMMA FrameType ==
  ASSUME NEW frame \in Frame
  PROVE  /\ frame.before \in Storage /\ frame.calling \in Storage
         /\ Guarded(frame) => frame.fn \in {"execute", "try", "signatures"} /\ frame.subject \in Transfers
         /\ ~Guarded(frame) => frame.fn = "deposit" /\ frame.subject \in Nat
  BY DEF Frame, Guarded

(* What the changes of the storage do to each field.                        *)
LEMMA StatusUpdate ==
  ASSUME NEW c \in Storage, NEW t \in Transfers, NEW s \in Status
  PROVE  /\ WithStatus(c, t, s) \in Storage
         /\ WithStatus(c, t, s).status = [c.status EXCEPT ![t] = s]
         /\ WithStatus(c, t, s).effects = c.effects
         /\ WithStatus(c, t, s).entered = c.entered
  <1>1. [c.status EXCEPT ![t] = s] \in [Transfers -> Status]
    BY DEF Storage
  <1> QED  BY <1>1 DEF WithStatus, Storage

LEMMA EffectUpdate ==
  ASSUME NEW c \in Storage, NEW t \in Transfers
  PROVE  /\ WithEffect(c, t) \in Storage
         /\ WithEffect(c, t).effects = [c.effects EXCEPT ![t] = c.effects[t] + 1]
         /\ WithEffect(c, t).status = c.status
         /\ WithEffect(c, t).entered = c.entered
  <1>1. [c.effects EXCEPT ![t] = c.effects[t] + 1] \in [Transfers -> Nat]
    BY DEF Storage
  <1> QED  BY <1>1 DEF WithEffect, Storage

LEMMA GuardUpdate ==
  ASSUME NEW c \in Storage
  PROVE  /\ Exit(c) \in Storage /\ ~Exit(c).entered
         /\ Exit(c).status = c.status /\ Exit(c).effects = c.effects
         /\ [c EXCEPT !.entered = TRUE] \in Storage
         /\ [c EXCEPT !.entered = TRUE].entered
         /\ [c EXCEPT !.entered = TRUE].status = c.status
         /\ [c EXCEPT !.entered = TRUE].effects = c.effects
  BY DEF Storage, Exit

LEMMA ExecutingSound ==
  ASSUME NEW c \in Storage, NEW t \in Transfers
  PROVE  /\ Executing(c, t) \in Storage /\ Executing(c, t).entered
         /\ Executing(c, t).status = [c.status EXCEPT ![t] = "Executed"]
         /\ Executing(c, t).effects = c.effects
  <1>1. "Executed" \in Status
    BY DEF Status
  <1>2. PICK d \in Storage : d = WithStatus(c, t, "Executed")
    BY <1>1, StatusUpdate
  <1>3. d.status = [c.status EXCEPT ![t] = "Executed"] /\ d.effects = c.effects
    BY <1>1, <1>2, StatusUpdate
  <1> QED  BY <1>2, <1>3, GuardUpdate DEF Executing

LEMMA VotedSound ==
  ASSUME chain \in Storage, NEW relayer \in Relayers, NEW t \in Transfers
  PROVE  /\ Voted(relayer, t) \in Storage
         /\ Voted(relayer, t).status = chain.status
         /\ Voted(relayer, t).effects = chain.effects
         /\ Voted(relayer, t).entered = chain.entered
  BY DEF Storage, Voted

LEMMA LeadsTo ==
  /\ \A s \in Status : Leads(s, s)
  /\ \A r, s, u \in Status : Leads(r, s) /\ Leads(s, u) => Leads(r, u)
  BY DEF Leads, Status

(* StorageInv looks at the first calls of the stack only. *)
LEMMA SamePrefix ==
  ASSUME NEW c \in Storage, NEW i \in Nat, NEW F, NEW G, \A j \in 1..i : F[j] = G[j],
         StorageInv(c, F, i)
  PROVE  StorageInv(c, G, i)
  <1>1. (\E j \in 1..i : Guarded(F[j])) <=> (\E j \in 1..i : Guarded(G[j]))
    OBVIOUS
  <1>2. ASSUME NEW t \in Transfers
        PROVE  (\E j \in 1..i : Marks(F[j], t)) <=> (\E j \in 1..i : Marks(G[j], t))
    OBVIOUS
  <1> QED  BY <1>1, <1>2 DEF StorageInv
-----------------------------------------------------------------------------
(* The three shapes of a step. *)

LEMMA CallSound ==
  ASSUME CallsIInv, NEW fn, NEW subject, NEW c \in Storage,
         CallHandler(fn, subject, c),
         NEW frame \in Frame,
         frame = [fn |-> fn, subject |-> subject, before |-> chain, calling |-> c],
         Guarded(frame) => Unlocked(chain),
         FrameInv(frame),
         StorageInv(c, Append(stack, frame), Depth + 1),
         \A t \in Transfers : Leads(chain.status[t], c.status[t])
  PROVE  CallsIInv' /\ Forward
  <1>0. CallsTypeOK /\ Depth \in Nat /\ chain \in Storage /\ StorageAt(Depth) = chain
    BY StackFacts DEF CallsIInv
  <1>n. PICK n \in Nat : n = Depth
    BY <1>0
  <1>1. chain' = c /\ stack' = Append(stack, frame) /\ frame.before = chain /\ frame.calling = c
    BY <1>n DEF CallHandler
  <1>2. /\ Depth' = n + 1 /\ stack' \in Seq(Frame)
        /\ stack'[n + 1] = frame
        /\ \A j \in 1..n : stack'[j] = stack[j]
    BY <1>n, <1>0, <1>1 DEF Depth, CallsTypeOK
  <1>3. CallsTypeOK'
    BY <1>n, <1>1, <1>2 DEF CallsTypeOK
  <1>4. /\ \A i \in 0..n : StorageAt(i)' = StorageAt(i)
        /\ StorageAt(n + 1)' = c
    BY <1>n, <1>0, <1>1, <1>2 DEF StorageAt, Depth
  <1>5. Committed' = Committed
    BY <1>n, <1>0, <1>4 DEF Committed
  <1>6. \A i \in 0..n : StorageAt(i) \in Storage
    BY <1>n, <1>0, StackFacts, FrameType
  <1>7. \A i, j \in 1..n + 1 : Guarded(stack'[i]) /\ Guarded(stack'[j]) => i = j
    <2>1. Guarded(frame) => \A j \in 1..n : ~Guarded(stack[j])
      BY <1>n, <1>0 DEF Unlocked, CallsIInv, StorageInv, Depth
    <2>2. \A i, j \in 1..n : Guarded(stack[i]) /\ Guarded(stack[j]) => i = j
      BY <1>n DEF CallsIInv, Depth
    <2> QED  BY <1>n, <1>0, <1>2, <2>1, <2>2
  <1>8. ASSUME NEW i \in 0..n + 1
        PROVE  /\ StorageInv(StorageAt(i)', stack', i)
               /\ \A t \in Transfers : Leads(Committed'.status[t], StorageAt(i)'.status[t])
    <2>1. CASE i = n + 1
      <3>1. StorageInv(StorageAt(i)', stack', i)
        BY <1>n, <1>1, <1>4, <2>1
      <3>2. ASSUME NEW t \in Transfers PROVE Leads(Committed.status[t], c.status[t])
        <4>1. Leads(Committed.status[t], chain.status[t]) /\ Leads(chain.status[t], c.status[t])
          BY <1>n, <1>0 DEF CallsIInv, Depth
        <4>2. Committed.status[t] \in Status /\ chain.status[t] \in Status /\ c.status[t] \in Status
          BY <1>n, <1>0, <1>6 DEF Committed, Storage
        <4> QED  BY <4>1, <4>2, LeadsTo
      <3> QED  BY <1>4, <1>5, <2>1, <3>1, <3>2
    <2>2. CASE i \in 0..n
      <3>1. StorageInv(StorageAt(i), stack, i) /\ StorageAt(i) \in Storage
        BY <1>n, <1>6, <2>2 DEF CallsIInv, Depth
      <3>2. StorageInv(StorageAt(i), stack', i)
        <4>1. i \in Nat /\ \A j \in 1..i : stack[j] = stack'[j]
          BY <1>2, <2>2
        <4> QED  BY <3>1, <4>1, SamePrefix
      <3> QED  BY <1>n, <1>4, <1>5, <2>2, <3>2 DEF CallsIInv, Depth
    <2> QED  BY <1>n, <1>0, <2>1, <2>2
  <1>9. ASSUME NEW i \in 1..n + 1
        PROVE  FrameInv(stack'[i]) /\ StorageInv(stack'[i].calling, stack', i)
    <2>1. CASE i = n + 1
      BY <1>n, <1>1, <1>2, <2>1
    <2>2. CASE i \in 1..n
      <3>1. /\ FrameInv(stack[i]) /\ StorageInv(stack[i].calling, stack, i)
            /\ stack[i].calling \in Storage
        BY <1>n, <1>0, <2>2, StackFacts, FrameType DEF CallsIInv, Depth
      <3>2. StorageInv(stack[i].calling, stack', i)
        <4>1. i \in Nat /\ \A j \in 1..i : stack[j] = stack'[j]
          BY <1>2, <2>2
        <4> QED  BY <3>1, <4>1, SamePrefix
      <3> QED  BY <1>n, <1>2, <2>2, <3>1, <3>2
    <2> QED  BY <1>n, <1>0, <2>1, <2>2
  <1>10. Forward
    <2>1. \A t \in Transfers : Committed.status[t] \in Status
      <3>1. Committed \in Storage
        BY <1>6 DEF Committed
      <3> QED  BY <3>1 DEF Storage
    <2> QED  BY <1>5, <2>1, LeadsTo DEF Forward
  <1>11. CallsIInv'
    BY <1>n, <1>2, <1>3, <1>7, <1>8, <1>9 DEF CallsIInv, Depth
  <1> QED  BY <1>n, <1>10, <1>11

(* Of a step that replaces the storage after the first n calls and leaves   *)
(* those calls on the stack.                                                *)
LEMMA ReplaceSound ==
  ASSUME CallsIInv, NEW n \in 0..Depth, NEW c \in Storage,
         chain' = c, stack' \in Seq(Frame), Len(stack') = n,
         \A j \in 1..n : stack'[j] = stack[j],
         StorageInv(c, stack, n),
         \A t \in Transfers : Leads(Committed.status[t], c.status[t])
  PROVE  CallsIInv' /\ Forward
  <1>0. CallsTypeOK /\ Depth \in Nat /\ n \in Nat /\ n <= Depth
    BY StackFacts DEF CallsIInv
  <1>1. CallsTypeOK' /\ Depth' = n
    BY DEF CallsTypeOK, Depth
  <1>2. \A i \in 0..n : i # n => StorageAt(i)' = StorageAt(i)
    BY <1>0 DEF StorageAt, Depth
  <1>3. StorageAt(n)' = c
    BY DEF StorageAt
  <1>4. \A i \in 0..Depth : StorageAt(i) \in Storage
    BY <1>0, StackFacts, FrameType
  <1>5. ASSUME NEW i \in 0..n
        PROVE  StorageInv(StorageAt(i)', stack', i)
    <2>1. CASE i = n
      BY <1>0, <1>3, <2>1, SamePrefix
    <2>2. CASE i # n
      <3>1. StorageInv(StorageAt(i), stack, i) /\ StorageAt(i) \in Storage
        BY <1>0, <1>4 DEF CallsIInv, Depth
      <3>2. StorageInv(StorageAt(i), stack', i)
        BY <1>0, <3>1, SamePrefix
      <3> QED  BY <1>2, <2>2, <3>2
    <2> QED  BY <2>1, <2>2
  <1>6. ASSUME NEW i \in 0..n, NEW t \in Transfers
        PROVE  Leads(Committed'.status[t], StorageAt(i)'.status[t])
    <2>1. CASE n = 0
      BY <1>3, <2>1, LeadsTo DEF Committed, Storage
    <2>2. CASE n # 0
      <3>1. Committed' = Committed
        BY <1>0, <1>2, <2>2 DEF Committed
      <3>2. CASE i = n
        BY <1>3, <3>1, <3>2
      <3>3. CASE i # n
        BY <1>0, <1>2, <3>1, <3>3 DEF CallsIInv, Depth
      <3> QED  BY <3>2, <3>3
    <2> QED  BY <2>1, <2>2
  <1>7. ASSUME NEW i \in 1..n
        PROVE  FrameInv(stack'[i]) /\ StorageInv(stack'[i].calling, stack', i)
    <2>1. /\ FrameInv(stack[i]) /\ StorageInv(stack[i].calling, stack, i)
          /\ stack[i].calling \in Storage
      BY <1>0, StackFacts, FrameType DEF CallsIInv, Depth
    <2>2. StorageInv(stack[i].calling, stack', i)
      BY <1>0, <2>1, SamePrefix
    <2> QED  BY <2>1, <2>2
  <1>8. \A i, j \in 1..n : Guarded(stack'[i]) /\ Guarded(stack'[j]) => i = j
    BY <1>0 DEF CallsIInv, Depth
  <1>9. Forward
    <2> SUFFICES ASSUME NEW t \in Transfers
                 PROVE  Leads(Committed.status[t], Committed'.status[t])
      BY DEF Forward
    <2>1. CASE n = 0
      BY <1>3, <2>1 DEF Committed
    <2>2. CASE n # 0
      <3>1. Committed' = Committed
        BY <1>0, <1>2, <2>2 DEF Committed
      <3> QED  BY <1>0, <1>4, <3>1, LeadsTo DEF Committed, Storage
    <2> QED  BY <2>1, <2>2
  <1>10. CallsIInv'
    BY <1>1, <1>5, <1>6, <1>7, <1>8 DEF CallsIInv, Depth
  <1> QED  BY <1>9, <1>10

LEMMA UpdateSound ==
  ASSUME CallsIInv, NEW c \in Storage, Update(c), StorageInv(c, stack, Depth),
         \A t \in Transfers : Leads(chain.status[t], c.status[t])
  PROVE  CallsIInv' /\ Forward
  <1>0. CallsTypeOK /\ Depth \in Nat /\ chain \in Storage /\ StorageAt(Depth) = chain
    BY StackFacts DEF CallsIInv
  <1>1. StorageAt(0) \in Storage
    BY <1>0, StackFacts, FrameType
  <1>2. ASSUME NEW t \in Transfers PROVE Leads(Committed.status[t], c.status[t])
    <2>1. Leads(Committed.status[t], chain.status[t]) /\ Leads(chain.status[t], c.status[t])
      BY <1>0 DEF CallsIInv, Depth
    <2>2. Committed.status[t] \in Status /\ chain.status[t] \in Status /\ c.status[t] \in Status
      BY <1>0, <1>1 DEF Committed, Storage
    <2> QED  BY <2>1, <2>2, LeadsTo
  <1>3. chain' = c /\ stack' = stack /\ stack \in Seq(Frame) /\ Len(stack) = Depth /\ Depth \in 0..Depth
    BY <1>0 DEF Update, CallsTypeOK, Depth
  <1> QED  BY <1>2, <1>3, ReplaceSound

(* The stack without its topmost call. *)
LEMMA BelowFacts ==
  ASSUME CallsTypeOK, stack # <<>>
  PROVE  /\ Below \in Seq(Frame) /\ Len(Below) = Depth - 1
         /\ \A j \in 1..Depth - 1 : Below[j] = stack[j]
  <1>0. Depth \in Nat /\ Depth >= 1
    BY StackFacts
  <1>1. \A j \in 1..Depth - 1 : stack[j] \in Frame
    BY <1>0, StackFacts
  <1> DEFINE s == SubSeq(stack, 1, Depth - 1)
  <1>2. /\ s \in Seq(Frame)
        /\ Len(s) = IF 1 <= Depth - 1 THEN Depth - 1 - 1 + 1 ELSE 0
        /\ \A j \in 1..Depth - 1 - 1 + 1 : s[j] = stack[1 + j - 1]
    BY <1>0, <1>1, SubSeqProperties
  <1>3. Below = s
    BY DEF Below, Depth
  <1> HIDE DEF s
  <1>4. \A j \in 1..Depth - 1 : s[j] = stack[j]
    <2> SUFFICES ASSUME NEW j \in 1..Depth - 1 PROVE s[j] = stack[j]
      OBVIOUS
    <2>1. 1 + j - 1 = j /\ j \in 1..Depth - 1 - 1 + 1
      BY <1>0
    <2> QED  BY <1>2, <2>1
  <1> QED  BY <1>0, <1>2, <1>3, <1>4

LEMMA FinishSound ==
  ASSUME CallsIInv, stack # <<>>, NEW c \in Storage, Finish(c), StorageInv(c, stack, Depth - 1),
         \A t \in Transfers : Leads(Committed.status[t], c.status[t])
  PROVE  CallsIInv' /\ Forward
  <1>0. CallsTypeOK /\ Depth \in Nat /\ Depth >= 1
    BY StackFacts DEF CallsIInv
  <1>1. /\ Below \in Seq(Frame) /\ Len(Below) = Depth - 1
        /\ \A j \in 1..Depth - 1 : Below[j] = stack[j]
    BY <1>0, BelowFacts
  <1>2. Depth - 1 \in 0..Depth /\ chain' = c /\ stack' = Below
    BY <1>0 DEF Finish
  <1> QED  BY <1>1, <1>2, ReplaceSound
-----------------------------------------------------------------------------
(* Calls of the bridge. *)

LEMMA Unguarded ==
  ASSUME CallsIInv, Unlocked(chain)
  PROVE  /\ \A i \in 1..Depth : ~Guarded(stack[i])
         /\ \A i \in 1..Depth, t \in Transfers : ~Marks(stack[i], t)
         /\ \A t \in Transfers : Once(chain, t)
  <1>1. StorageInv(chain, stack, Depth)
    BY StackFacts DEF CallsIInv, Depth
  <1>2. \A i \in 1..Depth : ~Guarded(stack[i])
    BY <1>1 DEF StorageInv, Unlocked
  <1>3. \A i \in 1..Depth, t \in Transfers : ~Marks(stack[i], t)
    BY <1>2 DEF Marks, Guarded
  <1> QED  BY <1>1, <1>2, <1>3 DEF StorageInv

(* A call that marks its proposal Executed before the handler's.            *)
LEMMA MarkingCall ==
  ASSUME CallsIInv, Unlocked(chain), NEW fn \in {"execute", "try"}, NEW t \in Transfers,
         NEW base \in Storage, base.status = chain.status, base.effects = chain.effects,
         chain.status[t] \in {"Inactive", "Active", "Passed"},
         CallHandler(fn, t, Executing(base, t))
  PROVE  CallsIInv' /\ Forward
  <1>0. CallsTypeOK /\ Depth \in Nat /\ chain \in Storage /\ Len(stack) = Depth /\ stack \in Seq(Frame)
    BY StackFacts DEF CallsIInv, Depth, CallsTypeOK
  <1>1. PICK c \in Storage : c = Executing(base, t)
    BY ExecutingSound
  <1>2. /\ c.entered /\ c.status = [chain.status EXCEPT ![t] = "Executed"]
        /\ c.effects = chain.effects
    BY <1>1, ExecutingSound
  <1>3. PICK frame : frame = [fn |-> fn, subject |-> t, before |-> chain, calling |-> c]
    OBVIOUS
  <1>4. /\ frame.fn = fn /\ frame.subject = t /\ frame.before = chain /\ frame.calling = c
        /\ frame \in Frame
    BY <1>0, <1>3 DEF Frame
  <1>5. chain.status \in [Transfers -> Status] /\ chain.effects \in [Transfers -> Nat]
    BY <1>0 DEF Storage
  <1>6. FrameInv(frame) /\ Guarded(frame)
    BY <1>2, <1>4 DEF FrameInv, Guarded
  <1>7. \A u \in Transfers : Leads(chain.status[u], c.status[u])
    BY <1>2, <1>5 DEF Leads
  <1> DEFINE F == Append(stack, frame)
  <1>8. F[Depth + 1] = frame /\ \A i \in 1..Depth : F[i] = stack[i]
    BY <1>0
  <1> HIDE DEF F
  <1>9. StorageInv(c, F, Depth + 1)
    <2>1. c.entered /\ \E j \in 1..Depth + 1 : Guarded(F[j])
      BY <1>0, <1>2, <1>6, <1>8
    <2>2. ASSUME NEW u \in Transfers
          PROVE  IF \E j \in 1..Depth + 1 : Marks(F[j], u)
                 THEN c.status[u] = "Executed" /\ c.effects[u] = 0
                 ELSE Once(c, u)
      <3>1. Once(chain, u)
        BY Unguarded
      <3>2. CASE u = t
        <4>1. chain.effects[t] = 0
          BY <3>1, <3>2 DEF Once
        <4>2. Marks(F[Depth + 1], u)
          BY <1>4, <1>8, <3>2 DEF Marks
        <4>3. c.status[u] = "Executed" /\ c.effects[u] = 0
          BY <1>2, <1>5, <3>2, <4>1
        <4> QED  BY <1>0, <4>2, <4>3
      <3>3. CASE u # t
        <4>1. \A j \in 1..Depth + 1 : ~Marks(F[j], u)
          BY <1>0, <1>4, <1>8, <3>3, Unguarded DEF Marks
        <4>2. Once(c, u)
          BY <1>2, <1>5, <3>1, <3>3 DEF Once
        <4> QED  BY <4>1, <4>2
      <3> QED  BY <3>2, <3>3
    <2> QED  BY <2>1, <2>2 DEF StorageInv
  <1>10. StorageInv(c, Append(stack, frame), Depth + 1)
    BY <1>9 DEF F
  <1> QED  BY <1>1, <1>3, <1>4, <1>6, <1>7, <1>10, CallSound

(* A call that leaves the proposals as they are. *)
LEMMA PlainCall ==
  ASSUME CallsIInv, NEW fn \in {"signatures", "deposit"}, NEW subject, NEW c \in Storage,
         CallHandler(fn, subject, c),
         IF fn = "signatures" THEN Unlocked(chain) /\ subject \in Transfers ELSE subject \in Nat,
         c.status = chain.status, c.effects = chain.effects,
         c.entered = IF fn = "signatures" THEN TRUE ELSE chain.entered
  PROVE  CallsIInv' /\ Forward
  <1>0. /\ CallsTypeOK /\ Depth \in Nat /\ chain \in Storage /\ Len(stack) = Depth
        /\ stack \in Seq(Frame) /\ StorageAt(Depth) = chain
    BY StackFacts DEF CallsIInv, Depth, CallsTypeOK
  <1>1. PICK frame : frame = [fn |-> fn, subject |-> subject, before |-> chain, calling |-> c]
    OBVIOUS
  <1>2. /\ frame.fn = fn /\ frame.before = chain /\ frame.calling = c
        /\ frame \in Frame
    BY <1>0, <1>1 DEF Frame
  <1>3. /\ FrameInv(frame) /\ \A t \in Transfers : ~Marks(frame, t)
        /\ Guarded(frame) <=> fn = "signatures"
    BY <1>2 DEF FrameInv, Marks, Guarded
  <1>4. \A t \in Transfers : Leads(chain.status[t], c.status[t])
    BY <1>0, LeadsTo DEF Storage
  <1> DEFINE F == Append(stack, frame)
  <1>5. F[Depth + 1] = frame /\ \A i \in 1..Depth : F[i] = stack[i]
    BY <1>0
  <1> HIDE DEF F
  <1>6. StorageInv(chain, stack, Depth) /\ chain.entered \in BOOLEAN
    BY <1>0 DEF CallsIInv, Depth, Storage
  <1>7. StorageInv(c, F, Depth + 1)
    <2>1. c.entered <=> \E j \in 1..Depth + 1 : Guarded(F[j])
      <3>1. CASE fn = "signatures"
        BY <1>0, <1>3, <1>5, <3>1
      <3>2. CASE fn # "signatures"
        BY <1>0, <1>3, <1>5, <1>6, <3>2 DEF StorageInv
      <3> QED  BY <3>1, <3>2
    <2>2. ASSUME NEW t \in Transfers
          PROVE  IF \E j \in 1..Depth + 1 : Marks(F[j], t)
                 THEN c.status[t] = "Executed" /\ c.effects[t] = 0
                 ELSE Once(c, t)
      <3>1. (\E j \in 1..Depth + 1 : Marks(F[j], t)) <=> \E j \in 1..Depth : Marks(stack[j], t)
        BY <1>0, <1>3, <1>5
      <3> QED  BY <1>6, <3>1 DEF StorageInv, Once
    <2> QED  BY <2>1, <2>2 DEF StorageInv
  <1>8. StorageInv(c, Append(stack, frame), Depth + 1)
    BY <1>7 DEF F
  <1>9. Guarded(frame) => Unlocked(chain)
    BY <1>3
  <1> QED  BY <1>1, <1>2, <1>3, <1>4, <1>8, <1>9, CallSound

(* A call that only sets the status of one undecided proposal.              *)
LEMMA StatusSet ==
  ASSUME CallsIInv, NEW t \in Transfers, NEW s \in Status, NEW base \in Storage,
         base.status = chain.status, base.effects = chain.effects, base.entered = chain.entered,
         chain.status[t] # "Executed", s # "Executed", Leads(chain.status[t], s),
         Update(WithStatus(base, t, s))
  PROVE  CallsIInv' /\ Forward
  <1>0. /\ CallsTypeOK /\ Depth \in Nat /\ chain \in Storage /\ StorageAt(Depth) = chain
        /\ chain.status \in [Transfers -> Status]
    BY StackFacts DEF CallsIInv, Storage
  <1>1. PICK c \in Storage : c = WithStatus(base, t, s)
    BY StatusUpdate
  <1>2. /\ c.status = [chain.status EXCEPT ![t] = s] /\ c.effects = chain.effects
        /\ c.entered = chain.entered
    BY <1>1, StatusUpdate
  <1>3. StorageInv(chain, stack, Depth)
    BY <1>0 DEF CallsIInv, Depth
  <1>4. \A u \in Transfers : Leads(chain.status[u], c.status[u])
    BY <1>0, <1>2, LeadsTo
  <1>5. \A u \in Transfers : Once(chain, u) => Once(c, u)
    BY <1>0, <1>2 DEF Once
  <1>6. \A u \in Transfers : chain.status[u] = "Executed" => c.status[u] = "Executed"
    BY <1>0, <1>2
  <1>7. StorageInv(c, stack, Depth)
    BY <1>2, <1>3, <1>5, <1>6 DEF StorageInv
  <1> QED  BY <1>1, <1>4, <1>7, UpdateSound

LEMMA VoteSound ==
  ASSUME CallsIInv, NEW relayer \in Relayers, NEW t \in Transfers, voteProposal(relayer, t)
  PROVE  CallsIInv' /\ Forward
  <1>0. chain \in Storage /\ chain.status[t] \in Status /\ Unlocked(chain)
    BY StackFacts DEF CallsIInv, Storage, voteProposal
  <1>1. /\ Voted(relayer, t) \in Storage /\ Voted(relayer, t).status = chain.status
        /\ Voted(relayer, t).effects = chain.effects
        /\ Voted(relayer, t).entered = chain.entered
    BY <1>0, VotedSound
  <1>2. CASE chain.status[t] = "Passed" /\ CallHandler("execute", t, Executing(chain, t))
    BY <1>0, <1>2, MarkingCall
  <1>3. CASE chain.status[t] \in {"Inactive", "Active"} /\ CallHandler("try", t, Executing(Voted(relayer, t), t))
    BY <1>0, <1>1, <1>3, MarkingCall
  <1>4. CASE chain.status[t] \in {"Inactive", "Active"} /\ Update(WithStatus(Voted(relayer, t), t, "Active"))
    <2>1. "Active" \in Status /\ Leads(chain.status[t], "Active")
      BY <1>4 DEF Status, Leads
    <2> QED  BY <1>1, <1>4, <2>1, StatusSet
  <1>5. CASE chain.status[t] = "Active" /\ Update(WithStatus(chain, t, "Cancelled"))
    <2>1. "Cancelled" \in Status /\ Leads(chain.status[t], "Cancelled")
      BY <1>5 DEF Status, Leads
    <2> QED  BY <1>0, <1>5, <2>1, StatusSet
  <1>6. \/ chain.status[t] = "Passed" /\ CallHandler("execute", t, Executing(chain, t))
        \/ /\ chain.status[t] \in {"Inactive", "Active"}
           /\ CallHandler("try", t, Executing(Voted(relayer, t), t))
              \/ Update(WithStatus(Voted(relayer, t), t, "Active"))
        \/ chain.status[t] = "Active" /\ Update(WithStatus(chain, t, "Cancelled"))
    BY DEF voteProposal
  <1> QED  BY <1>2, <1>3, <1>4, <1>5, <1>6

LEMMA OtherCalls ==
  ASSUME CallsIInv
  PROVE  /\ \A t \in Transfers :
               /\ \A revertOnFail \in BOOLEAN : executeProposal(t, revertOnFail) => CallsIInv' /\ Forward
               /\ voteProposals(t) => CallsIInv' /\ Forward
               /\ cancelProposal(t) => CallsIInv' /\ Forward
         /\ deposit => CallsIInv' /\ Forward
  <1>0. chain \in Storage /\ chain.depositCount \in Nat
    BY StackFacts DEF CallsIInv, Storage
  <1>1. ASSUME NEW t \in Transfers, NEW revertOnFail \in BOOLEAN, executeProposal(t, revertOnFail)
        PROVE  CallsIInv' /\ Forward
    <2>1. PICK fn \in {"execute", "try"} : CallHandler(fn, t, Executing(chain, t))
      BY <1>1 DEF executeProposal
    <2> QED  BY <1>0, <1>1, <2>1, MarkingCall DEF executeProposal
  <1>2. ASSUME NEW t \in Transfers, voteProposals(t)
        PROVE  CallsIInv' /\ Forward
    <2>1. PICK c \in Storage : c = [chain EXCEPT !.entered = TRUE]
      BY <1>0, GuardUpdate
    <2>2. c.entered = TRUE /\ c.status = chain.status /\ c.effects = chain.effects
      BY <1>0, <2>1 DEF Storage
    <2>3. Unlocked(chain) /\ CallHandler("signatures", t, c)
      BY <1>2, <2>1 DEF voteProposals
    <2> QED  BY <2>2, <2>3, PlainCall
  <1>3. ASSUME NEW t \in Transfers, cancelProposal(t)
        PROVE  CallsIInv' /\ Forward
    <2>1. "Cancelled" \in Status /\ Leads(chain.status[t], "Cancelled") /\ chain.status[t] # "Executed"
      BY <1>3 DEF Status, Leads, cancelProposal
    <2> QED  BY <1>0, <1>3, <2>1, StatusSet DEF cancelProposal
  <1>4. ASSUME deposit PROVE CallsIInv' /\ Forward
    <2>0. NonceTaken(chain) \in Storage
      <3>1. chain.depositCount + 1 \in Nat
        BY <1>0
      <3> QED  BY <1>0, <3>1 DEF NonceTaken, Storage
    <2>1. PICK c \in Storage : c = NonceTaken(chain)
      BY <2>0
    <2>2. c.entered = chain.entered /\ c.status = chain.status /\ c.effects = chain.effects
      BY <1>0, <2>1 DEF NonceTaken, Storage
    <2>3. CallHandler("deposit", chain.depositCount + 1, c) /\ chain.depositCount + 1 \in Nat
      BY <1>0, <1>4, <2>1 DEF deposit
    <2> QED  BY <2>2, <2>3, PlainCall
  <1> QED  BY <1>1, <1>2, <1>3, <1>4
-----------------------------------------------------------------------------
(* Handlers that return or revert. *)

(* What the topmost call can rely on when it goes on.                       *)
LEMMA TopFacts ==
  ASSUME CallsIInv, stack # <<>>
  PROVE  /\ Depth \in Nat /\ Depth >= 1 /\ Depth - 1 \in 0..Depth /\ Top = stack[Depth]
         /\ chain \in Storage /\ StorageInv(chain, stack, Depth)
         /\ \A t \in Transfers : Leads(Committed.status[t], chain.status[t])
         /\ Top \in Frame /\ FrameInv(Top)
         /\ Top.before \in Storage /\ StorageInv(Top.before, stack, Depth - 1)
         /\ \A t \in Transfers : Leads(Committed.status[t], Top.before.status[t])
         /\ Top.calling \in Storage /\ StorageInv(Top.calling, stack, Depth)
         /\ Guarded(Top) => \A j \in 1..Depth - 1 : ~Guarded(stack[j])
         /\ \A t \in Transfers : Committed.status[t] \in Status
  <1>1. /\ CallsTypeOK /\ Depth \in Nat /\ Depth >= 1 /\ Top = stack[Depth] /\ chain \in Storage
        /\ StorageAt(Depth) = chain /\ StorageAt(Depth - 1) = Top.before /\ Top \in Frame
    BY StackFacts DEF CallsIInv
  <1>2. Depth \in 0..Depth /\ Depth - 1 \in 0..Depth /\ Depth \in 1..Depth /\ 0 \in 0..Depth
    BY <1>1
  <1>3. Top.before \in Storage /\ Top.calling \in Storage /\ Committed \in Storage
    BY <1>1, <1>2, StackFacts, FrameType DEF Committed
  <1>4. /\ StorageInv(chain, stack, Depth) /\ StorageInv(Top.before, stack, Depth - 1)
        /\ FrameInv(Top) /\ StorageInv(Top.calling, stack, Depth)
    BY <1>1, <1>2 DEF CallsIInv, Depth
  <1>5. \A t \in Transfers : /\ Leads(Committed.status[t], chain.status[t])
                             /\ Leads(Committed.status[t], Top.before.status[t])
    BY <1>1, <1>2 DEF CallsIInv, Depth
  <1>6. Guarded(Top) => \A j \in 1..Depth - 1 : ~Guarded(stack[j])
    <2> SUFFICES ASSUME Guarded(Top), NEW j \in 1..Depth - 1, Guarded(stack[j]) PROVE FALSE
      OBVIOUS
    <2>1. j \in 1..Depth /\ j # Depth
      BY <1>1
    <2> QED  BY <1>1, <1>2, <2>1 DEF CallsIInv, Depth
  <1>7. \A t \in Transfers : Committed.status[t] \in Status
    BY <1>3 DEF Storage
  <1> QED  BY <1>1, <1>2, <1>3, <1>4, <1>5, <1>6, <1>7

(* When a guarded call ends, no call that waits below is a guarded one.     *)
LEMMA GuardedEnds ==
  ASSUME CallsIInv, stack # <<>>, Guarded(Top), NEW c \in Storage, ~c.entered,
         \A t \in Transfers : Once(c, t)
  PROVE  StorageInv(c, stack, Depth - 1)
  <1>1. \A j \in 1..Depth - 1 : ~Guarded(stack[j])
    BY TopFacts
  <1>2. \A j \in 1..Depth - 1, t \in Transfers : ~Marks(stack[j], t)
    BY <1>1 DEF Marks, Guarded
  <1> QED  BY <1>1, <1>2 DEF StorageInv

(* Of the proposals, only the one of a topmost guarded call can be marked.  *)
LEMMA OthersOnce ==
  ASSUME CallsIInv, stack # <<>>, Guarded(Top), NEW c \in Storage, StorageInv(c, stack, Depth)
  PROVE  \A t \in Transfers :
            IF Marks(Top, t) THEN c.status[t] = "Executed" /\ c.effects[t] = 0 ELSE Once(c, t)
  <1>1. \A j \in 1..Depth - 1, t \in Transfers : ~Marks(stack[j], t)
    <2>1. \A j \in 1..Depth - 1 : ~Guarded(stack[j])
      BY TopFacts
    <2> QED  BY <2>1 DEF Marks, Guarded
  <1>2. \A j \in 1..Depth : j \in 1..Depth - 1 \/ j = Depth
    BY TopFacts
  <1>3. ASSUME NEW t \in Transfers
        PROVE  (\E j \in 1..Depth : Marks(stack[j], t)) <=> Marks(Top, t)
    BY <1>1, <1>2, TopFacts
  <1> QED  BY <1>3 DEF StorageInv

LEMMA ExecuteReturnsSound ==
  ASSUME CallsIInv, stack # <<>>, ExecuteReturns
  PROVE  CallsIInv' /\ Forward
  <1>0. /\ Top.fn \in {"execute", "try"} /\ Guarded(Top) /\ Top.subject \in Transfers
        /\ chain \in Storage /\ StorageInv(chain, stack, Depth)
    BY TopFacts, FrameType DEF ExecuteReturns, Guarded
  <1>1. PICK t \in Transfers : t = Top.subject
    BY <1>0
  <1>2. PICK d \in Storage : d = WithEffect(chain, t)
    BY <1>0, EffectUpdate
  <1>3. PICK c \in Storage : c = Exit(d)
    BY GuardUpdate
  <1>4. /\ ~c.entered /\ c.status = chain.status
        /\ c.effects = [chain.effects EXCEPT ![t] = chain.effects[t] + 1]
    <2>1. d.status = chain.status /\ d.effects = [chain.effects EXCEPT ![t] = chain.effects[t] + 1]
      BY <1>0, <1>2, EffectUpdate
    <2>2. ~c.entered /\ c.status = d.status /\ c.effects = d.effects
      BY <1>3, GuardUpdate
    <2> QED  BY <2>1, <2>2
  <1>5. chain.effects \in [Transfers -> Nat]
    BY <1>0 DEF Storage
  <1>6. \A u \in Transfers : IF u = t THEN chain.status[u] = "Executed" /\ chain.effects[u] = 0
                             ELSE Once(chain, u)
    BY <1>0, <1>1, OthersOnce DEF Marks
  <1>7. \A u \in Transfers : Once(c, u)
    BY <1>4, <1>5, <1>6 DEF Once
  <1>8. StorageInv(c, stack, Depth - 1)
    BY <1>0, <1>4, <1>7, GuardedEnds
  <1>9. Finish(c)
    BY <1>1, <1>2, <1>3 DEF ExecuteReturns
  <1>10. \A u \in Transfers : Leads(Committed.status[u], c.status[u])
    BY <1>4, TopFacts
  <1> QED  BY <1>8, <1>9, <1>10, FinishSound

LEMMA UndoSound ==
  ASSUME CallsIInv, stack # <<>>, Finish(Top.before)
  PROVE  CallsIInv' /\ Forward
  BY TopFacts, FinishSound

LEMMA SignaturesReturnSound ==
  ASSUME CallsIInv, stack # <<>>, SignaturesReturn
  PROVE  CallsIInv' /\ Forward
  <1>0. /\ Top.fn = "signatures" /\ Guarded(Top) /\ Top.subject \in Transfers
        /\ chain \in Storage /\ StorageInv(chain, stack, Depth)
    BY TopFacts, FrameType DEF SignaturesReturn, Guarded
  <1>1. PICK t \in Transfers : t = Top.subject
    BY <1>0
  <1>2. CASE ~Undecided(chain, t)
    BY <1>0, <1>1, <1>2, UndoSound DEF SignaturesReturn
  <1>3. CASE Undecided(chain, t)
    <2>1. "Executed" \in Status
      BY DEF Status
    <2>2. PICK a \in Storage : a = WithStatus(chain, t, "Executed")
      BY <1>0, <2>1, StatusUpdate
    <2>3. PICK b \in Storage : b = WithEffect(a, t)
      BY EffectUpdate
    <2>4. PICK c \in Storage : c = Exit(b)
      BY GuardUpdate
    <2>5. a.status = [chain.status EXCEPT ![t] = "Executed"] /\ a.effects = chain.effects
      BY <1>0, <2>1, <2>2, StatusUpdate
    <2>6. b.status = a.status /\ b.effects = [a.effects EXCEPT ![t] = a.effects[t] + 1]
      BY <2>3, EffectUpdate
    <2>7. ~c.entered /\ c.status = b.status /\ c.effects = b.effects
      BY <2>4, GuardUpdate
    <2>8. /\ chain.status \in [Transfers -> Status] /\ chain.effects \in [Transfers -> Nat]
          /\ chain.status[t] \in {"Inactive", "Active"}
      BY <1>0, <1>3 DEF Storage, Undecided
    <2>9. \A u \in Transfers : Once(chain, u)
      BY <1>0, OthersOnce DEF Marks
    <2>10. \A u \in Transfers : Once(c, u)
      BY <2>5, <2>6, <2>7, <2>8, <2>9 DEF Once
    <2>11. StorageInv(c, stack, Depth - 1)
      BY <1>0, <2>7, <2>10, GuardedEnds
    <2>12. \A u \in Transfers : Leads(Committed.status[u], c.status[u])
      <3> SUFFICES ASSUME NEW u \in Transfers PROVE Leads(Committed.status[u], c.status[u])
        OBVIOUS
      <3>1. Leads(Committed.status[u], chain.status[u])
        BY TopFacts
      <3> QED  BY <2>5, <2>6, <2>7, <2>8, <3>1 DEF Leads
    <2>13. Finish(c)
      BY <1>1, <1>3, <2>2, <2>3, <2>4 DEF SignaturesReturn
    <2> QED  BY <2>11, <2>12, <2>13, FinishSound
  <1> QED  BY <1>2, <1>3

LEMMA DepositReturnsSound ==
  ASSUME CallsIInv, stack # <<>>, DepositReturns
  PROVE  CallsIInv' /\ Forward
  <1>0. /\ Top.fn = "deposit" /\ ~Guarded(Top) /\ Top.subject \in Nat /\ Depth >= 1 /\ Depth \in Nat
        /\ chain \in Storage /\ StorageInv(chain, stack, Depth) /\ Top = stack[Depth]
    BY TopFacts, FrameType DEF DepositReturns, Guarded
  <1>1. chain.events \in Seq(Nat) /\ Append(chain.events, Top.subject) \in Seq(Nat)
    BY <1>0 DEF Storage
  <1>2. PICK c \in Storage : c = [chain EXCEPT !.events = Append(chain.events, Top.subject)]
    <2>1. PICK q \in Seq(Nat) : q = Append(chain.events, Top.subject)
      BY <1>1
    <2>2. [chain EXCEPT !.events = q] \in Storage
      BY <1>0 DEF Storage
    <2> QED  BY <2>1, <2>2
  <1>3. c.status = chain.status /\ c.effects = chain.effects /\ c.entered = chain.entered
    BY <1>0, <1>2 DEF Storage
  <1>4. \A j \in 1..Depth : j \in 1..Depth - 1 \/ j = Depth
    BY <1>0
  <1>5. /\ (\E j \in 1..Depth : Guarded(stack[j])) <=> \E j \in 1..Depth - 1 : Guarded(stack[j])
        /\ \A t \in Transfers :
              (\E j \in 1..Depth : Marks(stack[j], t)) <=> \E j \in 1..Depth - 1 : Marks(stack[j], t)
    <2>1. 1..Depth - 1 \subseteq 1..Depth /\ ~Guarded(stack[Depth])
      BY <1>0
    <2>2. \A t \in Transfers : ~Marks(stack[Depth], t)
      BY <2>1 DEF Marks, Guarded
    <2> QED  BY <1>4, <2>1, <2>2
  <1>6. StorageInv(c, stack, Depth - 1)
    BY <1>0, <1>3, <1>5 DEF StorageInv, Once
  <1>7. \A t \in Transfers : Leads(Committed.status[t], c.status[t])
    BY <1>3, TopFacts
  <1> QED  BY <1>0, <1>2, <1>6, <1>7, FinishSound DEF DepositReturns

LEMMA HandlerRevertsSound ==
  ASSUME CallsIInv, stack # <<>>, HandlerReverts
  PROVE  CallsIInv' /\ Forward
  <1>1. CASE Top.fn # "try"
    BY <1>1, UndoSound DEF HandlerReverts
  <1>2. CASE Top.fn = "try"
    <2>0. /\ Guarded(Top) /\ Top.subject \in Transfers /\ Top.before \in Storage
          /\ Top.calling \in Storage /\ StorageInv(Top.calling, stack, Depth)
          /\ "Passed" \in Status
      BY <1>2, TopFacts, FrameType DEF Guarded, Status
    <2>1. PICK t \in Transfers : t = Top.subject
      BY <2>0
    <2>2. PICK call \in Storage : call = Top.calling
      BY <2>0
    <2>3. PICK d \in Storage : d = WithStatus(call, t, "Passed")
      BY <2>0, StatusUpdate
    <2>4. PICK c \in Storage : c = Exit(d)
      BY GuardUpdate
    <2>5. d.status = [call.status EXCEPT ![t] = "Passed"] /\ d.effects = call.effects
      BY <2>0, <2>3, StatusUpdate
    <2>6. ~c.entered /\ c.status = d.status /\ c.effects = d.effects
      BY <2>4, GuardUpdate
    <2>7. call.status \in [Transfers -> Status] /\ Top.before.status \in [Transfers -> Status]
      BY <2>0 DEF Storage
    <2>8. \A u \in Transfers : IF u = t THEN call.effects[u] = 0 ELSE Once(call, u)
      BY <1>2, <2>0, <2>1, <2>2, OthersOnce DEF Marks
    <2>9. \A u \in Transfers : Once(c, u)
      BY <2>5, <2>6, <2>7, <2>8 DEF Once
    <2>10. StorageInv(c, stack, Depth - 1)
      BY <2>0, <2>6, <2>9, GuardedEnds
    <2>11. /\ Top.before.status[t] \in {"Inactive", "Active", "Passed"}
           /\ call.status = [Top.before.status EXCEPT ![t] = "Executed"]
      BY <1>2, <2>1, <2>2, TopFacts DEF FrameInv
    <2>12. \A u \in Transfers : Leads(Committed.status[u], c.status[u])
      <3> SUFFICES ASSUME NEW u \in Transfers PROVE Leads(Committed.status[u], c.status[u])
        OBVIOUS
      <3>1. Leads(Committed.status[u], Top.before.status[u]) /\ Committed.status[u] \in Status
        BY TopFacts
      <3>2. CASE u = t
        <4>1. c.status[u] = "Passed"
          BY <2>5, <2>6, <2>7, <3>2
        <4> QED  BY <2>11, <3>1, <3>2, <4>1 DEF Leads, Status
      <3>3. CASE u # t
        <4>1. c.status[u] = Top.before.status[u]
          BY <2>5, <2>6, <2>7, <2>11, <3>3
        <4> QED  BY <3>1, <4>1
      <3> QED  BY <3>2, <3>3
    <2>13. Finish(c)
      BY <1>2, <2>1, <2>2, <2>3, <2>4 DEF HandlerReverts, Restored
    <2> QED  BY <2>10, <2>12, <2>13, FinishSound
  <1> QED  BY <1>1, <1>2
-----------------------------------------------------------------------------
LEMMA InitSound == Init => CallsIInv
  <1> SUFFICES ASSUME Init PROVE CallsIInv
    OBVIOUS
  <1>1. chain = NewStorage /\ stack = <<>> /\ Len(stack) = 0
    BY DEF Init
  <1>2. NewStorage \in Storage
    BY DEF NewStorage, Storage, Status
  <1>3. CallsTypeOK
    BY <1>1, <1>2 DEF CallsTypeOK
  <1>4. StorageInv(NewStorage, stack, 0)
    BY DEF StorageInv, NewStorage, Once
  <1>5. StorageAt(0) = chain
    BY <1>1 DEF StorageAt
  <1>6. \A t \in Transfers : Leads(Committed.status[t], chain.status[t])
    BY <1>1, <1>2, <1>5, LeadsTo DEF Committed, Storage
  <1> QED  BY <1>1, <1>3, <1>4, <1>5, <1>6 DEF CallsIInv

LEMMA StepSound ==
  ASSUME CallsIInv, [Next]_vars
  PROVE  CallsIInv' /\ Forward
  <1>1. ASSUME NEW t \in Transfers, NEW relayer \in Relayers, voteProposal(relayer, t)
        PROVE  CallsIInv' /\ Forward
    BY <1>1, VoteSound
  <1>2. CASE Return
    BY <1>2, ExecuteReturnsSound, SignaturesReturnSound, DepositReturnsSound,
       HandlerRevertsSound DEF Return
  <1>3. CASE UNCHANGED vars
    <2>1. stack' = stack /\ chain' = chain
      BY <1>3 DEF vars
    <2>2. CallsIInv'
      BY <2>1 DEF CallsIInv, CallsTypeOK, StorageAt, Committed, Storage, StorageInv
    <2>3. Committed' = Committed
      BY <2>1 DEF Committed, StorageAt
    <2>4. StorageAt(0) \in Storage
      BY StackFacts, FrameType DEF CallsIInv
    <2> QED  BY <2>2, <2>3, <2>4, LeadsTo DEF Forward, Committed, Storage
  <1> QED  BY <1>1, <1>2, <1>3, OtherCalls DEF Next, Call

(* Types and guard bookkeeping hold for all stacks of calls of every depth. *)
THEOREM CallsInvariance == Spec => []CallsIInv
  <1>1. CallsIInv /\ [Next]_vars => CallsIInv'
    BY StepSound
  <1> QED  BY <1>1, InitSound, PTL DEF Spec

CommittedInv ==
    /\ Committed \in Storage /\ ~Committed.entered
    /\ \A t \in Transfers : Once(Committed, t)

LEMMA CommittedFacts == CallsIInv => CommittedInv
  <1> SUFFICES ASSUME CallsIInv PROVE CommittedInv
    OBVIOUS
  <1>1. Depth \in Nat /\ StorageAt(0) \in Storage
    BY StackFacts, FrameType DEF CallsIInv
  <1>2. StorageInv(Committed, stack, 0)
    BY <1>1 DEF CallsIInv, Committed, Depth
  <1> QED  BY <1>1, <1>2 DEF StorageInv, Committed, CommittedInv

(* Whatever calls come back into the bridge, between transactions each      *)
(* proposal's handler has taken effect once if it is Executed, else never.  *)
THEOREM EffectsSettle == Spec => []SettledEffects
  <1>1. CallsIInv => SettledEffects
    BY CommittedFacts DEF SettledEffects, CommittedInv
  <1> QED  BY <1>1, CallsInvariance, PTL

(* The reentrancy guard of the bridge is free between transactions.         *)
THEOREM GuardIsReleased == Spec => []GuardReleased
  <1>1. CallsIInv => GuardReleased
    BY CommittedFacts DEF GuardReleased, CommittedInv
  <1> QED  BY <1>1, CallsInvariance, PTL

LEMMA LifecycleStep ==
  ASSUME CommittedInv, CommittedInv', Forward, NEW t \in Transfers
  PROVE  Lifecycle(t)!Next \/ UNCHANGED Lifecycle(t)!vars
  <1> DEFINE from == Committed.status[t]
             to == Committed'.status[t]
             n == Committed.effects[t]
             m == Committed'.effects[t]
  <1>1. /\ from \in Status /\ to \in Status /\ Leads(from, to)
        /\ n = IF from = "Executed" THEN 1 ELSE 0
        /\ m = IF to = "Executed" THEN 1 ELSE 0
    BY DEF Forward, CommittedInv, Storage, Once
  <1> DEFINE before == [u \in {t} |-> DecisionOf[from]]
             after == [u \in {t} |-> DecisionOf[to]]
             done == [u \in {t} |-> n]
             now == [u \in {t} |-> m]
  <1>2. \/ before = after /\ done = now
        \/ before[t] = "Open" /\ after = [before EXCEPT ![t] = "Approved"] /\ done = now
        \/ /\ before[t] \in {"Open", "Approved"} /\ done[t] = 0
           /\ after = [before EXCEPT ![t] = "Released"] /\ now = [done EXCEPT ![t] = 1]
        \/ /\ before[t] \in {"Open", "Approved"} /\ done[t] = 0
           /\ after = [before EXCEPT ![t] = "Rejected"] /\ done = now
    <2>1. DecisionOf[from] = DecisionOf[to] /\ n = m => before = after /\ done = now
      OBVIOUS
    <2>2. n = m => done = now
      OBVIOUS
    <2> HIDE DEF from, to, n, m
    <2>3. before[t] = DecisionOf[from] /\ done[t] = n
      OBVIOUS
    <2>4. CASE from \in {"Inactive", "Active", "Passed"} /\ to = "Executed"
      <3>1. DecisionOf[from] \in {"Open", "Approved"} /\ DecisionOf[to] = "Released" /\ n = 0 /\ m = 1
        BY <1>1, <2>4 DEF DecisionOf
      <3> QED  BY <2>3, <3>1
    <2>5. CASE from \in {"Inactive", "Active", "Passed"} /\ to = "Cancelled"
      <3>1. DecisionOf[from] \in {"Open", "Approved"} /\ DecisionOf[to] = "Rejected" /\ n = 0 /\ m = 0
        BY <1>1, <2>5 DEF DecisionOf
      <3> QED  BY <2>2, <2>3, <3>1
    <2>6. CASE from \in {"Inactive", "Active"} /\ to = "Passed"
      <3>1. DecisionOf[from] = "Open" /\ DecisionOf[to] = "Approved" /\ n = 0 /\ m = 0
        BY <1>1, <2>6 DEF DecisionOf
      <3> QED  BY <2>2, <2>3, <3>1
    <2>7. CASE from \in {"Inactive", "Active"} /\ to \in {"Inactive", "Active"}
      BY <1>1, <2>1, <2>7 DEF DecisionOf
    <2>8. CASE from = to
      BY <1>1, <2>1, <2>8
    <2> QED  BY <1>1, <2>4, <2>5, <2>6, <2>7, <2>8 DEF Leads, Status
  <1> QED  BY <1>2 DEF Lifecycle!Next, Lifecycle!vars, Lifecycle!Approve, Lifecycle!Release,
                       Lifecycle!Reject

(* From one transaction to the next, proposals make steps of their life     *)
(* cycle only: what is decided stays decided.                               *)
THEOREM CallsKeepLifecycle == Spec => AtomicLifecycle
  <1>1. Init => \A t \in Transfers : Lifecycle(t)!Init
    BY DEF Init, NewStorage, Committed, StorageAt, Lifecycle!Init, DecisionOf
  <1>2. CallsIInv /\ CommittedInv /\ CommittedInv' /\ [Next]_vars =>
           [\A t \in Transfers : Lifecycle(t)!Next \/ UNCHANGED Lifecycle(t)!vars]_vars
    BY StepSound, LifecycleStep
  <1> QED  BY <1>1, <1>2, CommittedFacts, CallsInvariance, PTL DEF Spec, AtomicLifecycle
-----------------------------------------------------------------------------
(* The nonces of deposits. *)

SameNonces(c, d) == d.events = c.events /\ d.depositCount = c.depositCount

(* NoncesInv looks at the first calls of the stack only, and of the storage *)
(* at the events and the count.                                             *)
LEMMA NoncesCopied ==
  ASSUME NEW c, NEW d, SameNonces(c, d), NEW i \in Nat, NEW F, NEW G,
         \A j \in 1..i : F[j] = G[j], NoncesInv(c, F, i)
  PROVE  NoncesInv(d, G, i)
  BY DEF NoncesInv, SameNonces

(* A guarded call takes no nonce. *)
LEMMA GuardedTakesNone ==
  ASSUME NEW c, NEW F, NEW i \in Nat, Guarded(F[i + 1])
  PROVE  NoncesInv(c, F, i) <=> NoncesInv(c, F, i + 1)
  <1>1. {j \in 1..i : ~Guarded(F[j])} = {j \in 1..(i + 1) : ~Guarded(F[j])}
    <2>1. \A j \in 1..(i + 1) : j \in 1..i \/ j = i + 1
      OBVIOUS
    <2>2. 1..i \subseteq 1..(i + 1)
      OBVIOUS
    <2> QED  BY <2>1, <2>2
  <1> QED  BY <1>1 DEF NoncesInv

LEMMA NoncesOfParts ==
  ASSUME NEW c \in Storage
  PROVE  /\ \A t \in Transfers : \A s : SameNonces(c, WithStatus(c, t, s))
         /\ \A t \in Transfers : SameNonces(c, WithEffect(c, t))
         /\ \A b : SameNonces(c, [c EXCEPT !.entered = b])
         /\ \A v : SameNonces(c, [c EXCEPT !.votes = v])
  BY DEF SameNonces, WithStatus, WithEffect, Storage

LEMMA NoncesSame ==
  ASSUME NEW c, NEW d, NEW e, SameNonces(c, d), SameNonces(d, e)
  PROVE  SameNonces(c, c) /\ SameNonces(c, e)
  BY DEF SameNonces

LEMMA ExecutingNonces ==
  ASSUME NEW c \in Storage, NEW t \in Transfers
  PROVE  SameNonces(c, Executing(c, t))
  BY DEF SameNonces, Executing, WithStatus, Storage

(* The shapes of a step again: a call is added to the stack, ...            *)
LEMMA NoncesPushed ==
  ASSUME CallsTypeOK, NoncesIInv, NEW fn, NEW subject, NEW c, CallHandler(fn, subject, c),
         \A F : (/\ \A j \in 1..Depth : F[j] = stack[j]
                /\ F[Depth + 1] = [fn |-> fn, subject |-> subject, before |-> chain, calling |-> c])
               => NoncesInv(c, F, Depth + 1)
  PROVE  NoncesIInv'
  <1>0. Depth \in Nat /\ stack \in Seq(Frame) /\ StorageAt(Depth) = chain
    BY StackFacts DEF CallsTypeOK
  <1>n. PICK n \in Nat : n = Depth
    BY <1>0
  <1> DEFINE frame == [fn |-> fn, subject |-> subject, before |-> chain, calling |-> c]
  <1>1. chain' = c /\ stack' = Append(stack, frame) /\ frame.before = chain /\ frame.calling = c
    BY DEF CallHandler
  <1> HIDE DEF frame
  <1>2. /\ Len(stack') = n + 1 /\ stack'[n + 1] = frame
        /\ \A j \in 1..n : stack'[j] = stack[j]
    BY <1>n, <1>0, <1>1 DEF Depth
  <1>3. NoncesInv(c, stack', n + 1)
    BY <1>n, <1>2 DEF frame
  <1>4. /\ \A i \in 0..n : StorageAt(i)' = StorageAt(i)
        /\ StorageAt(n + 1)' = c
    BY <1>n, <1>0, <1>1, <1>2 DEF StorageAt, Depth
  <1>5. ASSUME NEW i \in 0..n + 1 PROVE NoncesInv(StorageAt(i)', stack', i)
    <2>1. CASE i = n + 1
      BY <1>3, <1>4, <2>1
    <2>2. CASE i \in 0..n
      <3>1. NoncesInv(StorageAt(i), stack, i) /\ i \in Nat
        BY <1>n, <2>2 DEF NoncesIInv, Depth
      <3>2. \A j \in 1..i : stack[j] = stack'[j]
        BY <1>2, <2>2
      <3> QED  BY <1>4, <2>2, <3>1, <3>2, NoncesCopied DEF SameNonces
    <2> QED  BY <2>1, <2>2
  <1>6. ASSUME NEW i \in 1..n + 1 PROVE NoncesInv(stack'[i].calling, stack', i)
    <2>1. CASE i = n + 1
      BY <1>1, <1>2, <1>3, <2>1
    <2>2. CASE i \in 1..n
      <3>1. NoncesInv(stack[i].calling, stack, i) /\ i \in Nat
        BY <1>n, <2>2 DEF NoncesIInv, Depth
      <3>2. \A j \in 1..i : stack[j] = stack'[j]
        BY <1>2, <2>2
      <3> QED  BY <1>2, <2>2, <3>1, <3>2, NoncesCopied DEF SameNonces
    <2> QED  BY <2>1, <2>2
  <1> QED  BY <1>2, <1>5, <1>6 DEF NoncesIInv

(* ... or the storage after the first n calls is replaced. *)
LEMMA NoncesReplaced ==
  ASSUME CallsTypeOK, NoncesIInv, NEW n \in 0..Depth, NEW c,
         chain' = c, Len(stack') = n, \A j \in 1..n : stack'[j] = stack[j],
         NoncesInv(c, stack, n)
  PROVE  NoncesIInv'
  <1>0. Depth \in Nat /\ n \in Nat /\ n <= Depth
    BY StackFacts
  <1>1. /\ \A i \in 0..n : i # n => StorageAt(i)' = StorageAt(i)
        /\ StorageAt(n)' = c
    BY <1>0 DEF StorageAt, Depth
  <1>2. ASSUME NEW d, NEW i \in 0..n, NoncesInv(d, stack, i) PROVE NoncesInv(d, stack', i)
    <2>1. i \in Nat /\ \A j \in 1..i : stack[j] = stack'[j]
      BY <1>0
    <2> QED  BY <1>2, <2>1, NoncesCopied DEF SameNonces
  <1>3. \A i \in 0..n : NoncesInv(StorageAt(i)', stack', i)
    BY <1>0, <1>1, <1>2 DEF NoncesIInv, Depth
  <1>4. \A i \in 1..n : NoncesInv(stack'[i].calling, stack', i)
    BY <1>0, <1>2 DEF NoncesIInv, Depth
  <1> QED  BY <1>3, <1>4 DEF NoncesIInv

(* What the topmost call knows about the nonces. *)
LEMMA NoncesOnTop ==
  ASSUME CallsTypeOK, NoncesIInv
  PROVE  /\ NoncesInv(chain, stack, Depth)
         /\ stack # <<>> => /\ NoncesInv(Top.before, stack, Depth - 1)
                            /\ NoncesInv(Top.calling, stack, Depth)
  BY StackFacts DEF NoncesIInv, Depth

(* A guarded call. *)
LEMMA NoncesGuardedCall ==
  ASSUME CallsTypeOK, NoncesIInv, NEW fn \in {"execute", "try", "signatures"}, NEW subject, NEW c,
         CallHandler(fn, subject, c), SameNonces(chain, c)
  PROVE  NoncesIInv'
  <1>1. Depth \in Nat /\ NoncesInv(chain, stack, Depth)
    BY StackFacts, NoncesOnTop
  <1>2. ASSUME NEW F, \A j \in 1..Depth : F[j] = stack[j],
               F[Depth + 1] = [fn |-> fn, subject |-> subject, before |-> chain, calling |-> c]
        PROVE  NoncesInv(c, F, Depth + 1)
    <2>1. NoncesInv(c, F, Depth)
      BY <1>1, <1>2, NoncesCopied
    <2>2. Guarded(F[Depth + 1])
      BY <1>2 DEF Guarded
    <2> QED  BY <1>1, <2>1, <2>2, GuardedTakesNone
  <1> QED  BY <1>2, NoncesPushed

(* A deposit takes the next nonce. *)
LEMMA NoncesDeposit ==
  ASSUME CallsTypeOK, NoncesIInv, deposit
  PROVE  NoncesIInv'
  <1> DEFINE c == NonceTaken(chain)
             n == chain.depositCount + 1
  <1>1. /\ Depth \in Nat /\ NoncesInv(chain, stack, Depth)
        /\ chain.depositCount \in Nat /\ c.depositCount = n /\ c.events = chain.events
    BY StackFacts, NoncesOnTop DEF NonceTaken, Storage
  <1>2. CallHandler("deposit", n, c)
    BY DEF deposit
  <1> HIDE DEF c, n
  <1>3. ASSUME NEW F, \A j \in 1..Depth : F[j] = stack[j],
               F[Depth + 1] = [fn |-> "deposit", subject |-> n, before |-> chain, calling |-> c]
        PROVE  NoncesInv(c, F, Depth + 1)
    <2> DEFINE W == {j \in 1..Depth : ~Guarded(stack[j])}
               V == {j \in 1..Depth + 1 : ~Guarded(F[j])}
               out == DOMAIN chain.events
    <2>1. V = W \union {Depth + 1} /\ \A j \in W : F[j] = stack[j]
      <3>1. ~Guarded(F[Depth + 1])
        BY <1>3 DEF Guarded
      <3> QED  BY <1>1, <1>3, <3>1
    <2>2. F[Depth + 1].subject = n /\ n \in 1..n /\ 1..n = 1..chain.depositCount \union {n}
          /\ n \notin 1..chain.depositCount
      BY <1>1, <1>3 DEF n
    <2>3. /\ \A m \in 1..chain.depositCount :
                (\E p \in out : chain.events[p] = m) \/ \E j \in W : stack[j].subject = m
          /\ \A p \in out : chain.events[p] \in 1..chain.depositCount
          /\ \A p, q \in out : chain.events[p] = chain.events[q] => p = q
          /\ \A j \in W : /\ stack[j].subject \in 1..chain.depositCount
                          /\ \A p \in out : chain.events[p] # stack[j].subject
          /\ \A j, k \in W : stack[j].subject = stack[k].subject => j = k
      BY <1>1 DEF NoncesInv
    <2> HIDE DEF V, W, out
    <2>4. \A m \in 1..n : (\E p \in out : c.events[p] = m) \/ \E j \in V : F[j].subject = m
      BY <1>1, <2>1, <2>2, <2>3
    <2>5. \A j \in V : F[j].subject \in 1..n /\ \A p \in out : c.events[p] # F[j].subject
      BY <1>1, <2>1, <2>2, <2>3
    <2>6. \A j, k \in V : F[j].subject = F[k].subject => j = k
      BY <2>1, <2>2, <2>3
    <2>7. \A p \in out : c.events[p] \in 1..n
      BY <1>1, <2>2, <2>3
    <2> QED  BY <1>1, <2>3, <2>4, <2>5, <2>6, <2>7 DEF NoncesInv, V, out
  <1> QED  BY <1>2, <1>3, NoncesPushed

(* Its event gives that nonce away. *)
LEMMA NoncesDepositReturns ==
  ASSUME CallsTypeOK, stack # <<>>, NoncesIInv, DepositReturns
  PROVE  NoncesIInv'
  <1> DEFINE n == Top.subject
             d == Depth - 1
             c == [chain EXCEPT !.events = Append(chain.events, n)]
  <1>1. /\ Depth \in Nat /\ Depth >= 1 /\ Top = stack[Depth] /\ Top \in Frame
        /\ Top.fn = "deposit" /\ chain \in Storage
    BY StackFacts DEF DepositReturns
  <1>2. d \in Nat /\ Depth = d + 1 /\ d \in 0..Depth /\ n \in Nat
    BY <1>1, FrameType DEF Guarded
  <1>3. chain.events \in Seq(Nat) /\ chain.depositCount \in Nat
    BY <1>1 DEF Storage
  <1>4. c.events = Append(chain.events, n) /\ c.depositCount = chain.depositCount
    BY <1>1 DEF Storage
  <1>5. NoncesInv(c, stack, d)
    <2> DEFINE W == {j \in 1..Depth : ~Guarded(stack[j])}
               V == {j \in 1..d : ~Guarded(stack[j])}
               out == DOMAIN chain.events
               last == Len(chain.events) + 1
    <2>1. W = V \union {Depth} /\ Depth \notin V
      <3>1. ~Guarded(stack[Depth])
        BY <1>1 DEF Guarded
      <3> QED  BY <1>2, <3>1
    <2>2. /\ \A m \in 1..chain.depositCount :
                (\E p \in out : chain.events[p] = m) \/ \E j \in W : stack[j].subject = m
          /\ \A p \in out : chain.events[p] \in 1..chain.depositCount
          /\ \A p, q \in out : chain.events[p] = chain.events[q] => p = q
          /\ \A j \in W : /\ stack[j].subject \in 1..chain.depositCount
                          /\ \A p \in out : chain.events[p] # stack[j].subject
          /\ \A j, k \in W : stack[j].subject = stack[k].subject => j = k
      BY NoncesOnTop DEF NoncesInv
    <2>3. /\ DOMAIN c.events = out \union {last} /\ last \notin out
          /\ \A p \in out : c.events[p] = chain.events[p]
          /\ c.events[last] = n
      <3> DEFINE e == chain.events
      <3>1. e \in Seq(Nat) /\ n \in Nat
        BY <1>2, <1>3
      <3> HIDE DEF e, n
      <3>2. /\ DOMAIN Append(e, n) = DOMAIN e \union {Len(e) + 1} /\ Len(e) + 1 \notin DOMAIN e
            /\ \A p \in DOMAIN e : Append(e, n)[p] = e[p]
            /\ Append(e, n)[Len(e) + 1] = n
        BY <3>1
      <3> QED  BY <1>4, <3>2 DEF e
    <2>4. stack[Depth].subject = n
      BY <1>1
    <2> HIDE DEF V, W, out, last, c, d, n
    <2>5. \A m \in 1..c.depositCount :
             (\E p \in DOMAIN c.events : c.events[p] = m) \/ \E j \in V : stack[j].subject = m
      BY <1>4, <2>1, <2>2, <2>3, <2>4
    <2>6. \A p \in DOMAIN c.events : c.events[p] \in 1..c.depositCount
      BY <1>4, <2>1, <2>2, <2>3, <2>4
    <2>7. \A p, q \in DOMAIN c.events : c.events[p] = c.events[q] => p = q
      BY <2>1, <2>2, <2>3, <2>4
    <2>8. \A j \in V : /\ stack[j].subject \in 1..c.depositCount
                      /\ \A p \in DOMAIN c.events : c.events[p] # stack[j].subject
      BY <1>4, <2>1, <2>2, <2>3, <2>4
    <2> QED  BY <2>1, <2>2, <2>5, <2>6, <2>7, <2>8 DEF NoncesInv, V
  <1>6. chain' = c /\ Len(stack') = d /\ \A j \in 1..d : stack'[j] = stack[j]
    BY BelowFacts DEF DepositReturns, Finish
  <1> HIDE DEF c, d
  <1> QED  BY <1>2, <1>5, <1>6, NoncesReplaced

(* A call that ends without an event. *)
LEMMA NoncesFinish ==
  ASSUME CallsTypeOK, stack # <<>>, NoncesIInv, NEW c, Finish(c),
         \/ NoncesInv(c, stack, Depth - 1)
         \/ Guarded(Top) /\ SameNonces(chain, c)
         \/ Guarded(Top) /\ SameNonces(Top.calling, c)
  PROVE  NoncesIInv'
  <1>1. /\ Depth \in Nat /\ Depth >= 1 /\ Top = stack[Depth] /\ Depth - 1 \in 0..Depth
        /\ Depth - 1 \in Nat /\ (Depth - 1) + 1 = Depth
    BY StackFacts
  <1>2. NoncesInv(chain, stack, Depth) /\ NoncesInv(Top.calling, stack, Depth)
    BY NoncesOnTop
  <1>3. ASSUME Guarded(Top), NEW d, NoncesInv(d, stack, Depth), SameNonces(d, c)
        PROVE  NoncesInv(c, stack, Depth - 1)
    <2>1. NoncesInv(c, stack, Depth)
      BY <1>1, <1>3, NoncesCopied
    <2> QED  BY <1>1, <1>3, <2>1, GuardedTakesNone
  <1>4. NoncesInv(c, stack, Depth - 1)
    BY <1>2, <1>3
  <1>5. chain' = c /\ Len(stack') = Depth - 1 /\ \A j \in 1..Depth - 1 : stack'[j] = stack[j]
    BY BelowFacts DEF Finish
  <1> QED  BY <1>1, <1>4, <1>5, NoncesReplaced

(* A call that is over in one step. *)
LEMMA NoncesUpdate ==
  ASSUME CallsTypeOK, NoncesIInv, NEW c, Update(c), SameNonces(chain, c)
  PROVE  NoncesIInv'
  <1>1. /\ Depth \in Nat /\ Depth \in 0..Depth /\ NoncesInv(chain, stack, Depth)
        /\ chain' = c /\ stack' = stack /\ Len(stack') = Depth
    BY StackFacts, NoncesOnTop DEF Update, Depth
  <1>2. NoncesInv(c, stack, Depth)
    BY <1>1, NoncesCopied
  <1> QED  BY <1>1, <1>2, NoncesReplaced

LEMMA NoncesVote ==
  ASSUME CallsTypeOK, NoncesIInv, NEW relayer \in Relayers, NEW t \in Transfers,
         voteProposal(relayer, t)
  PROVE  NoncesIInv'
  <1>1. chain \in Storage /\ Voted(relayer, t) \in Storage /\ SameNonces(chain, Voted(relayer, t))
    BY StackFacts, VotedSound, NoncesOfParts DEF Voted
  <1>2. ASSUME NEW c \in Storage, SameNonces(chain, c)
        PROVE  /\ \A s : SameNonces(chain, WithStatus(c, t, s))
               /\ SameNonces(chain, Executing(c, t))
    BY <1>2, NoncesOfParts, NoncesSame, ExecutingNonces
  <1>3. /\ SameNonces(chain, chain)
        /\ \A c \in {chain, Voted(relayer, t)} :
              /\ \A s : SameNonces(chain, WithStatus(c, t, s))
              /\ SameNonces(chain, Executing(c, t))
    BY <1>1, <1>2 DEF SameNonces
  <1>4. \/ \E fn \in {"execute", "try"}, c \in {chain, Voted(relayer, t)} :
             CallHandler(fn, t, Executing(c, t))
        \/ \E c \in {chain, Voted(relayer, t)}, s \in {"Active", "Cancelled"} :
             Update(WithStatus(c, t, s))
    BY DEF voteProposal
  <1> QED  BY <1>3, <1>4, NoncesGuardedCall, NoncesUpdate

LEMMA NoncesCall ==
  ASSUME CallsTypeOK, NoncesIInv, Call
  PROVE  NoncesIInv'
  <1>1. chain \in Storage
    BY StackFacts
  <1>2. ASSUME NEW t \in Transfers, NEW b \in BOOLEAN, executeProposal(t, b) PROVE NoncesIInv'
    <2>1. PICK fn \in {"execute", "try"} : CallHandler(fn, t, Executing(chain, t))
      BY <1>2 DEF executeProposal
    <2> QED  BY <1>1, <2>1, ExecutingNonces, NoncesGuardedCall
  <1>3. ASSUME NEW t \in Transfers, voteProposals(t) PROVE NoncesIInv'
    <2>1. CallHandler("signatures", t, [chain EXCEPT !.entered = TRUE])
      BY <1>3 DEF voteProposals
    <2> QED  BY <1>1, <2>1, NoncesOfParts, NoncesGuardedCall
  <1>4. ASSUME NEW t \in Transfers, cancelProposal(t) PROVE NoncesIInv'
    BY <1>1, <1>4, NoncesOfParts, NoncesUpdate DEF cancelProposal
  <1> QED  BY <1>2, <1>3, <1>4, NoncesVote, NoncesDeposit DEF Call

LEMMA NoncesReturn ==
  ASSUME CallsTypeOK, NoncesIInv, Return
  PROVE  NoncesIInv'
  <1>1. /\ stack # <<>> /\ chain \in Storage /\ Top \in Frame
        /\ Top.before \in Storage /\ Top.calling \in Storage
        /\ NoncesInv(Top.before, stack, Depth - 1)
    BY StackFacts, FrameType, NoncesOnTop DEF Return
  <1>2. ASSUME ExecuteReturns PROVE NoncesIInv'
    <2>1. Guarded(Top) /\ Top.subject \in Transfers
      BY <1>1, <1>2, FrameType DEF Guarded, ExecuteReturns
    <2>2. SameNonces(chain, Exit(WithEffect(chain, Top.subject)))
      <3> DEFINE d == WithEffect(chain, Top.subject)
      <3>1. d \in Storage /\ SameNonces(chain, d)
        BY <1>1, <2>1, EffectUpdate, NoncesOfParts
      <3> HIDE DEF d
      <3>2. SameNonces(d, Exit(d))
        BY <3>1, NoncesOfParts DEF Exit
      <3>3. SameNonces(chain, Exit(d))
        BY <3>1, <3>2, NoncesSame
      <3> QED  BY <3>3 DEF d
    <2> QED  BY <1>1, <1>2, <2>1, <2>2, NoncesFinish DEF ExecuteReturns
  <1>3. ASSUME SignaturesReturn PROVE NoncesIInv'
    <2>1. Guarded(Top) /\ Top.subject \in Transfers /\ "Executed" \in Status
      BY <1>1, <1>3, FrameType DEF Guarded, SignaturesReturn, Status
    <2>2. SameNonces(chain, Exit(WithEffect(WithStatus(chain, Top.subject, "Executed"), Top.subject)))
      <3> DEFINE c == WithStatus(chain, Top.subject, "Executed")
                 d == WithEffect(c, Top.subject)
      <3>1. c \in Storage /\ SameNonces(chain, c)
        BY <1>1, <2>1, StatusUpdate, NoncesOfParts
      <3> HIDE DEF c
      <3>2. d \in Storage /\ SameNonces(c, d)
        BY <2>1, <3>1, EffectUpdate, NoncesOfParts
      <3> HIDE DEF d
      <3>3. SameNonces(d, Exit(d))
        BY <3>2, NoncesOfParts DEF Exit
      <3>4. SameNonces(chain, Exit(d))
        BY <3>1, <3>2, <3>3, NoncesSame
      <3> QED  BY <3>4 DEF c, d
    <2> QED  BY <1>1, <1>3, <2>1, <2>2, NoncesFinish DEF SignaturesReturn
  <1>4. ASSUME HandlerReverts PROVE NoncesIInv'
    <2>1. CASE Top.fn # "try"
      BY <1>1, <1>4, <2>1, NoncesFinish DEF HandlerReverts
    <2>2. CASE Top.fn = "try"
      <3>1. Guarded(Top) /\ Top.subject \in Transfers /\ "Passed" \in Status
        BY <1>1, <2>2, FrameType DEF Guarded, Status
      <3>2. SameNonces(Top.calling, Restored(Top.calling, Top.subject))
        <4> DEFINE c == Top.calling
                   d == WithStatus(c, Top.subject, "Passed")
        <4>1. d \in Storage /\ SameNonces(c, d)
          BY <1>1, <3>1, StatusUpdate, NoncesOfParts
        <4> HIDE DEF d
        <4>2. SameNonces(d, Exit(d))
          BY <4>1, NoncesOfParts DEF Exit
        <4>3. SameNonces(c, Exit(d))
          BY <4>1, <4>2, NoncesSame
        <4> QED  BY <4>3 DEF d, Restored
      <3> QED  BY <1>1, <1>4, <2>2, <3>1, <3>2, NoncesFinish DEF HandlerReverts
    <2> QED  BY <2>1, <2>2
  <1> QED  BY <1>1, <1>2, <1>3, <1>4, NoncesDepositReturns DEF Return

LEMMA NoncesStart == Init => NoncesIInv
  <1> SUFFICES ASSUME Init PROVE NoncesIInv
    OBVIOUS
  <1>1. /\ chain.events = <<>> /\ chain.depositCount = 0
        /\ stack = <<>> /\ Len(stack) = 0 /\ StorageAt(0) = chain
    BY DEF Init, NewStorage, StorageAt
  <1>2. DOMAIN chain.events = {} /\ 1..0 = {}
    BY <1>1
  <1>3. NoncesInv(chain, stack, 0)
    BY <1>1, <1>2 DEF NoncesInv
  <1> QED  BY <1>1, <1>3 DEF NoncesIInv

(* Between transactions no deposit waits, so that the events are numbered   *)
(* without a gap or a repetition.                                           *)
LEMMA NumberedWhenCommitted ==
  ASSUME CallsTypeOK, NoncesIInv
  PROVE  NoncesComplete
  <1> DEFINE e == Committed.events
             n == Committed.depositCount
  <1>1. Depth \in Nat /\ Committed \in Storage /\ NoncesInv(Committed, stack, 0)
    BY StackFacts, FrameType DEF Committed, NoncesIInv, Depth
  <1>2. e \in Seq(Nat) /\ n \in Nat
    BY <1>1 DEF Storage
  <1>3. /\ \A m \in 1..n : \E p \in DOMAIN e : e[p] = m
        /\ \A p \in DOMAIN e : e[p] \in 1..n
        /\ \A p, q \in DOMAIN e : e[p] = e[q] => p = q
    <2>1. {j \in 1..0 : ~Guarded(stack[j])} = {}
      OBVIOUS
    <2> QED  BY <1>1, <2>1 DEF NoncesInv
  <1> HIDE DEF e, n
  <1>4. DOMAIN e = 1..Len(e) /\ Len(e) \in Nat
    BY <1>2
  <1>5. e \in Bijection(1..Len(e), 1..n)
    <2>1. e \in [1..Len(e) -> 1..n]
      BY <1>2, <1>3, <1>4
    <2> QED  BY <1>3, <1>4, <2>1 DEF Bijection, Injection, Surjection, IsInjective
  <1>6. Len(e) = n
    <2>1. ExistsBijection(1..Len(e), 1..n)
      BY <1>5 DEF ExistsBijection
    <2>2. Cardinality(1..n) = n
      BY <1>2, FS_Interval
    <2> QED  BY <1>4, <2>1, <2>2, FS_CountingElements
  <1>7. {e[i] : i \in DOMAIN e} = 1..n
    BY <1>3
  <1> QED  BY <1>6, <1>7 DEF NoncesComplete, IsNumbering, e, n

(* The inductive invariant of the nonces. *)
THEOREM NoncesInvariance == Spec => []NoncesIInv
  <1>1. CallsIInv /\ NoncesIInv /\ [Next]_vars => NoncesIInv'
    <2> SUFFICES ASSUME CallsTypeOK, NoncesIInv, [Next]_vars PROVE NoncesIInv'
      BY DEF CallsIInv
    <2>1. CASE UNCHANGED vars
      BY <2>1 DEF vars, NoncesIInv, StorageAt
    <2> QED  BY <2>1, NoncesCall, NoncesReturn DEF Next
  <1> QED  BY <1>1, NoncesStart, CallsInvariance, PTL DEF Spec

(* Whatever deposits are made inside others, and whatever reverts, between  *)
(* transactions the events carry every nonce up to the count once.          *)
THEOREM NoncesAreComplete == Spec => []NoncesComplete
  <1>1. CallsIInv /\ NoncesIInv => NoncesComplete
    BY NumberedWhenCommitted DEF CallsIInv
  <1> QED  BY <1>1, CallsInvariance, NoncesInvariance, PTL
=============================================================================
