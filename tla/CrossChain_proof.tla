--------------------------- MODULE CrossChain_proof ---------------------------
(***************************************************************************)
(* Proofs about CrossChain: a transfer is delivered once whatever becomes  *)
(* of the handlers, no value is created or lost between the chains, the    *)
(* chain of issue can pay what is under way to it, and the chains together *)
(* implement BridgedAsset.                                                 *)
(***************************************************************************)
EXTENDS CrossChain, FiniteSums_proof

LEMMA Asset ==
  /\ token \in Tokens /\ token \in Assets /\ resource \in Resources
  /\ users \in Holders /\ Handlers \subseteq Holders /\ users \notin Handlers
  /\ NoHandler \notin Handlers /\ NoToken \notin Tokens
  /\ relayerThreshold \in Nat \ {0}
  <1>1. Cardinality(Relayers) \in Nat
    BY CrossChainAssumption, FS_CardinalityType
  <1>2. relayerThreshold \in Nat \ {0}
    BY <1>1, CrossChainAssumption
  <1> QED  BY <1>2, CrossChainAssumption, AssetAssumption DEF Assets

(* Two quorums of relayers have a member in common. *)
LEMMA QuorumsMeet ==
  ASSUME NEW S \in SUBSET Relayers, NEW T \in SUBSET Relayers, S \intersect T = {},
         Enough(S), Enough(T)
  PROVE  FALSE
  <1>1. IsFiniteSet(S) /\ IsFiniteSet(T) /\ IsFiniteSet(S \union T)
    BY CrossChainAssumption, FS_Subset
  <1>2. Cardinality(S \union T) = Cardinality(S) + Cardinality(T)
    <2>1. Cardinality(S \union T) = Cardinality(S) + Cardinality(T) - Cardinality(S \intersect T)
      BY <1>1, FS_Union
    <2>2. Cardinality(S \intersect T) = 0
      BY FS_EmptySet
    <2> QED  BY <1>1, <2>1, <2>2, FS_CardinalityType
  <1>3. Cardinality(S \union T) <= Cardinality(Relayers)
    BY CrossChainAssumption, FS_Subset
  <1>4. Cardinality(S) \in Nat /\ Cardinality(T) \in Nat /\ Cardinality(Relayers) \in Nat
    BY <1>1, CrossChainAssumption, FS_CardinalityType
  <1> QED  BY <1>2, <1>3, <1>4, CrossChainAssumption DEF Enough

(* The ledger after a transfer of the token. *)
LEMMA MoveSound ==
  ASSUME NEW l \in Ledger, NEW from \in Holders, NEW to \in Holders, from # to,
         NEW n \in Nat, l[token][from] >= n
  PROVE  /\ Move(l, token, from, to, n) \in Ledger
         /\ Move(l, token, from, to, n)[token][from] = l[token][from] - n
         /\ Move(l, token, from, to, n)[token][to] = l[token][to] + n
         /\ \A y \in Holders \ {from, to} : Move(l, token, from, to, n)[token][y] = l[token][y]
  <1> DEFINE row == l[token]
             row1 == [row EXCEPT ![from] = row[from] - n]
             row2 == [row1 EXCEPT ![to] = row1[to] + n]
  <1>1. row \in [Holders -> Nat] /\ row[from] >= n
    BY Asset DEF Ledger
  <1>2. row1 \in [Holders -> Nat]
    <2> HIDE DEF row
    <2> QED  BY <1>1
  <1>3. /\ row2 \in [Holders -> Nat]
        /\ row2[from] = row[from] - n /\ row2[to] = row[to] + n
        /\ \A y \in Holders \ {from, to} : row2[y] = row[y]
    <2> HIDE DEF row
    <2>1. row1[from] = row[from] - n /\ \A y \in Holders \ {from} : row1[y] = row[y]
      BY <1>1
    <2> HIDE DEF row1
    <2> QED  BY <1>1, <1>2, <2>1
  <1>4. Move(l, token, from, to, n) = [l EXCEPT ![token] = row2]
    BY Asset DEF Move, Ledger
  <1> HIDE DEF row2
  <1>5. [l EXCEPT ![token] = row2] \in Ledger /\ [l EXCEPT ![token] = row2][token] = row2
    BY <1>3, Asset DEF Ledger
  <1> QED  BY <1>3, <1>4, <1>5

(* The ledger after minting and burning the token. *)
LEMMA MintBurnSound ==
  ASSUME NEW l \in Ledger, NEW who \in Holders, NEW n \in Nat
  PROVE  /\ Minted(l, token, who, n) \in Ledger
         /\ Minted(l, token, who, n)[token][who] = l[token][who] + n
         /\ l[token][who] >= n => /\ Burned(l, token, who, n) \in Ledger
                                  /\ Burned(l, token, who, n)[token][who] = l[token][who] - n
  <1>1. l[token] \in [Holders -> Nat] /\ l[token][who] \in Nat
    BY Asset DEF Ledger
  <1>2. /\ Minted(l, token, who, n) = [l EXCEPT ![token] = [l[token] EXCEPT ![who] = l[token][who] + n]]
        /\ Burned(l, token, who, n) = [l EXCEPT ![token] = [l[token] EXCEPT ![who] = l[token][who] - n]]
    BY DEF Minted, Burned
  <1>3. [l[token] EXCEPT ![who] = l[token][who] + n] \in [Holders -> Nat]
    BY <1>1
  <1>4. l[token][who] >= n => [l[token] EXCEPT ![who] = l[token][who] - n] \in [Holders -> Nat]
    BY <1>1
  <1> QED  BY <1>1, <1>2, <1>3, <1>4, Asset DEF Ledger

LEMMA NotNative ==
  ASSUME NEW h \in HandlerState, h.isNative = {}, NEW x \in Tokens
  PROVE  x = token /\ Mode(h, x) # "native"
  BY CrossChainAssumption DEF Mode, HandlerState

(* A deposit takes its amount from the users, whatever the mode; unless the *)
(* token is burned, the handler that takes it has it afterwards.            *)
LEMMA TakenSound ==
  ASSUME CrossChainTypeOK, NeverNative, NEW t \in Transfers, NEW k \in Handlers,
         NEW o \in Taken(t, k)
  PROVE  /\ o.handler = store[t.from][k] /\ o.ledger \in Ledger
         /\ Outside(t.from) >= t.amount
         /\ o.ledger[token][users] = Outside(t.from) - t.amount
         /\ token \notin store[t.from][k].burnList =>
               /\ o.ledger[token][k] = ledger[t.from][token][k] + t.amount
               /\ \A j \in Handlers \ {k} : o.ledger[token][j] = ledger[t.from][token][j]
  <1> DEFINE h == store[t.from][k]
             l == ledger[t.from]
  <1>1. h \in HandlerState /\ h.isNative = {} /\ l \in Ledger /\ t.amount \in Nat
    BY CrossChainAssumption DEF CrossChainTypeOK, NeverNative
  <1>2. PICK x \in {h.tokenOf[resource]} \intersect h.whitelist :
          o \in IF Mode(h, x) = "burn" THEN burnERC20(h, l, x, users, t.amount)
                ELSE IF Mode(h, x) = "native" THEN depositETH(k, h, l, t.amount, 0)
                ELSE lockERC20(k, h, l, x, users, t.amount)
    BY DEF Taken, Take
  <1>3. x = token /\ Mode(h, x) # "native"
    <2>1. x \in Tokens
      BY <1>1, <1>2 DEF HandlerState
    <2> QED  BY <1>1, <2>1, NotNative
  <1> HIDE DEF h, l
  <1>4. CASE token \in h.burnList
    <2>1. o \in burnERC20(h, l, token, users, t.amount)
      BY <1>2, <1>3, <1>4 DEF Mode
    <2>2. /\ l[token][users] >= t.amount /\ o.handler = h
          /\ o.ledger = Burned(l, token, users, t.amount)
      BY <2>1 DEF burnERC20, When, Outcome
    <2>3. o.ledger \in Ledger /\ o.ledger[token][users] = l[token][users] - t.amount
      BY <1>1, <2>2, Asset, MintBurnSound
    <2> QED  BY <1>4, <2>2, <2>3 DEF Outside, h, l
  <1>5. CASE token \notin h.burnList
    <2>1. o \in lockERC20(k, h, l, token, users, t.amount)
      BY <1>2, <1>3, <1>5 DEF Mode
    <2>2. /\ l[token][users] >= t.amount /\ o.handler = h
          /\ o.ledger = Move(l, token, users, k, t.amount)
      BY <2>1 DEF lockERC20, When, Outcome
    <2>3. users # k /\ k \in Holders /\ users \in Holders /\ Handlers \subseteq Holders
          /\ users \notin Handlers
      BY Asset
    <2>4. /\ o.ledger \in Ledger /\ o.ledger[token][users] = l[token][users] - t.amount
          /\ o.ledger[token][k] = l[token][k] + t.amount
          /\ \A y \in Holders \ {users, k} : o.ledger[token][y] = l[token][y]
      BY <1>1, <2>2, <2>3, MoveSound
    <2> QED  BY <2>2, <2>3, <2>4 DEF Outside, h, l
  <1> QED  BY <1>4, <1>5

(* A release gives its amount to the users, whatever the mode; unless the   *)
(* token is minted, it comes from the handler.                              *)
LEMMA GivenSound ==
  ASSUME CrossChainTypeOK, NeverNative, NEW t \in Transfers, NEW k \in Handlers,
         NEW o \in Given(t, k)
  PROVE  /\ o.handler = store[t.to][k] /\ o.ledger \in Ledger
         /\ o.ledger[token][users] = Outside(t.to) + t.amount
         /\ token \notin store[t.to][k].burnList =>
               /\ o.ledger[token][k] = ledger[t.to][token][k] - t.amount
               /\ \A j \in Handlers \ {k} : o.ledger[token][j] = ledger[t.to][token][j]
  <1> DEFINE h == store[t.to][k]
             l == ledger[t.to]
  <1>1. h \in HandlerState /\ h.isNative = {} /\ l \in Ledger /\ t.amount \in Nat
    BY CrossChainAssumption DEF CrossChainTypeOK, NeverNative
  <1>2. PICK x \in {h.tokenOf[resource]} \intersect h.whitelist :
          o \in IF Mode(h, x) = "burn" THEN mintERC20(h, l, x, users, t.amount)
                ELSE IF Mode(h, x) = "native" THEN withdrawETH(k, h, l, users, t.amount)
                ELSE releaseERC20(k, h, l, x, users, t.amount)
    BY DEF Given, Give
  <1>3. x = token /\ Mode(h, x) # "native"
    <2>1. x \in Tokens
      BY <1>1, <1>2 DEF HandlerState
    <2> QED  BY <1>1, <2>1, NotNative
  <1> HIDE DEF h, l
  <1>4. CASE token \in h.burnList
    <2>1. o \in mintERC20(h, l, token, users, t.amount)
      BY <1>2, <1>3, <1>4 DEF Mode
    <2>2. o.handler = h /\ o.ledger = Minted(l, token, users, t.amount)
      BY <2>1 DEF mintERC20, Outcome
    <2>3. o.ledger \in Ledger /\ o.ledger[token][users] = l[token][users] + t.amount
      BY <1>1, <2>2, Asset, MintBurnSound
    <2> QED  BY <1>4, <2>2, <2>3 DEF Outside, h, l
  <1>5. CASE token \notin h.burnList
    <2>1. o \in releaseERC20(k, h, l, token, users, t.amount)
      BY <1>2, <1>3, <1>5 DEF Mode
    <2>2. /\ l[token][k] >= t.amount /\ o.handler = h
          /\ o.ledger = Move(l, token, k, users, t.amount)
      BY <2>1 DEF releaseERC20, When, Outcome
    <2>3. users # k /\ k \in Holders /\ users \in Holders /\ Handlers \subseteq Holders
          /\ users \notin Handlers
      BY Asset
    <2>4. /\ o.ledger \in Ledger /\ o.ledger[token][users] = l[token][users] + t.amount
          /\ o.ledger[token][k] = l[token][k] - t.amount
          /\ \A y \in Holders \ {users, k} : o.ledger[token][y] = l[token][y]
      BY <1>1, <2>2, <2>3, MoveSound
    <2> QED  BY <2>2, <2>3, <2>4 DEF Outside, h, l
  <1> QED  BY <1>4, <1>5

(* The tokens' part of the state after an outcome on c. *)
LEMMA OutcomeSound ==
  ASSUME CrossChainTypeOK, NeverNative, NEW c \in Chains, NEW k \in Handlers, NEW o,
         o.handler \in HandlerState, o.handler.isNative = {}, o.ledger \in Ledger,
         UseOutcome(c, k, o)
  PROVE  /\ store' \in [Chains -> [Handlers -> HandlerState]] /\ NeverNative'
         /\ ledger' \in [Chains -> Ledger]
         /\ OutsideOf' = [OutsideOf EXCEPT ![c] = o.ledger[token][users]]
  <1>1. /\ store \in [Chains -> [Handlers -> HandlerState]] /\ ledger \in [Chains -> Ledger]
        /\ store' = [store EXCEPT ![c] = [store[c] EXCEPT ![k] = o.handler]]
        /\ ledger' = [ledger EXCEPT ![c] = o.ledger]
    BY DEF CrossChainTypeOK, UseOutcome
  <1>2. [store[c] EXCEPT ![k] = o.handler] \in [Handlers -> HandlerState]
    BY <1>1
  <1>3. store' \in [Chains -> [Handlers -> HandlerState]] /\ ledger' \in [Chains -> Ledger]
    BY <1>1, <1>2
  <1>4. \A d \in Chains, j \in Handlers :
           store'[d][j] = IF d = c /\ j = k THEN o.handler ELSE store[d][j]
    BY <1>1
  <1>5. NeverNative'
    BY <1>4 DEF NeverNative
  <1>6. OutsideOf' = [d \in Chains |-> ledger'[d][token][users]]
    BY DEF OutsideOf, Outside
  <1>7. \A d \in Chains : ledger'[d] = IF d = c THEN o.ledger ELSE ledger[d]
    BY <1>1
  <1> QED  BY <1>3, <1>5, <1>6, <1>7 DEF OutsideOf, Outside

(* The part of the state that the proposals and relayers do not touch. *)
TokensOK ==
    /\ store \in [Chains -> [Handlers -> HandlerState]]
    /\ ledger \in [Chains -> Ledger]
    /\ withdrawn \in [Chains -> Nat]
    /\ NeverNative

RelayTypeOK ==
    /\ handlerOf \in [Chains -> Handlers \union {NoHandler}]
    /\ status \in [Proposals -> {"Inactive", "Active", "Passed", "Executed", "Cancelled"}]
    /\ votes \in [Proposals -> SUBSET Relayers]
    /\ sent \subseteq Transfers
    /\ acted \in [Transfers -> SUBSET Relayers]
    /\ signed \in [Transfers -> SUBSET Relayers]
    /\ replaced \subseteq Chains

LEMMA TwoParts == CrossChainTypeOK /\ NeverNative <=> TokensOK /\ RelayTypeOK
  BY DEF CrossChainTypeOK, TokensOK, RelayTypeOK

LEMMA TransferFacts ==
  ASSUME NEW t \in Transfers
  PROVE  /\ t.from \in Chains /\ t.to \in Chains /\ t.amount \in Nat
         /\ \A k \in Handlers : <<t, k>> \in Proposals
  BY CrossChainAssumption DEF Proposals

LEMMA InitChains == Init => CrossChainIInv
  <1> SUFFICES ASSUME Init PROVE CrossChainIInv
    OBVIOUS
  <1>1. NewHandler \in HandlerState /\ NewHandler.isNative = {}
    BY DEF NewHandler, HandlerState
  <1>2. \A c \in Chains : StartLedger(c) \in Ledger
    BY CrossChainAssumption DEF StartLedger, Ledger
  <1>3. TokensOK
    <2>1. /\ store \in [Chains -> [Handlers -> HandlerState]] /\ NeverNative
          /\ withdrawn \in [Chains -> Nat]
      BY <1>1 DEF Init, NeverNative
    <2>2. ledger \in [Chains -> Ledger]
      BY <1>2 DEF Init
    <2> QED  BY <2>1, <2>2 DEF TokensOK
  <1>4. RelayTypeOK
    BY DEF Init, RelayTypeOK
  <1>5. \A t \in Transfers, k \in Handlers :
           /\ status[<<t, k>>] = "Inactive" /\ votes[<<t, k>>] = {}
           /\ acted[t] = {} /\ signed[t] = {}
    BY TransferFacts DEF Init
  <1>6. RelayedInv
    BY <1>5 DEF RelayedInv, ActedInv, SupportInv, Init
  <1>7. DeliveredOnce
    BY <1>5 DEF DeliveredOnce, Executed
  <1> QED  BY <1>3, <1>4, <1>6, <1>7, TwoParts DEF CrossChainIInv

(* DeliveredOnce is a consequence of the rest: two proposals of a transfer  *)
(* that were both executed have disjoint voters, so one had signers.        *)
LEMMA OnceFromQuorums ==
  ASSUME RelayTypeOK, RelayedInv
  PROVE  DeliveredOnce
  <1> SUFFICES ASSUME NEW t \in Transfers, NEW j \in Handlers, NEW k \in Handlers,
                      Executed(t, j), Executed(t, k), j # k
               PROVE  t.to \in replaced /\ Enough(signed[t])
    BY DEF DeliveredOnce
  <1>1. /\ SupportInv(t, j) /\ SupportInv(t, k) /\ ActedInv(t)
        /\ <<t, j>> \in Proposals /\ <<t, k>> \in Proposals
    BY TransferFacts DEF RelayedInv
  <1>2. t.to \in replaced
    BY <1>1 DEF SupportInv, Executed
  <1>3. Enough(signed[t])
    <2> SUFFICES ASSUME ~Enough(signed[t]) PROVE FALSE
      OBVIOUS
    <2> DEFINE S == votes[<<t, j>>] \ signed[t]
               T == votes[<<t, k>>] \ signed[t]
    <2>1. Enough(S) /\ Enough(T)
      BY <1>1 DEF SupportInv, Executed
    <2>2. S \in SUBSET Relayers /\ T \in SUBSET Relayers
      BY <1>1 DEF RelayTypeOK
    <2>3. S \intersect T = {}
      BY <1>1 DEF ActedInv
    <2> HIDE DEF S, T
    <2> QED  BY <2>1, <2>2, <2>3, QuorumsMeet
  <1> QED  BY <1>2, <1>3

LEMMA VoteKeeps ==
  ASSUME RelayTypeOK, RelayedInv, NEW t \in Transfers, NEW r \in Relayers, voteProposal(r, t)
  PROVE  RelayTypeOK' /\ RelayedInv'
  <1> DEFINE k == handlerOf[t.to]
             p == <<t, k>>
             supporters == votes[p] \union {r}
  <1>1. /\ t \in sent /\ r \notin acted[t] /\ Open(p) /\ p \in Proposals
        /\ k \in Handlers
        /\ votes' = [votes EXCEPT ![p] = supporters]
        /\ acted' = [acted EXCEPT ![t] = acted[t] \union {r}]
        /\ UNCHANGED <<handlerOf, replaced, sent, signed>>
    BY TransferFacts DEF voteProposal, RelayTypeOK, config
  <1>2. PICK s \in {"Active", "Passed", "Executed"} :
          /\ status' = [status EXCEPT ![p] = s]
          /\ s \in {"Passed", "Executed"} => Enough(supporters)
    BY DEF voteProposal, Execute
  <1>3. supporters \subseteq Relayers
    BY <1>1 DEF RelayTypeOK
  <1>4. RelayTypeOK'
    BY <1>1, <1>2, <1>3 DEF RelayTypeOK
  <1>5. /\ ActedInv(t) /\ SupportInv(t, k) /\ supporters \intersect signed[t] = {}
        /\ supporters \ signed[t] = supporters
    BY <1>1 DEF RelayedInv, ActedInv, SupportInv, Open
  <1> HIDE DEF k, p, supporters
  <1>6. ASSUME NEW u \in Transfers PROVE ActedInv(u)'
    <2>1. ActedInv(u) /\ \A j \in Handlers : <<u, j>> \in Proposals
      BY TransferFacts DEF RelayedInv
    <2>2. \A j \in Handlers : votes'[<<u, j>>] = IF u = t /\ j = k THEN supporters ELSE votes[<<u, j>>]
      BY <1>1, <2>1 DEF RelayTypeOK, p
    <2>3. acted'[u] = IF u = t THEN acted[t] \union {r} ELSE acted[u]
      BY <1>1 DEF RelayTypeOK
    <2>4. supporters = votes[<<t, k>>] \union {r}
      BY DEF supporters, p
    <2> QED  BY <1>1, <2>1, <2>2, <2>3, <2>4 DEF ActedInv
  <1>7. ASSUME NEW u \in Transfers, NEW j \in Handlers PROVE SupportInv(u, j)'
    <2>1. SupportInv(u, j) /\ <<u, j>> \in Proposals
      BY TransferFacts DEF RelayedInv
    <2>2. /\ votes'[<<u, j>>] = IF u = t /\ j = k THEN supporters ELSE votes[<<u, j>>]
          /\ status'[<<u, j>>] = IF u = t /\ j = k THEN s ELSE status[<<u, j>>]
      BY <1>1, <1>2, <2>1 DEF RelayTypeOK, p
    <2>3. CASE u = t /\ j = k
      BY <1>1, <1>2, <1>5, <2>2, <2>3 DEF SupportInv, Enough, k
    <2>4. CASE ~(u = t /\ j = k)
      BY <1>1, <2>1, <2>2, <2>4 DEF SupportInv, Enough
    <2> QED  BY <2>3, <2>4
  <1> QED  BY <1>1, <1>4, <1>6, <1>7 DEF RelayedInv
(* Execution and cancellation change the status of one proposal.           *)
LEMMA StatusKeeps ==
  ASSUME RelayTypeOK, RelayedInv, NEW t \in Transfers, NEW k \in Handlers,
         \/ /\ status[<<t, k>>] = "Passed"
            /\ status' = [status EXCEPT ![<<t, k>>] = "Executed"]
         \/ /\ status[<<t, k>>] \in {"Active", "Passed"}
            /\ status' = [status EXCEPT ![<<t, k>>] = "Cancelled"],
         UNCHANGED <<handlerOf, replaced, votes, sent, acted, signed>>
  PROVE  RelayTypeOK' /\ RelayedInv'
  <1> DEFINE Becomes(s) ==
               /\ s \in {"Executed", "Cancelled"}
               /\ status[<<t, k>>] = "Passed" \/ (s = "Cancelled" /\ status[<<t, k>>] = "Active")
               /\ status' = [status EXCEPT ![<<t, k>>] = s]
  <1>a. Becomes("Executed") \/ Becomes("Cancelled")
    OBVIOUS
  <1>b. PICK s : Becomes(s)
    BY <1>a
  <1>0. /\ s \in {"Executed", "Cancelled"}
        /\ status[<<t, k>>] = "Passed" \/ (s = "Cancelled" /\ status[<<t, k>>] = "Active")
        /\ status' = [status EXCEPT ![<<t, k>>] = s]
    BY <1>b
  <1>1. <<t, k>> \in Proposals
    BY TransferFacts
  <1>2. RelayTypeOK'
    BY <1>0, <1>1 DEF RelayTypeOK
  <1>3. ASSUME NEW u \in Transfers, NEW j \in Handlers PROVE SupportInv(u, j)'
    <2>1. SupportInv(u, j) /\ <<u, j>> \in Proposals
      BY TransferFacts DEF RelayedInv
    <2>2. status'[<<u, j>>] = IF u = t /\ j = k THEN s ELSE status[<<u, j>>]
      BY <1>0, <1>1, <2>1 DEF RelayTypeOK
    <2> QED  BY <1>0, <2>1, <2>2 DEF SupportInv, Enough
  <1>4. ASSUME NEW u \in Transfers PROVE ActedInv(u)'
    BY DEF RelayedInv, ActedInv
  <1> QED  BY <1>2, <1>3, <1>4 DEF RelayedInv

LEMMA SignKeeps ==
  ASSUME RelayTypeOK, RelayedInv, NEW t \in Transfers, NEW r \in Relayers, sign(r, t)
  PROVE  RelayTypeOK' /\ RelayedInv'
  <1>1. /\ MaySign /\ t \in sent /\ r \notin acted[t]
        /\ signed' = [signed EXCEPT ![t] = signed[t] \union {r}]
        /\ acted' = [acted EXCEPT ![t] = acted[t] \union {r}]
        /\ UNCHANGED <<handlerOf, replaced, sent, votes, status>>
    BY DEF sign, config
  <1>2. RelayTypeOK'
    BY <1>1 DEF RelayTypeOK
  <1>3. ASSUME NEW u \in Transfers PROVE ActedInv(u)' /\ \A j \in Handlers : SupportInv(u, j)'
    <2>1. /\ ActedInv(u) /\ \A j \in Handlers : SupportInv(u, j)
          /\ signed'[u] = IF u = t THEN signed[t] \union {r} ELSE signed[u]
          /\ acted'[u] = IF u = t THEN acted[t] \union {r} ELSE acted[u]
      BY <1>1 DEF RelayTypeOK, RelayedInv
    <2>2. ActedInv(u)'
      BY <1>1, <2>1 DEF ActedInv
    <2>3. ASSUME NEW j \in Handlers PROVE SupportInv(u, j)'
      <3>1. votes[<<u, j>>] \ signed'[u] = votes[<<u, j>>] \ signed[u]
        BY <1>1, <2>1 DEF ActedInv
      <3>2. votes[<<u, j>>] \intersect signed[u] = {} => votes[<<u, j>>] \intersect signed'[u] = {}
        BY <1>1, <2>1 DEF ActedInv
      <3>3. Enough(signed[u]) => Enough(signed'[u])
        <4>1. signed[u] \subseteq signed'[u] /\ IsFiniteSet(signed'[u]) /\ IsFiniteSet(signed[u])
          <5>1. signed'[u] \in SUBSET Relayers /\ signed[u] \in SUBSET Relayers
            BY <1>2 DEF RelayTypeOK
          <5> QED  BY <2>1, <5>1, CrossChainAssumption, FS_Subset
        <4>2. Cardinality(signed[u]) <= Cardinality(signed'[u])
          BY <4>1, FS_Subset
        <4>3. Cardinality(signed[u]) \in Nat /\ Cardinality(signed'[u]) \in Nat
          BY <4>1, FS_CardinalityType
        <4> QED  BY <4>2, <4>3, Asset DEF Enough
      <3>4. SupportInv(u, j)
        BY <2>1
      <3> QED  BY <1>1, <3>1, <3>2, <3>3, <3>4 DEF SupportInv, Enough
    <2> QED  BY <2>2, <2>3
  <1> QED  BY <1>1, <1>2, <1>3 DEF RelayedInv

LEMMA SignaturesKeep ==
  ASSUME RelayTypeOK, RelayedInv, NEW t \in Transfers, voteProposals(t)
  PROVE  RelayTypeOK' /\ RelayedInv'
  <1> DEFINE k == handlerOf[t.to]
             p == <<t, k>>
  <1>1. /\ Enough(signed[t]) /\ p \in Proposals /\ k \in Handlers
        /\ votes' = [votes EXCEPT ![p] = signed[t]]
        /\ status' = [status EXCEPT ![p] = "Executed"]
        /\ UNCHANGED <<handlerOf, replaced, sent, acted, signed>>
    BY TransferFacts DEF voteProposals, Execute, RelayTypeOK, config, relaying
  <1>2. RelayTypeOK'
    BY <1>1 DEF RelayTypeOK
  <1>3. t \in sent
    <2>1. signed[t] # {}
      <3>1. Cardinality({}) = 0
        BY FS_EmptySet
      <3> QED  BY <1>1, <3>1, Asset DEF Enough
    <2> QED  BY <2>1 DEF RelayedInv, ActedInv
  <1>4. ASSUME NEW u \in Transfers PROVE ActedInv(u)'
    <2>1. ActedInv(u) /\ \A j \in Handlers : <<u, j>> \in Proposals
      BY TransferFacts DEF RelayedInv
    <2>2. \A j \in Handlers : votes'[<<u, j>>] = IF u = t /\ j = k THEN signed[t] ELSE votes[<<u, j>>]
      BY <1>1, <2>1 DEF RelayTypeOK
    <2> QED  BY <1>1, <2>1, <2>2 DEF ActedInv
  <1>5. ASSUME NEW u \in Transfers, NEW j \in Handlers PROVE SupportInv(u, j)'
    <2>1. SupportInv(u, j) /\ <<u, j>> \in Proposals
      BY TransferFacts DEF RelayedInv
    <2>2. /\ votes'[<<u, j>>] = IF u = t /\ j = k THEN signed[t] ELSE votes[<<u, j>>]
          /\ status'[<<u, j>>] = IF u = t /\ j = k THEN "Executed" ELSE status[<<u, j>>]
      BY <1>1, <2>1 DEF RelayTypeOK
    <2> QED  BY <1>1, <1>3, <2>1, <2>2 DEF SupportInv, Enough
  <1> QED  BY <1>1, <1>2, <1>4, <1>5 DEF RelayedInv

LEMMA SetHandlerKeeps ==
  ASSUME RelayTypeOK, RelayedInv, NEW c \in Chains, NEW k \in Handlers \union {NoHandler},
         SetHandler(c, k)
  PROVE  RelayTypeOK' /\ RelayedInv'
  <1>1. /\ handlerOf[c] = NoHandler \/ MayReplace
        /\ handlerOf' = [handlerOf EXCEPT ![c] = k]
        /\ replaced' = IF handlerOf[c] \in {k, NoHandler} THEN replaced ELSE replaced \union {c}
        /\ UNCHANGED <<status, votes, sent, acted, signed>>
    BY DEF SetHandler, relaying
  <1>2. RelayTypeOK'
    BY <1>1 DEF RelayTypeOK
  <1>3. ASSUME NEW u \in Transfers, NEW j \in Handlers PROVE SupportInv(u, j)'
    <2>1. SupportInv(u, j) /\ u.to \in Chains
      BY TransferFacts DEF RelayedInv
    <2>2. handlerOf'[u.to] = IF u.to = c THEN k ELSE handlerOf[u.to]
      BY <1>1, <2>1 DEF RelayTypeOK
    <2> QED  BY <1>1, <2>1, <2>2, Asset DEF SupportInv, Enough
  <1>4. ASSUME NEW u \in Transfers PROVE ActedInv(u)'
    BY <1>1 DEF RelayedInv, ActedInv
  <1> QED  BY <1>1, <1>2, <1>3, <1>4 DEF RelayedInv

LEMMA UntouchedKeeps ==
  ASSUME RelayTypeOK, RelayedInv, sent \subseteq sent', sent' \subseteq Transfers,
         UNCHANGED <<handlerOf, replaced, status, votes, acted, signed>>
  PROVE  RelayTypeOK' /\ RelayedInv'
  BY DEF RelayTypeOK, RelayedInv, ActedInv, SupportInv, Enough-----------------------------------------------------------------------------
(* What a step does to the abstract state of BridgedAsset. *)
Arrives(t) ==
    /\ OutsideOf' = [OutsideOf EXCEPT ![t.to] = Outside(t.to) + t.amount]
    /\ UNCHANGED <<sent, withdrawn>>

LEMMA ExecuteSound ==
  ASSUME TokensOK, RelayTypeOK, NEW t \in Transfers, NEW k \in Handlers, Execute(t, k),
         UNCHANGED <<sent, withdrawn>>
  PROVE  TokensOK' /\ Arrives(t)
  <1>1. PICK o \in Given(t, k) : UseOutcome(t.to, k, o)
    BY DEF Execute
  <1>2. /\ CrossChainTypeOK /\ NeverNative /\ t.to \in Chains
        /\ store[t.to][k] \in HandlerState /\ store[t.to][k].isNative = {}
    BY TwoParts, TransferFacts DEF TokensOK, NeverNative
  <1>3. /\ o.handler = store[t.to][k] /\ o.ledger \in Ledger
        /\ o.ledger[token][users] = Outside(t.to) + t.amount
    BY <1>1, <1>2, GivenSound
  <1>4. /\ store' \in [Chains -> [Handlers -> HandlerState]] /\ NeverNative'
        /\ ledger' \in [Chains -> Ledger]
        /\ OutsideOf' = [OutsideOf EXCEPT ![t.to] = o.ledger[token][users]]
    BY <1>1, <1>2, <1>3, OutcomeSound
  <1> QED  BY <1>3, <1>4 DEF TokensOK, Arrives

LEMMA DepositSound ==
  ASSUME TokensOK, RelayTypeOK, NEW t \in Transfers, deposit(t)
  PROVE  TokensOK' /\ Bridged!Send(t) /\ sent' = sent \union {t}
  <1> DEFINE k == handlerOf[t.from]
  <1>1. /\ CrossChainTypeOK /\ NeverNative /\ t.from \in Chains /\ k \in Handlers
        /\ store[t.from][k] \in HandlerState /\ store[t.from][k].isNative = {}
    BY TwoParts, TransferFacts DEF TokensOK, NeverNative, deposit, RelayTypeOK
  <1>2. /\ t \notin sent /\ sent' = sent \union {t}
        /\ UNCHANGED <<status, withdrawn>>
    BY DEF deposit
  <1>3. PICK o \in Taken(t, k) : UseOutcome(t.from, k, o)
    BY DEF deposit
  <1>4. /\ o.handler = store[t.from][k] /\ o.ledger \in Ledger
        /\ Outside(t.from) >= t.amount
        /\ o.ledger[token][users] = Outside(t.from) - t.amount
    BY <1>1, <1>3, TakenSound
  <1>5. /\ store' \in [Chains -> [Handlers -> HandlerState]] /\ NeverNative'
        /\ ledger' \in [Chains -> Ledger]
        /\ OutsideOf' = [OutsideOf EXCEPT ![t.from] = o.ledger[token][users]]
    BY <1>1, <1>3, <1>4, OutcomeSound
  <1>6. TokensOK'
    BY <1>2, <1>5 DEF TokensOK
  <1>7. Outside(t.from) = OutsideOf[t.from]
    BY <1>1 DEF OutsideOf
  <1>8. Delivered' = Delivered
    BY <1>2 DEF Delivered, Executed
  <1> QED  BY <1>2, <1>4, <1>5, <1>6, <1>7, <1>8 DEF Bridged!Send

LEMMA WithdrawalSound ==
  ASSUME TokensOK, RelayTypeOK, NEW c \in Chains, NEW k \in Handlers, NEW n \in Withdrawals,
         adminWithdraw(c, k, n)
  PROVE  /\ TokensOK'
         /\ OutsideOf' = [OutsideOf EXCEPT ![c] = Outside(c) + n]
         /\ withdrawn' = [withdrawn EXCEPT ![c] = withdrawn[c] + n]
  <1>1. /\ CrossChainTypeOK /\ NeverNative /\ n \in Nat
        /\ store[c][k] \in HandlerState /\ store[c][k].isNative = {} /\ ledger[c] \in Ledger
    BY TwoParts, CrossChainAssumption DEF TokensOK, NeverNative
  <1>2. PICK o \in releaseERC20(k, store[c][k], ledger[c], token, users, n) : UseOutcome(c, k, o)
    BY DEF adminWithdraw
  <1>3. /\ ledger[c][token][k] >= n /\ o.handler = store[c][k]
        /\ o.ledger = Move(ledger[c], token, k, users, n)
    BY <1>2 DEF releaseERC20, When, Outcome
  <1>4. o.ledger \in Ledger /\ o.ledger[token][users] = Outside(c) + n
    <2>1. users # k /\ k \in Holders /\ users \in Holders
      BY Asset
    <2> QED  BY <1>1, <1>3, <2>1, MoveSound DEF Outside
  <1>5. /\ store' \in [Chains -> [Handlers -> HandlerState]] /\ NeverNative'
        /\ ledger' \in [Chains -> Ledger]
        /\ OutsideOf' = [OutsideOf EXCEPT ![c] = o.ledger[token][users]]
    BY <1>1, <1>2, <1>3, <1>4, OutcomeSound
  <1>6. withdrawn' = [withdrawn EXCEPT ![c] = withdrawn[c] + n]
    BY DEF adminWithdraw
  <1> QED  BY <1>1, <1>4, <1>5, <1>6 DEF TokensOK

LEMMA SetStoreSound ==
  ASSUME TokensOK, NEW c \in Chains, NEW k \in Handlers, NEW h \in HandlerState,
         h.isNative = {}, SetStore(c, k, h), UNCHANGED <<ledger, withdrawn>>
  PROVE  TokensOK' /\ OutsideOf' = OutsideOf
  <1>1. store' = [store EXCEPT ![c] = [store[c] EXCEPT ![k] = h]]
    BY DEF SetStore
  <1>2. [store[c] EXCEPT ![k] = h] \in [Handlers -> HandlerState]
    BY DEF TokensOK
  <1>3. store' \in [Chains -> [Handlers -> HandlerState]]
    BY <1>1, <1>2 DEF TokensOK
  <1>4. \A d \in Chains, j \in Handlers :
           store'[d][j] = IF d = c /\ j = k THEN h ELSE store[d][j]
    BY <1>1 DEF TokensOK
  <1>5. NeverNative'
    BY <1>4 DEF NeverNative, TokensOK
  <1> QED  BY <1>3, <1>5 DEF TokensOK, OutsideOf, Outside

(* New maps and a new whitelist are all that setting a resource changes. *)
WithMaps(h, m, s, w) == [h EXCEPT !.tokenOf = m, !.resourceOf = s, !.whitelist = w]

LEMMA MapsReplaced ==
  ASSUME NEW h \in HandlerState, NEW w \in SUBSET Tokens,
         NEW m \in [Resources -> Tokens \union {NoToken}],
         NEW s \in [Tokens -> Resources \union {NoResource}]
  PROVE  /\ WithMaps(h, m, s, w) \in HandlerState
         /\ WithMaps(h, m, s, w).isNative = h.isNative
         /\ WithMaps(h, m, s, w).burnList = h.burnList
  BY DEF HandlerState, WithMaps

(* The administrators' calls leave a handler that takes no ether for the    *)
(* token, and never take the token off the burn list.                       *)
LEMMA AssetConfig ==
  ASSUME NEW h \in HandlerState, h.isNative = {}
  PROVE  /\ _setResource(h, resource, token) \in HandlerState
         /\ _setResource(h, resource, token).isNative = {}
         /\ _setResource(h, resource, token).burnList = h.burnList
         /\ _removeResource(h, resource, token) \in HandlerState
         /\ _removeResource(h, resource, token).isNative = {}
         /\ \A g \in _setBurnable(h, token) :
               g \in HandlerState /\ g.isNative = {} /\ token \in g.burnList
  <1> DEFINE added   == [h.tokenOf EXCEPT ![resource] = token]
             removed == [h.tokenOf EXCEPT ![resource] = NoToken]
             named   == [h.resourceOf EXCEPT ![token] = resource]
             unnamed == [h.resourceOf EXCEPT ![token] = NoResource]
  <1>0. resource \in Resources /\ token \in Tokens
    BY Asset
  <1>1. /\ added \in [Resources -> Tokens \union {NoToken}]
        /\ removed \in [Resources -> Tokens \union {NoToken}]
        /\ named \in [Tokens -> Resources \union {NoResource}]
        /\ unnamed \in [Tokens -> Resources \union {NoResource}]
    BY <1>0 DEF HandlerState
  <1>2. _setResource(h, resource, token) = WithMaps(h, added, named, h.whitelist \union {token})
    BY Zenon DEF _setResource, WithMaps
  <1>3. _removeResource(h, resource, token) = WithMaps(h, removed, unnamed, h.whitelist \ {token})
    BY Zenon DEF _removeResource, WithMaps
  <1> HIDE DEF added, removed, named, unnamed
  <1>4. h.whitelist \union {token} \in SUBSET Tokens /\ h.whitelist \ {token} \in SUBSET Tokens
    BY <1>0 DEF HandlerState
  <1>5. \A g \in _setBurnable(h, token) :
           g \in HandlerState /\ g.isNative = {} /\ token \in g.burnList
    BY <1>0 DEF _setBurnable, When, HandlerState
  <1> QED  BY <1>1, <1>2, <1>3, <1>4, <1>5, MapsReplaced

LEMMA ConfigurationSound ==
  ASSUME TokensOK, RelayTypeOK, RelayedInv, NEW c \in Chains,
         \/ adminRemoveResourceId(c)
         \/ \E k \in Handlers : adminSetResource(c, k) \/ adminSetBurnable(c, k)
  PROVE  /\ TokensOK' /\ RelayTypeOK' /\ RelayedInv'
         /\ OutsideOf' = OutsideOf /\ UNCHANGED <<sent, status, withdrawn>>
  <1>1. \A k \in Handlers : store[c][k] \in HandlerState /\ store[c][k].isNative = {}
    BY DEF TokensOK, NeverNative
  <1>2. CASE adminRemoveResourceId(c)
    <2> DEFINE k == handlerOf[c]
               h == _removeResource(store[c][k], resource, token)
    <2>1. k \in Handlers
      BY <1>2 DEF adminRemoveResourceId, RelayTypeOK
    <2>2. h \in HandlerState /\ h.isNative = {}
      BY <1>1, <2>1, AssetConfig
    <2>3. SetHandler(c, NoHandler) /\ SetStore(c, k, h)
      BY <1>2 DEF adminRemoveResourceId
    <2>4. UNCHANGED <<ledger, withdrawn, sent, status>>
      BY <2>3 DEF SetHandler
    <2> HIDE DEF h, k
    <2> QED  BY <2>1, <2>2, <2>3, <2>4, SetHandlerKeeps, SetStoreSound
  <1>3. ASSUME NEW k \in Handlers, adminSetResource(c, k)
        PROVE  /\ TokensOK' /\ RelayTypeOK' /\ RelayedInv'
               /\ OutsideOf' = OutsideOf /\ UNCHANGED <<sent, status, withdrawn>>
    <2> DEFINE h == _setResource(store[c][k], resource, token)
    <2>1. h \in HandlerState /\ h.isNative = {}
      BY <1>1, AssetConfig
    <2>2. SetHandler(c, k) /\ SetStore(c, k, h)
      BY <1>3 DEF adminSetResource
    <2>3. UNCHANGED <<ledger, withdrawn, sent, status>>
      BY <2>2 DEF SetHandler
    <2> HIDE DEF h
    <2> QED  BY <2>1, <2>2, <2>3, SetHandlerKeeps, SetStoreSound
  <1>4. ASSUME NEW k \in Handlers, adminSetBurnable(c, k)
        PROVE  /\ TokensOK' /\ RelayTypeOK' /\ RelayedInv'
               /\ OutsideOf' = OutsideOf /\ UNCHANGED <<sent, status, withdrawn>>
    <2>1. PICK h \in _setBurnable(store[c][k], token) : SetStore(c, k, h)
      BY <1>4 DEF adminSetBurnable
    <2>2. h \in HandlerState /\ h.isNative = {}
      BY <1>1, <2>1, AssetConfig
    <2>3. UNCHANGED <<handlerOf, replaced, ledger, withdrawn, sent, status, votes, acted, signed>>
      BY <1>4 DEF adminSetBurnable, config, relaying
    <2>4. RelayTypeOK' /\ RelayedInv'
      BY <2>3, UntouchedKeeps DEF RelayTypeOK
    <2> QED  BY <2>1, <2>2, <2>3, <2>4, SetStoreSound
  <1> QED  BY <1>2, <1>3, <1>4-----------------------------------------------------------------------------
(* The steps of the proposals: each either executes one proposal that was   *)
(* not executed before, or leaves the tokens and what is executed alone.    *)
Executes(t, k) ==
    /\ status[<<t, k>>] # "Executed"
    /\ status' = [status EXCEPT ![<<t, k>>] = "Executed"]
    /\ Arrives(t)

Quiet == OutsideOf' = OutsideOf /\ Delivered' = Delivered /\ UNCHANGED <<sent, withdrawn>>

LEMMA StatusQuiet ==
  ASSUME RelayTypeOK, NEW p \in Proposals, NEW s,
         s # "Executed", status[p] # "Executed",
         status' = [status EXCEPT ![p] = s], UNCHANGED <<ledger, sent, withdrawn>>
  PROVE  Quiet
  <1>1. OutsideOf' = OutsideOf
    BY DEF OutsideOf, Outside
  <1>2. \A t \in Transfers, k \in Handlers : Executed(t, k)' = Executed(t, k)
    BY TransferFacts DEF RelayTypeOK, Executed
  <1>3. Delivered' = Delivered
    BY <1>2 DEF Delivered
  <1> QED  BY <1>1, <1>3 DEF Quiet

LEMMA TokensUntouched ==
  ASSUME TokensOK, UNCHANGED <<tokens, withdrawn>>
  PROVE  TokensOK'
  BY DEF TokensOK, tokens, NeverNative

LEMMA RelayStep ==
  ASSUME TokensOK, RelayTypeOK, RelayedInv, Relay
  PROVE  /\ TokensOK' /\ RelayTypeOK' /\ RelayedInv'
         /\ (\E t \in Transfers, k \in Handlers : Executes(t, k)) \/ Quiet
  <1>1. ASSUME NEW t \in Transfers, executeProposal(t)
        PROVE  /\ TokensOK' /\ RelayTypeOK' /\ RelayedInv'
               /\ \E k \in Handlers : Executes(t, k)
    <2> DEFINE k == handlerOf[t.to]
    <2>1. /\ k \in Handlers /\ status[<<t, k>>] = "Passed" /\ Execute(t, k)
          /\ UNCHANGED <<handlerOf, replaced, votes, sent, acted, signed, withdrawn>>
      BY <1>1, TransferFacts
      DEF executeProposal, PassedUnder, RelayTypeOK, config, relaying
    <2>2. status' = [status EXCEPT ![<<t, k>>] = "Executed"]
      BY <2>1 DEF Execute
    <2> HIDE DEF k
    <2>3. TokensOK' /\ Arrives(t)
      BY <2>1, ExecuteSound
    <2>4. RelayTypeOK' /\ RelayedInv'
      BY <2>1, <2>2, StatusKeeps
    <2> QED  BY <2>1, <2>2, <2>3, <2>4 DEF Executes
  <1>2. ASSUME NEW t \in Transfers, voteProposals(t)
        PROVE  /\ TokensOK' /\ RelayTypeOK' /\ RelayedInv'
               /\ \E k \in Handlers : Executes(t, k)
    <2> DEFINE k == handlerOf[t.to]
    <2>1. /\ k \in Handlers /\ Open(<<t, k>>) /\ Execute(t, k)
          /\ UNCHANGED <<sent, withdrawn>>
      BY <1>2, TransferFacts DEF voteProposals, RelayTypeOK
    <2>2. status' = [status EXCEPT ![<<t, k>>] = "Executed"] /\ status[<<t, k>>] # "Executed"
      BY <2>1 DEF Execute, Open
    <2> HIDE DEF k
    <2>3. TokensOK' /\ Arrives(t)
      BY <2>1, ExecuteSound
    <2>4. RelayTypeOK' /\ RelayedInv'
      BY <1>2, SignaturesKeep
    <2> QED  BY <2>1, <2>2, <2>3, <2>4 DEF Executes
  <1>3. ASSUME NEW t \in Transfers, NEW r \in Relayers, voteProposal(r, t)
        PROVE  /\ TokensOK' /\ RelayTypeOK' /\ RelayedInv'
               /\ (\E k \in Handlers : Executes(t, k)) \/ Quiet
    <2> DEFINE k == handlerOf[t.to]
               S == votes[<<t, k>>] \union {r}
    <2>1. RelayTypeOK' /\ RelayedInv'
      BY <1>3, VoteKeeps
    <2>2. /\ k \in Handlers /\ Open(<<t, k>>) /\ <<t, k>> \in Proposals
          /\ UNCHANGED <<sent, withdrawn>>
          /\ \/ Execute(t, k)
             \/ /\ status' = [status EXCEPT ![<<t, k>>] = IF Enough(S) THEN "Passed" ELSE "Active"]
                /\ UNCHANGED tokens
      BY <1>3, TransferFacts DEF voteProposal, RelayTypeOK
    <2>3. status[<<t, k>>] # "Executed"
      BY <2>2 DEF Open
    <2> HIDE DEF k, S
    <2>4. ASSUME Execute(t, k) PROVE TokensOK' /\ Executes(t, k)
      <3>1. TokensOK' /\ Arrives(t)
        BY <2>2, <2>4, ExecuteSound
      <3> QED  BY <2>3, <2>4, <3>1 DEF Executes, Execute
    <2>5. ASSUME NEW s, s # "Executed", status' = [status EXCEPT ![<<t, k>>] = s], UNCHANGED tokens
          PROVE  TokensOK' /\ Quiet
      BY <2>2, <2>3, <2>5, TokensUntouched, StatusQuiet DEF tokens
    <2> QED  BY <2>1, <2>2, <2>4, <2>5
  <1>4. ASSUME NEW t \in Transfers, NEW r \in Relayers, sign(r, t)
        PROVE  TokensOK' /\ RelayTypeOK' /\ RelayedInv' /\ Quiet
    <2>1. UNCHANGED <<tokens, status, sent, withdrawn>>
      BY <1>4 DEF sign
    <2>2. Quiet
      BY <2>1 DEF Quiet, OutsideOf, Outside, Delivered, Executed, tokens
    <2> QED  BY <1>4, <2>1, <2>2, SignKeeps, TokensUntouched
  <1>5. ASSUME NEW p \in Proposals, cancelProposal(p)
        PROVE  TokensOK' /\ RelayTypeOK' /\ RelayedInv' /\ Quiet
    <2>1. PICK t \in Transfers, k \in Handlers : p = <<t, k>>
      BY DEF Proposals
    <2>2. /\ status[<<t, k>>] \in {"Active", "Passed"}
          /\ status' = [status EXCEPT ![<<t, k>>] = "Cancelled"]
          /\ UNCHANGED <<handlerOf, replaced, tokens, votes, sent, acted, signed, withdrawn>>
      BY <1>5, <2>1 DEF cancelProposal, config, relaying
    <2>3. RelayTypeOK' /\ RelayedInv'
      BY <2>2, StatusKeeps
    <2>4. TokensOK' /\ Quiet
      <3>1. <<t, k>> \in Proposals
        BY TransferFacts
      <3> QED  BY <2>2, <3>1, TokensUntouched, StatusQuiet DEF tokens
    <2> QED  BY <2>3, <2>4
  <1> QED  BY <1>1, <1>2, <1>3, <1>4, <1>5 DEF Relay

(* Every step keeps the inductive invariant, and is a step or a stutter of  *)
(* the abstract specification, or an execution.                             *)
PaysOut(c) ==
    /\ \E n \in Nat : /\ OutsideOf' = [OutsideOf EXCEPT ![c] = Outside(c) + n]
                      /\ withdrawn' = [withdrawn EXCEPT ![c] = withdrawn[c] + n]
    /\ Delivered' = Delivered /\ UNCHANGED sent

CoreInv == TokensOK /\ RelayTypeOK /\ RelayedInv

LEMMA StepSound ==
  ASSUME CoreInv, Next
  PROVE  /\ CoreInv'
         /\ \/ \E t \in Transfers : Bridged!Send(t)
            \/ \E t \in Transfers, k \in Handlers : Executes(t, k)
            \/ \E c \in Chains : PaysOut(c)
            \/ Quiet
  <1>1. TokensOK /\ RelayTypeOK /\ RelayedInv
    BY DEF CoreInv
  <1>3. ASSUME NEW t \in Transfers, deposit(t)
        PROVE  TokensOK' /\ RelayTypeOK' /\ RelayedInv' /\ Bridged!Send(t)
    <2>1. TokensOK' /\ Bridged!Send(t) /\ sent' = sent \union {t}
      BY <1>1, <1>3, DepositSound
    <2>2. UNCHANGED <<handlerOf, replaced, status, votes, acted, signed>>
      BY <1>3 DEF deposit, config, relaying
    <2>3. sent \subseteq sent' /\ sent' \subseteq Transfers
      BY <1>1, <2>1 DEF RelayTypeOK
    <2> QED  BY <1>1, <2>1, <2>2, <2>3, UntouchedKeeps
  <1>4. ASSUME NEW c \in Chains, NEW k \in Handlers, NEW n \in Withdrawals, adminWithdraw(c, k, n)
        PROVE  TokensOK' /\ RelayTypeOK' /\ RelayedInv' /\ PaysOut(c)
    <2>1. /\ TokensOK' /\ OutsideOf' = [OutsideOf EXCEPT ![c] = Outside(c) + n]
          /\ withdrawn' = [withdrawn EXCEPT ![c] = withdrawn[c] + n]
      BY <1>1, <1>4, WithdrawalSound
    <2>2. UNCHANGED <<handlerOf, replaced, status, votes, sent, acted, signed>>
      BY <1>4 DEF adminWithdraw, config, relaying
    <2>3. RelayTypeOK' /\ RelayedInv'
      BY <1>1, <2>2, UntouchedKeeps DEF RelayTypeOK
    <2>4. Delivered' = Delivered /\ n \in Nat
      BY <2>2, CrossChainAssumption DEF Delivered, Executed
    <2> QED  BY <2>1, <2>2, <2>3, <2>4 DEF PaysOut
  <1>5. ASSUME NEW c \in Chains,
               adminRemoveResourceId(c)
                 \/ \E k \in Handlers : adminSetResource(c, k) \/ adminSetBurnable(c, k)
        PROVE  TokensOK' /\ RelayTypeOK' /\ RelayedInv' /\ Quiet
    <2>1. /\ TokensOK' /\ RelayTypeOK' /\ RelayedInv'
          /\ OutsideOf' = OutsideOf /\ UNCHANGED <<sent, status, withdrawn>>
      BY <1>1, <1>5, ConfigurationSound
    <2> QED  BY <2>1 DEF Quiet, Delivered, Executed
  <1>6. ASSUME Relay
        PROVE  /\ TokensOK' /\ RelayTypeOK' /\ RelayedInv'
               /\ (\E t \in Transfers, k \in Handlers : Executes(t, k)) \/ Quiet
    BY <1>1, <1>6, RelayStep
  <1> QED  BY <1>3, <1>4, <1>5, <1>6 DEF Next, Configure, CoreInv
LEMMA StutterSound ==
  ASSUME CoreInv, UNCHANGED vars
  PROVE  CoreInv' /\ Quiet
  <1>1. UNCHANGED <<handlerOf, replaced, tokens, store, ledger, status, votes, sent, acted, signed, withdrawn>>
    BY DEF vars, config, tokens, relaying
  <1>2. TokensOK' /\ RelayTypeOK' /\ RelayedInv'
    BY <1>1, TokensUntouched, UntouchedKeeps DEF CoreInv, RelayTypeOK
  <1>3. Quiet
    BY <1>1 DEF Quiet, OutsideOf, Outside, Delivered, Executed
  <1> QED  BY <1>2, <1>3 DEF CoreInv

(* The inductive invariant holds in every reachable state: types, one vote  *)
(* or signature of each relayer for a transfer, a quorum behind every       *)
(* execution, for any chains, transfers, handlers and relayers.             *)
THEOREM CrossChainInvariance == Spec => []CrossChainIInv
  <1>1. Init => CoreInv
    BY InitChains, TwoParts DEF CoreInv, CrossChainIInv
  <1>2. CoreInv /\ [Next]_vars => CoreInv'
    BY StepSound, StutterSound
  <1>3. CoreInv => CrossChainIInv
    BY TwoParts, OnceFromQuorums DEF CoreInv, CrossChainIInv
  <1> QED  BY <1>1, <1>2, <1>3, PTL DEF Spec

(* A majority threshold makes up for the handler in the key of _proposals:  *)
(* a transfer executed under two handlers was signed, and its handler was   *)
(* replaced.                                                                *)
THEOREM OneDelivery == Spec => []DeliveredOnce
  <1>1. CrossChainIInv => DeliveredOnce
    BY DEF CrossChainIInv
  <1> QED  BY <1>1, CrossChainInvariance, PTL

LEMMA InitRefines == Init => Bridged!Init
  <1> SUFFICES ASSUME Init PROVE Bridged!Init
    OBVIOUS
  <1>1. \A c \in Chains : Outside(c) = InitialOutside[c]
    BY Asset DEF Init, StartLedger, Outside
  <1>2. OutsideOf = InitialOutside
    BY <1>1, CrossChainAssumption DEF OutsideOf
  <1>3. Delivered = {}
    BY TransferFacts DEF Delivered, Executed, Init
  <1> QED  BY <1>2, <1>3 DEF Bridged!Init, Init

(* Where relayers only vote, or handlers stay, DeliveredOnce knows no       *)
(* exception.                                                               *)
LEMMA NoException ==
  ASSUME CrossChainIInv, ~MaySign \/ ~MayReplace
  PROVE  SignedKeepHandler
  <1> SUFFICES ASSUME NEW t \in sent, t.to \in replaced, Enough(signed[t]) PROVE FALSE
    BY DEF SignedKeepHandler
  <1>1. t \in Transfers /\ ActedInv(t)
    BY DEF CrossChainIInv, CrossChainTypeOK, RelayedInv
  <1>2. (MayReplace \/ replaced = {}) /\ (~MaySign => signed[t] = {})
    BY <1>1 DEF CrossChainIInv, RelayedInv, ActedInv
  <1>3. ~Enough({})
    BY FS_EmptySet, Asset DEF Enough
  <1> QED  BY <1>2, <1>3

(* An execution delivers a transfer for the first time. *)
LEMMA ExecutionDelivers ==
  ASSUME CrossChainIInv, CrossChainIInv', SignedKeepHandler',
         NEW t \in Transfers, NEW k \in Handlers, Executes(t, k)
  PROVE  Bridged!Deliver(t)
  <1>0. /\ <<t, k>> \in Proposals /\ t.to \in Chains
        /\ status' = [status EXCEPT ![<<t, k>>] = "Executed"]
        /\ status \in [Proposals -> {"Inactive", "Active", "Passed", "Executed", "Cancelled"}]
    BY TransferFacts DEF Executes, CrossChainIInv, CrossChainTypeOK
  <1>1. ASSUME NEW u \in Transfers, NEW j \in Handlers
        PROVE  Executed(u, j)' <=> (Executed(u, j) \/ (u = t /\ j = k))
    <2>1. <<u, j>> \in Proposals
      BY TransferFacts
    <2>2. <<u, j>> = <<t, k>> <=> u = t /\ j = k
      OBVIOUS
    <2>3. status'[<<u, j>>] = IF <<u, j>> = <<t, k>> THEN "Executed" ELSE status[<<u, j>>]
      BY <1>0, <2>1
    <2> QED  BY <2>2, <2>3 DEF Executed
  <1>2. Delivered' = Delivered \union {t}
    BY <1>1 DEF Delivered
  <1>3. t \in sent
    <2>1. SupportInv(t, k)' /\ Executed(t, k)'
      BY <1>1 DEF CrossChainIInv, RelayedInv
    <2> QED  BY <2>1 DEF SupportInv, Executed, Executes, Arrives
  <1>4. t \notin Delivered
    <2> SUFFICES ASSUME NEW j \in Handlers, Executed(t, j) PROVE FALSE
      BY DEF Delivered
    <2>1. j # k
      BY DEF Executes, Executed
    <2>2. Executed(t, j)' /\ Executed(t, k)' /\ DeliveredOnce'
      BY <1>1 DEF CrossChainIInv
    <2>3. t.to \in replaced' /\ Enough(signed[t])'
      BY <2>1, <2>2 DEF DeliveredOnce
    <2>4. t \in sent'
      BY <1>3 DEF Executes, Arrives
    <2> QED  BY <2>3, <2>4 DEF SignedKeepHandler
  <1>5. OutsideOf[t.to] = Outside(t.to)
    BY <1>0 DEF OutsideOf
  <1> QED  BY <1>2, <1>3, <1>4, <1>5 DEF Bridged!Deliver, Executes, Arrives

LEMMA PayOutRefines ==
  ASSUME CrossChainIInv, NEW c \in Chains, PaysOut(c)
  PROVE  [Bridged!Next]_(Bridged!vars)
  <1>1. PICK n \in Nat : /\ OutsideOf' = [OutsideOf EXCEPT ![c] = Outside(c) + n]
                         /\ withdrawn' = [withdrawn EXCEPT ![c] = withdrawn[c] + n]
    BY DEF PaysOut
  <1>2. /\ withdrawn \in [Chains -> Nat] /\ OutsideOf[c] = Outside(c) /\ Outside(c) \in Nat
        /\ OutsideOf = [d \in Chains |-> OutsideOf[d]]
    BY Asset DEF CrossChainIInv, CrossChainTypeOK, OutsideOf, Outside, Ledger
  <1>3. withdrawn'[c] = withdrawn[c] + n
    BY <1>1, <1>2
  <1>4. CASE n = 0
    <2>1. withdrawn' = withdrawn
      BY <1>1, <1>2, <1>4
    <2>2. OutsideOf' = OutsideOf
      <3> HIDE DEF OutsideOf
      <3> QED  BY <1>1, <1>2, <1>4
    <2> QED  BY <2>1, <2>2 DEF PaysOut, Bridged!vars
  <1>5. CASE n # 0
    <2>1. withdrawn'[c] > withdrawn[c] /\ withdrawn'[c] - withdrawn[c] = n
      BY <1>2, <1>3, <1>5
    <2>2. Bridged!PayOut(c)
      BY <1>1, <1>2, <1>3, <2>1 DEF Bridged!PayOut, PaysOut
    <2> QED  BY <2>2 DEF Bridged!Next
  <1> QED  BY <1>4, <1>5

(* Where relayers only vote, or handlers stay, the chains implement         *)
(* BridgedAsset: what is sent arrives at most once, in full, and nothing    *)
(* else comes into circulation.                                             *)
THEOREM ChainsKeepPromise ==
  ASSUME ~MaySign \/ ~MayReplace
  PROVE  Spec => BridgedSpec
  <1>1. CrossChainIInv /\ CrossChainIInv' /\ SignedKeepHandler' /\ [Next]_vars
          => [Bridged!Next]_(Bridged!vars)
    <2> SUFFICES ASSUME CrossChainIInv, CrossChainIInv', SignedKeepHandler', [Next]_vars
                 PROVE  [Bridged!Next]_(Bridged!vars)
      OBVIOUS
    <2>1. CoreInv
      BY TwoParts DEF CoreInv, CrossChainIInv
    <2>2. \/ \E t \in Transfers : Bridged!Send(t)
          \/ \E t \in Transfers, k \in Handlers : Executes(t, k)
          \/ \E c \in Chains : PaysOut(c)
          \/ Quiet
      BY <2>1, StepSound, StutterSound
    <2>3. ASSUME NEW t \in Transfers, Bridged!Send(t) PROVE Bridged!Next
      BY <2>3 DEF Bridged!Next
    <2>4. ASSUME NEW t \in Transfers, NEW k \in Handlers, Executes(t, k) PROVE Bridged!Next
      BY <2>4, ExecutionDelivers DEF Bridged!Next
    <2>5. ASSUME NEW c \in Chains, PaysOut(c) PROVE [Bridged!Next]_(Bridged!vars)
      BY <2>5, PayOutRefines
    <2>6. ASSUME Quiet PROVE [Bridged!Next]_(Bridged!vars)
      BY <2>6 DEF Quiet, Bridged!vars
    <2> QED  BY <2>2, <2>3, <2>4, <2>5, <2>6
  <1>2. CrossChainIInv => SignedKeepHandler
    BY NoException
  <1> QED  BY <1>1, <1>2, InitRefines, CrossChainInvariance, PTL DEF Spec, BridgedSpec, Bridged!Spec
-----------------------------------------------------------------------------
(* What never shrinks: the transfers sent, the chains whose handler was      *)
(* replaced and the signatures on a transfer.                               *)
LEMMA HistoryGrows ==
  ASSUME RelayTypeOK, [Next]_vars
  PROVE  /\ sent \subseteq sent' /\ replaced \subseteq replaced'
         /\ \A t \in Transfers : signed[t] \subseteq signed'[t]
         /\ sent' # sent => \E t : sent' = sent \union {t}
  <1> DEFINE Grown == /\ sent \subseteq sent' /\ replaced \subseteq replaced'
                      /\ \A t \in Transfers : signed[t] \subseteq signed'[t]
                      /\ sent' # sent => \E t : sent' = sent \union {t}
  <1>1. ASSUME NEW t \in Transfers, deposit(t) PROVE Grown
    BY <1>1 DEF deposit, config, relaying
  <1>2. ASSUME NEW t \in Transfers, executeProposal(t) \/ voteProposals(t) PROVE Grown
    BY <1>2 DEF executeProposal, voteProposals, config, relaying
  <1>3. ASSUME NEW t \in Transfers, NEW r \in Relayers, voteProposal(r, t) PROVE Grown
    BY <1>3 DEF voteProposal, config
  <1>4. ASSUME NEW t \in Transfers, NEW r \in Relayers, sign(r, t) PROVE Grown
    BY <1>4 DEF sign, config, RelayTypeOK
  <1>5. ASSUME NEW p \in Proposals, cancelProposal(p) PROVE Grown
    BY <1>5 DEF cancelProposal, config, relaying
  <1>6. ASSUME NEW c \in Chains, NEW k, SetHandler(c, k) PROVE Grown
    BY <1>6 DEF SetHandler, relaying
  <1>7. ASSUME NEW c \in Chains, adminRemoveResourceId(c) PROVE Grown
    BY <1>6, <1>7 DEF adminRemoveResourceId
  <1>8. ASSUME NEW c \in Chains, NEW k \in Handlers, adminSetResource(c, k) PROVE Grown
    BY <1>6, <1>8 DEF adminSetResource
  <1>9. ASSUME NEW c \in Chains, NEW k \in Handlers, adminSetBurnable(c, k) PROVE Grown
    BY <1>9 DEF adminSetBurnable, config, relaying
  <1>10. ASSUME NEW c \in Chains, NEW k \in Handlers, NEW n \in Withdrawals, adminWithdraw(c, k, n)
         PROVE  Grown
    BY <1>10 DEF adminWithdraw, config, relaying
  <1>11. ASSUME UNCHANGED vars PROVE Grown
    BY <1>11 DEF vars, config, relaying
  <1> HIDE DEF Grown
  <1>12. ASSUME Relay PROVE Grown
    BY <1>2, <1>3, <1>4, <1>5, <1>12 DEF Relay
  <1>13. ASSUME Configure PROVE Grown
    BY <1>7, <1>8, <1>9, <1>10, <1>13 DEF Configure
  <1>14. Grown
    BY <1>1, <1>11, <1>12, <1>13 DEF Next
  <1> QED  BY <1>14 DEF Grown

(* So once a transfer was signed and its handler replaced, it stays so.     *)
LEMMA ExceptionStays ==
  ASSUME RelayTypeOK, RelayTypeOK', [Next]_vars, SignedKeepHandler'
  PROVE  SignedKeepHandler
  <1> SUFFICES ASSUME NEW t \in sent, t.to \in replaced, Enough(signed[t]) PROVE FALSE
    BY DEF SignedKeepHandler
  <1>1. /\ t \in Transfers /\ t \in sent' /\ t.to \in replaced'
        /\ signed[t] \subseteq signed'[t] /\ signed'[t] \subseteq Relayers
    BY HistoryGrows DEF RelayTypeOK
  <1>2. IsFiniteSet(signed'[t]) /\ IsFiniteSet(signed[t])
    BY <1>1, CrossChainAssumption, FS_Subset
  <1>3. Cardinality(signed[t]) <= Cardinality(signed'[t])
    BY <1>1, <1>2, FS_Subset
  <1>4. Cardinality(signed[t]) \in Nat /\ Cardinality(signed'[t]) \in Nat
    BY <1>2, FS_CardinalityType
  <1>5. Enough(signed[t])'
    BY <1>3, <1>4, Asset DEF Enough
  <1> QED  BY <1>1, <1>5 DEF SignedKeepHandler
-----------------------------------------------------------------------------
(* The accounts, as sums over chains and transfers. *)
AmountOf == [t \in Transfers |-> t.amount]

LEMMA AccountsTyped ==
  ASSUME CrossChainTypeOK, IsFiniteSet(sent)
  PROVE  /\ IsFiniteSet(Chains) /\ OutsideOf \in [Chains -> Nat]
         /\ withdrawn \in [Chains -> Nat] /\ InitialOutside \in [Chains -> Nat]
         /\ Total(OutsideOf, Chains) \in Nat /\ Total(withdrawn, Chains) \in Nat
         /\ Total(InitialOutside, Chains) \in Nat
         /\ \A S \in SUBSET sent : Summable(AmountOf, S) /\ Total(AmountOf, S) \in Nat
  <1>1. OutsideOf \in [Chains -> Nat] /\ withdrawn \in [Chains -> Nat]
    BY Asset DEF CrossChainTypeOK, OutsideOf, Outside, Ledger
  <1>2. ASSUME NEW f \in [Chains -> Nat] PROVE Total(f, Chains) \in Nat
    BY TotalNat, CrossChainAssumption DEF Summable
  <1>3. ASSUME NEW S \in SUBSET sent PROVE Summable(AmountOf, S) /\ Total(AmountOf, S) \in Nat
    <2>1. IsFiniteSet(S) /\ S \subseteq Transfers
      BY FS_Subset DEF CrossChainTypeOK
    <2>2. \A t \in Transfers : AmountOf[t] \in Nat
      BY TransferFacts DEF AmountOf
    <2>3. Summable(AmountOf, S)
      BY <2>1, <2>2 DEF Summable
    <2> QED  BY <2>3, TotalNat
  <1> QED  BY <1>1, <1>2, <1>3, CrossChainAssumption

LEMMA AmountIs == \A S : Amount(S) = Total(AmountOf, S)
  BY DEF Amount, AmountOf

LEMMA DeliveredSent == RelayedInv => Delivered \subseteq sent
  BY DEF RelayedInv, SupportInv, Delivered, Executed

(* The balance of the accounts, without its exception. *)
Balanced == Total(OutsideOf, Chains) + Total(AmountOf, sent \ Delivered)
              = Total(InitialOutside, Chains) + Total(withdrawn, Chains)

(* What is sent goes from the users' accounts to the transfers under way.   *)
LEMMA SendConserves ==
  ASSUME CrossChainIInv, IsFiniteSet(sent), Balanced, NEW t \in Transfers, Bridged!Send(t)
  PROVE  Balanced'
  <1>1. /\ t \notin sent /\ OutsideOf[t.from] >= t.amount
        /\ OutsideOf' = [OutsideOf EXCEPT ![t.from] = OutsideOf[t.from] - t.amount]
        /\ sent' = sent \union {t} /\ Delivered' = Delivered /\ withdrawn' = withdrawn
    BY DEF Bridged!Send
  <1>2. /\ IsFiniteSet(Chains) /\ OutsideOf \in [Chains -> Nat]
        /\ Total(OutsideOf, Chains) \in Nat
        /\ Summable(AmountOf, sent \ Delivered) /\ Total(AmountOf, sent \ Delivered) \in Nat
    BY AccountsTyped DEF CrossChainIInv
  <1>3. t.from \in Chains /\ t.amount \in Nat /\ AmountOf[t] = t.amount
    BY TransferFacts DEF AmountOf
  <1>4. /\ Total(OutsideOf', Chains) \in Nat
        /\ Total(OutsideOf, Chains) = Total(OutsideOf', Chains) + t.amount
    <2>1. OutsideOf[t.from] - t.amount \in Nat
      BY <1>1, <1>2, <1>3
    <2> DEFINE after == [OutsideOf EXCEPT ![t.from] = OutsideOf[t.from] - t.amount]
    <2>2. /\ Total(after, Chains) \in Nat
          /\ Total(OutsideOf, Chains) = Total(after, Chains) + t.amount
      <3>1. \A f \in [Chains -> Nat], c \in Chains, n \in Nat : f[c] - n \in Nat =>
               /\ Total([f EXCEPT ![c] = f[c] - n], Chains) \in Nat
               /\ Total(f, Chains) = Total([f EXCEPT ![c] = f[c] - n], Chains) + n
        BY <1>2, TotalLess
      <3> QED  BY <1>2, <1>3, <2>1, <3>1
    <2> QED  BY <1>1, <2>2
  <1>5. sent' \ Delivered' = (sent \ Delivered) \union {t} /\ t \notin sent \ Delivered
    BY <1>1, DeliveredSent DEF CrossChainIInv
  <1>6. Total(AmountOf, sent' \ Delivered') = Total(AmountOf, sent \ Delivered) + t.amount
    <2>1. AmountOf[t] \in Nat
      BY <1>3
    <2>2. Total(AmountOf, (sent \ Delivered) \union {t}) = Total(AmountOf, sent \ Delivered) + AmountOf[t]
      BY <1>2, <1>5, <2>1, TotalAdd
    <2> QED  BY <1>3, <1>5, <2>2
  <1> QED  BY <1>1, <1>2, <1>3, <1>4, <1>6 DEF Balanced

(* What is delivered goes from there to the users of the other chain.       *)
LEMMA DeliverConserves ==
  ASSUME CrossChainIInv, IsFiniteSet(sent), Balanced, NEW t \in Transfers, Bridged!Deliver(t)
  PROVE  Balanced'
  <1>1. /\ t \in sent \ Delivered
        /\ OutsideOf' = [OutsideOf EXCEPT ![t.to] = OutsideOf[t.to] + t.amount]
        /\ Delivered' = Delivered \union {t} /\ sent' = sent /\ withdrawn' = withdrawn
    BY DEF Bridged!Deliver
  <1>2. /\ IsFiniteSet(Chains) /\ OutsideOf \in [Chains -> Nat]
        /\ Total(OutsideOf, Chains) \in Nat /\ Summable(AmountOf, sent \ Delivered)
    BY AccountsTyped DEF CrossChainIInv
  <1>3. t.to \in Chains /\ t.amount \in Nat /\ AmountOf[t] = t.amount
    BY TransferFacts DEF AmountOf
  <1>4. Total(OutsideOf', Chains) = Total(OutsideOf, Chains) + t.amount
    BY <1>1, <1>2, <1>3, TotalMore
  <1>5. sent' \ Delivered' = (sent \ Delivered) \ {t}
    BY <1>1
  <1>6. /\ Total(AmountOf, sent' \ Delivered') \in Nat
        /\ Total(AmountOf, sent \ Delivered) = Total(AmountOf, sent' \ Delivered') + t.amount
    BY <1>1, <1>2, <1>3, <1>5, TotalRemove
  <1> QED  BY <1>1, <1>2, <1>3, <1>4, <1>6 DEF Balanced

(* What an administrator pays out is on both sides. *)
LEMMA PayOutConserves ==
  ASSUME CrossChainIInv, IsFiniteSet(sent), Balanced, NEW c \in Chains, PaysOut(c)
  PROVE  Balanced'
  <1>1. PICK n \in Nat : /\ OutsideOf' = [OutsideOf EXCEPT ![c] = OutsideOf[c] + n]
                         /\ withdrawn' = [withdrawn EXCEPT ![c] = withdrawn[c] + n]
    BY DEF PaysOut, OutsideOf
  <1>2. Delivered' = Delivered /\ sent' = sent
    BY DEF PaysOut
  <1>3. /\ IsFiniteSet(Chains) /\ OutsideOf \in [Chains -> Nat] /\ withdrawn \in [Chains -> Nat]
        /\ Total(OutsideOf, Chains) \in Nat /\ Total(withdrawn, Chains) \in Nat
        /\ Total(InitialOutside, Chains) \in Nat /\ Total(AmountOf, sent \ Delivered) \in Nat
    BY AccountsTyped DEF CrossChainIInv
  <1>4. /\ Total(OutsideOf', Chains) = Total(OutsideOf, Chains) + n
        /\ Total(withdrawn', Chains) = Total(withdrawn, Chains) + n
    BY <1>1, <1>3, TotalMore
  <1> QED  BY <1>2, <1>3, <1>4 DEF Balanced

LEMMA QuietConserves ==
  ASSUME Balanced, Quiet
  PROVE  Balanced'
  BY DEF Balanced, Quiet

LEMMA InitBalanced == Init => Balanced /\ IsFiniteSet(sent)
  <1> SUFFICES ASSUME Init PROVE Balanced /\ IsFiniteSet(sent)
    OBVIOUS
  <1>1. Bridged!Init
    BY InitRefines
  <1>2. OutsideOf = InitialOutside /\ sent \ Delivered = {} /\ sent = {}
    BY <1>1 DEF Bridged!Init
  <1>3. Total(withdrawn, Chains) = 0
    <2>1. \A S : S = {} => Total(withdrawn, S) = 0
      BY TotalEmpty
    <2>2. Units(withdrawn, Chains) = {}
      BY DEF Init, Units
    <2> QED  BY <2>2, FS_EmptySet DEF Total
  <1>4. IsFiniteSet({})
    BY FS_EmptySet
  <1>5. Total(InitialOutside, Chains) \in Nat
    BY TotalNat, CrossChainAssumption DEF Summable
  <1> QED  BY <1>2, <1>3, <1>4, <1>5, TotalEmpty DEF Balanced

(* The balance is kept by every step after which the exception has not      *)
(* occurred: before it, it had not occurred either.                         *)
LEMMA StepConserves ==
  ASSUME CrossChainIInv, CrossChainIInv', IsFiniteSet(sent), ValueConserved, [Next]_vars
  PROVE  IsFiniteSet(sent') /\ ValueConserved'
  <1>1. CoreInv
    BY TwoParts DEF CoreInv, CrossChainIInv
  <1>2. RelayTypeOK /\ RelayTypeOK'
    BY DEF CrossChainIInv, CrossChainTypeOK, RelayTypeOK
  <1>3. IsFiniteSet(sent')
    BY <1>2, HistoryGrows, FS_AddElement
  <1>4. ASSUME SignedKeepHandler' PROVE Balanced'
    <2>1. Balanced
      BY <1>2, <1>4, ExceptionStays, AmountIs DEF ValueConserved, Balanced
    <2>2. \/ \E t \in Transfers : Bridged!Send(t)
          \/ \E t \in Transfers, k \in Handlers : Executes(t, k)
          \/ \E c \in Chains : PaysOut(c)
          \/ Quiet
      BY <1>1, StepSound, StutterSound
    <2> QED  BY <1>4, <2>1, <2>2, SendConserves, ExecutionDelivers, DeliverConserves,
                PayOutConserves, QuietConserves
  <1> QED  BY <1>3, <1>4, AmountIs DEF ValueConserved, Balanced

-----------------------------------------------------------------------------
(* What an outcome that keeps the handler's storage does to the chains. *)
LEMMA LedgerAfter ==
  ASSUME TokensOK, NEW c \in Chains, NEW k \in Handlers, NEW o,
         o.handler = store[c][k], UseOutcome(c, k, o)
  PROVE  /\ store' = store
         /\ \A d \in Chains : ledger'[d] = IF d = c THEN o.ledger ELSE ledger[d]
  <1>1. /\ store' = [store EXCEPT ![c] = [store[c] EXCEPT ![k] = store[c][k]]]
        /\ ledger' = [ledger EXCEPT ![c] = o.ledger]
    BY DEF UseOutcome
  <1>2. store \in [Chains -> [Handlers -> HandlerState]] /\ ledger \in [Chains -> Ledger]
    BY DEF TokensOK
  <1>3. [store[c] EXCEPT ![k] = store[c][k]] = store[c]
    BY <1>2
  <1> QED  BY <1>1, <1>2, <1>3

LEMMA HomeBalances ==
  ASSUME TokensOK
  PROVE  Outside(Home) \in Nat /\ \A j \in Handlers : ledger[Home][token][j] \in Nat
  BY Asset, CrossChainAssumption DEF TokensOK, Outside, Ledger

(* A deposit on the chain of issue moves tokens from the users to the       *)
(* handler that has all the others.                                         *)
LEMMA DepositLocks ==
  ASSUME TokensOK, RelayTypeOK, LockedAtHome, NEW t \in Transfers, deposit(t)
  PROVE  LockedAtHome'
  <1> DEFINE k == handlerOf[t.from]
  <1>1. /\ CrossChainTypeOK /\ NeverNative /\ t.from \in Chains /\ k \in Handlers
        /\ UNCHANGED <<handlerOf, replaced>>
    BY TwoParts, TransferFacts DEF TokensOK, deposit, RelayTypeOK, config
  <1>2. PICK o \in Taken(t, k) : UseOutcome(t.from, k, o)
    BY DEF deposit
  <1>3. /\ o.handler = store[t.from][k] /\ t.amount \in Nat
        /\ Outside(t.from) >= t.amount
        /\ o.ledger[token][users] = Outside(t.from) - t.amount
        /\ token \notin store[t.from][k].burnList =>
              /\ o.ledger[token][k] = ledger[t.from][token][k] + t.amount
              /\ \A j \in Handlers \ {k} : o.ledger[token][j] = ledger[t.from][token][j]
    BY <1>1, <1>2, TakenSound, TransferFacts
  <1>4. /\ store' = store
        /\ \A d \in Chains : ledger'[d] = IF d = t.from THEN o.ledger ELSE ledger[d]
    BY <1>1, <1>2, <1>3, LedgerAfter
  <1>5. CASE t.from # Home
    BY <1>1, <1>4, <1>5, CrossChainAssumption DEF LockedAtHome, Outside
  <1>6. CASE t.from = Home
    <2>1. /\ ledger'[Home] = o.ledger /\ handlerOf'[Home] = k /\ k # NoHandler
          /\ handlerOf[Home] = k /\ store'[Home][k] = store[Home][k]
      BY <1>1, <1>4, <1>6, Asset
    <2> HIDE DEF k
    <2>2. Outside(Home)' = Outside(Home) - t.amount
      BY <1>3, <1>6, <2>1 DEF Outside
    <2> QED  BY <1>1, <1>3, <1>4, <1>6, <2>1, <2>2, HomeBalances DEF LockedAtHome
  <1> QED  BY <1>5, <1>6

(* An execution on it moves them back. *)
LEMMA ExecuteReleases ==
  ASSUME TokensOK, RelayTypeOK, LockedAtHome, NEW t \in Transfers, handlerOf[t.to] # NoHandler,
         Execute(t, handlerOf[t.to]), UNCHANGED <<handlerOf, replaced>>
  PROVE  LockedAtHome'
  <1> DEFINE k == handlerOf[t.to]
  <1>1. CrossChainTypeOK /\ NeverNative /\ t.to \in Chains /\ k \in Handlers
    BY TwoParts, TransferFacts DEF TokensOK, RelayTypeOK
  <1>2. PICK o \in Given(t, k) : UseOutcome(t.to, k, o)
    BY DEF Execute
  <1>3. /\ o.handler = store[t.to][k] /\ t.amount \in Nat
        /\ o.ledger[token][users] = Outside(t.to) + t.amount
        /\ token \notin store[t.to][k].burnList =>
              /\ o.ledger[token][k] = ledger[t.to][token][k] - t.amount
              /\ \A j \in Handlers \ {k} : o.ledger[token][j] = ledger[t.to][token][j]
    BY <1>1, <1>2, GivenSound, TransferFacts
  <1>4. /\ store' = store
        /\ \A d \in Chains : ledger'[d] = IF d = t.to THEN o.ledger ELSE ledger[d]
    BY <1>1, <1>2, <1>3, LedgerAfter
  <1>5. CASE t.to # Home
    BY <1>1, <1>4, <1>5, CrossChainAssumption DEF LockedAtHome, Outside
  <1>6. CASE t.to = Home
    <2>1. /\ ledger'[Home] = o.ledger /\ handlerOf'[Home] = k /\ k # NoHandler
          /\ handlerOf[Home] = k /\ store'[Home][k] = store[Home][k]
      BY <1>1, <1>4, <1>6, Asset
    <2> HIDE DEF k
    <2>2. Outside(Home)' = Outside(Home) + t.amount
      BY <1>3, <1>6, <2>1 DEF Outside
    <2> QED  BY <1>1, <1>3, <1>4, <1>6, <2>1, <2>2, HomeBalances DEF LockedAtHome
  <1> QED  BY <1>5, <1>6

(* So does a withdrawal: only that handler has anything to withdraw.        *)
LEMMA WithdrawalReleases ==
  ASSUME TokensOK, RelayTypeOK, LockedAtHome, NEW c \in Chains, NEW k \in Handlers,
         NEW n \in Withdrawals, adminWithdraw(c, k, n)
  PROVE  LockedAtHome'
  <1>1. n \in Nat /\ ledger[c] \in Ledger /\ UNCHANGED <<handlerOf, replaced>>
    BY CrossChainAssumption DEF TokensOK, adminWithdraw, config
  <1>2. PICK o \in releaseERC20(k, store[c][k], ledger[c], token, users, n) : UseOutcome(c, k, o)
    BY DEF adminWithdraw
  <1>3. /\ ledger[c][token][k] >= n /\ o.handler = store[c][k]
        /\ o.ledger = Move(ledger[c], token, k, users, n)
    BY <1>2 DEF releaseERC20, When, Outcome
  <1>4. /\ o.ledger[token][k] = ledger[c][token][k] - n
        /\ o.ledger[token][users] = ledger[c][token][users] + n
        /\ \A j \in Handlers \ {k} : o.ledger[token][j] = ledger[c][token][j]
    <2>1. users # k /\ k \in Holders /\ users \in Holders /\ Handlers \subseteq Holders
          /\ users \notin Handlers
      BY Asset
    <2>2. /\ o.ledger[token][k] = ledger[c][token][k] - n
          /\ o.ledger[token][users] = ledger[c][token][users] + n
          /\ \A y \in Holders \ {k, users} : o.ledger[token][y] = ledger[c][token][y]
      BY <1>1, <1>3, <2>1, MoveSound
    <2> QED  BY <2>1, <2>2
  <1>5. /\ store' = store
        /\ \A d \in Chains : ledger'[d] = IF d = c THEN o.ledger ELSE ledger[d]
    BY <1>2, <1>3, LedgerAfter
  <1>6. CASE c # Home
    BY <1>1, <1>5, <1>6, CrossChainAssumption DEF LockedAtHome, Outside
  <1>7. CASE c = Home
    <2>1. ledger'[Home] = o.ledger /\ Outside(Home)' = Outside(Home) + n
      BY <1>4, <1>5, <1>7, CrossChainAssumption DEF Outside
    <2>2. /\ Outside(Home) \in Nat /\ \A j \in Handlers : ledger[Home][token][j] \in Nat
          /\ ledger'[Home][token][k] = ledger[Home][token][k] - n
          /\ \A j \in Handlers \ {k} : ledger'[Home][token][j] = ledger[Home][token][j]
      BY <1>4, <1>7, <2>1, HomeBalances
    <2>3. CASE n = 0
      <3>1. Outside(Home)' = Outside(Home)
        BY <2>1, <2>2, <2>3
      <3>2. \A j \in Handlers : ledger'[Home][token][j] = ledger[Home][token][j]
        BY <2>2, <2>3
      <3>3. handlerOf[Home] # NoHandler => handlerOf[Home] \in Handlers
        BY CrossChainAssumption DEF RelayTypeOK
      <3> QED  BY <1>1, <1>5, <3>1, <3>2, <3>3 DEF LockedAtHome
    <2>4. CASE n # 0
      <3>1. ledger[Home][token][k] # 0
        BY <1>1, <1>3, <1>7, <2>2, <2>4
      <3>2. CASE handlerOf[Home] = k /\ token \notin store[Home][k].burnList /\ Home \notin replaced
        <4>1. /\ ledger[Home][token][k] + Outside(Home) = InitialOutside[Home]
              /\ \A j \in Handlers \ {k} : ledger[Home][token][j] = 0
          BY <3>2, Asset DEF LockedAtHome
        <4>2. ledger'[Home][token][k] + Outside(Home)' = InitialOutside[Home]
          BY <1>1, <2>1, <2>2, <4>1
        <4> QED  BY <1>1, <1>5, <2>2, <3>2, <4>1, <4>2, Asset DEF LockedAtHome
      <3>3. CASE ~(handlerOf[Home] = k /\ token \notin store[Home][k].burnList /\ Home \notin replaced)
        BY <1>1, <1>5, <3>1, <3>3 DEF LockedAtHome
      <3> QED  BY <3>2, <3>3
    <2> QED  BY <2>3, <2>4
  <1> QED  BY <1>6, <1>7

(* The configuration moves nothing; it can only set a first handler, or     *)
(* replace or remove it, or make the token burnable.                        *)
LEMMA ConfigurationLocks ==
  ASSUME TokensOK, RelayTypeOK, LockedAtHome, NEW c \in Chains,
         \/ adminRemoveResourceId(c)
         \/ \E k \in Handlers : adminSetResource(c, k) \/ adminSetBurnable(c, k)
  PROVE  LockedAtHome'
  <1>1. /\ store \in [Chains -> [Handlers -> HandlerState]]
        /\ \A k \in Handlers : store[c][k] \in HandlerState /\ store[c][k].isNative = {}
        /\ handlerOf \in [Chains -> Handlers \union {NoHandler}] /\ Home \in Chains
    BY CrossChainAssumption DEF TokensOK, NeverNative, RelayTypeOK
  <1>2. CASE adminRemoveResourceId(c)
    <2>1. /\ handlerOf[c] # NoHandler /\ SetHandler(c, NoHandler) /\ UNCHANGED ledger
          /\ SetStore(c, handlerOf[c], _removeResource(store[c][handlerOf[c]], resource, token))
      BY <1>2 DEF adminRemoveResourceId, SetHandler
    <2>2. replaced' = replaced \union {c} /\ handlerOf' = [handlerOf EXCEPT ![c] = NoHandler]
      BY <2>1 DEF SetHandler
    <2>3. store' = [store EXCEPT ![c] = [store[c] EXCEPT ![handlerOf[c]] =
                      _removeResource(store[c][handlerOf[c]], resource, token)]]
      BY <2>1 DEF SetStore
    <2>4. CASE c = Home
      BY <2>2, <2>4 DEF LockedAtHome
    <2>5. CASE c # Home
      <3>1. store'[Home] = store[Home] /\ handlerOf'[Home] = handlerOf[Home]
        BY <1>1, <2>2, <2>3, <2>5
      <3> QED  BY <2>1, <2>2, <2>5, <3>1 DEF LockedAtHome, Outside
    <2> QED  BY <2>4, <2>5
  <1>3. ASSUME NEW k \in Handlers, adminSetResource(c, k) PROVE LockedAtHome'
    <2> DEFINE h == _setResource(store[c][k], resource, token)
    <2>1. /\ SetHandler(c, k) /\ SetStore(c, k, h) /\ UNCHANGED ledger
          /\ h.burnList = store[c][k].burnList
      BY <1>1, <1>3, AssetConfig DEF adminSetResource, SetHandler
    <2> HIDE DEF h
    <2>2. /\ handlerOf' = [handlerOf EXCEPT ![c] = k]
          /\ replaced' = IF handlerOf[c] \in {k, NoHandler} THEN replaced ELSE replaced \union {c}
          /\ store' = [store EXCEPT ![c] = [store[c] EXCEPT ![k] = h]]
      BY <2>1 DEF SetHandler, SetStore
    <2>3. \A d \in Chains, j \in Handlers : store'[d][j].burnList = store[d][j].burnList
      <3>1. \A d \in Chains, j \in Handlers :
               store'[d][j] = IF d = c /\ j = k THEN h ELSE store[d][j]
        BY <1>1, <2>2
      <3> QED  BY <2>1, <3>1
    <2>4. handlerOf'[Home] = IF c = Home THEN k ELSE handlerOf[Home]
      BY <1>1, <2>2
    <2>5. Outside(Home)' = Outside(Home) /\ ledger'[Home] = ledger[Home]
      BY <2>1 DEF Outside
    <2> QED  BY <1>1, <2>2, <2>3, <2>4, <2>5, HomeBalances, Asset DEF LockedAtHome
  <1>4. ASSUME NEW k \in Handlers, adminSetBurnable(c, k) PROVE LockedAtHome'
    <2>1. PICK h \in _setBurnable(store[c][k], token) : SetStore(c, k, h)
      BY <1>4 DEF adminSetBurnable
    <2>2. /\ token \in h.burnList /\ store' = [store EXCEPT ![c] = [store[c] EXCEPT ![k] = h]]
          /\ UNCHANGED <<handlerOf, replaced, ledger>>
      BY <1>1, <1>4, <2>1, AssetConfig DEF adminSetBurnable, SetStore, config
    <2>3. \A j \in Handlers : store'[Home][j] = IF Home = c /\ j = k THEN h ELSE store[Home][j]
      BY <1>1, <2>2
    <2>4. handlerOf[Home] # NoHandler => handlerOf[Home] \in Handlers
      BY <1>1
    <2> QED  BY <2>2, <2>3, <2>4 DEF LockedAtHome, Outside
  <1> QED  BY <1>2, <1>3, <1>4

LEMMA StepLocks ==
  ASSUME CoreInv, LockedAtHome, [Next]_vars
  PROVE  LockedAtHome'
  <1>1. TokensOK /\ RelayTypeOK
    BY DEF CoreInv
  <1>2. ASSUME UNCHANGED <<handlerOf, replaced, store, ledger>> PROVE LockedAtHome'
    BY <1>2 DEF LockedAtHome, Outside
  <1>3. ASSUME NEW t \in Transfers, executeProposal(t) \/ voteProposals(t) PROVE LockedAtHome'
    <2>1. /\ handlerOf[t.to] # NoHandler /\ Execute(t, handlerOf[t.to])
          /\ UNCHANGED <<handlerOf, replaced>>
      BY <1>3 DEF executeProposal, voteProposals, config
    <2> QED  BY <1>1, <2>1, ExecuteReleases
  <1>4. ASSUME NEW t \in Transfers, NEW r \in Relayers, voteProposal(r, t) PROVE LockedAtHome'
    <2>1. /\ handlerOf[t.to] # NoHandler /\ UNCHANGED <<handlerOf, replaced>>
          /\ Execute(t, handlerOf[t.to]) \/ UNCHANGED <<store, ledger>>
      BY <1>4 DEF voteProposal, config, tokens
    <2> QED  BY <1>1, <1>2, <2>1, ExecuteReleases
  <1>5. ASSUME NEW t \in Transfers, NEW r \in Relayers, sign(r, t) PROVE LockedAtHome'
    BY <1>2, <1>5 DEF sign, config, tokens
  <1>6. ASSUME NEW p \in Proposals, cancelProposal(p) PROVE LockedAtHome'
    BY <1>2, <1>6 DEF cancelProposal, config, tokens
  <1>7. ASSUME Relay PROVE LockedAtHome'
    BY <1>3, <1>4, <1>5, <1>6, <1>7 DEF Relay
  <1>8. ASSUME Configure PROVE LockedAtHome'
    BY <1>1, <1>8, ConfigurationLocks, WithdrawalReleases DEF Configure
  <1>9. ASSUME UNCHANGED vars PROVE LockedAtHome'
    BY <1>2, <1>9 DEF vars, config, tokens
  <1> QED  BY <1>1, <1>7, <1>8, <1>9, DepositLocks DEF Next

LEMMA InitLocked == Init => LockedAtHome
  <1> SUFFICES ASSUME Init PROVE LockedAtHome
    OBVIOUS
  <1>1. ledger[Home] = StartLedger(Home) /\ handlerOf[Home] = NoHandler
    BY CrossChainAssumption DEF Init
  <1> QED  BY <1>1, Asset DEF LockedAtHome, StartLedger, Outside

(* The rest is arithmetic: what is under way to the chain of issue is part  *)
(* of what is under way, and what circulates there is part of what          *)
(* circulates.                                                              *)
LEMMA CoveredFromBalance ==
  ASSUME CrossChainIInv, IsFiniteSet(sent), LockedAtHome, ValueConserved
  PROVE  PendingCovered
  <1> DEFINE k == handlerOf[Home]
             open == sent \ Delivered
             pending == {t \in open : t.to = Home /\ t.from # Home}
  <1> SUFFICES ASSUME k # NoHandler, Mode(store[Home][k], token) = "lock",
                      Home \notin replaced, SignedKeepHandler, IssuedAtHome
               PROVE  ledger[Home][token][k] + Total(withdrawn, Chains) >= Amount(pending)
    BY DEF PendingCovered
  <1>1. /\ OutsideOf \in [Chains -> Nat] /\ Home \in Chains
        /\ Total(OutsideOf, Chains) \in Nat /\ Total(withdrawn, Chains) \in Nat
        /\ Total(InitialOutside, Chains) \in Nat
        /\ Summable(AmountOf, open) /\ Total(AmountOf, open) \in Nat
        /\ Summable(OutsideOf, Chains) /\ Summable(InitialOutside, Chains)
    BY AccountsTyped, CrossChainAssumption DEF CrossChainIInv, Summable
  <1>2. Total(OutsideOf, Chains) + Total(AmountOf, open)
          = Total(InitialOutside, Chains) + Total(withdrawn, Chains)
    BY AmountIs DEF ValueConserved
  <1>3. Total(AmountOf, pending) <= Total(AmountOf, open) /\ Total(AmountOf, pending) \in Nat
    <2>1. pending \in SUBSET open
      OBVIOUS
    <2> HIDE DEF pending, open
    <2> QED  BY <1>1, <2>1, TotalPart, TotalNat
  <1>4. OutsideOf[Home] <= Total(OutsideOf, Chains) /\ OutsideOf[Home] \in Nat
    <2>1. {Home} \in SUBSET Chains /\ OutsideOf[Home] \in Nat
      BY <1>1
    <2>2. Total(OutsideOf, {Home}) <= Total(OutsideOf, Chains)
      BY <1>1, <2>1, TotalPart
    <2> QED  BY <2>1, <2>2, TotalOne
  <1>5. Total(InitialOutside, Chains) = InitialOutside[Home] /\ InitialOutside[Home] \in Nat
    <2>1. /\ Total(InitialOutside, Chains)
                = Total(InitialOutside, Chains \ {Home}) + InitialOutside[Home]
      BY <1>1, TotalRemove
    <2>2. Total(InitialOutside, Chains \ {Home}) = 0
      <3>1. Units(InitialOutside, Chains \ {Home}) = {}
        BY DEF Units, IssuedAtHome
      <3> QED  BY <3>1, FS_EmptySet DEF Total
    <2> QED  BY <2>1, <2>2, CrossChainAssumption
  <1>6. ledger[Home][token][k] + OutsideOf[Home] = InitialOutside[Home]
        /\ ledger[Home][token][k] \in Nat
    <2>1. token \notin store[Home][k].burnList
      BY DEF Mode
    <2>2. OutsideOf[Home] = Outside(Home) /\ k \in Handlers
      BY <1>1 DEF OutsideOf, CrossChainIInv, CrossChainTypeOK
    <2> QED  BY <2>1, <2>2, HomeBalances, TwoParts DEF LockedAtHome, CrossChainIInv
  <1> HIDE DEF k, open, pending
  <1> QED  BY <1>1, <1>2, <1>3, <1>4, <1>5, <1>6, AmountIs

(* The inductive invariant of the accounts. *)
THEOREM AccountsInvariance == Spec => []AccountsIInv
  <1> DEFINE Inv == IsFiniteSet(sent) /\ LockedAtHome /\ ValueConserved
  <1>1. Init => Inv
    BY InitBalanced, InitLocked, AmountIs DEF ValueConserved, Balanced
  <1>2. CrossChainIInv /\ CrossChainIInv' /\ Inv /\ [Next]_vars => Inv'
    BY StepConserves, StepLocks, TwoParts DEF CoreInv, CrossChainIInv
  <1>3. CrossChainIInv /\ Inv => AccountsIInv
    BY DEF AccountsIInv
  <1> HIDE DEF Inv
  <1> QED  BY <1>1, <1>2, <1>3, CrossChainInvariance, PTL DEF Spec

(* Between the chains nothing is created and nothing is lost, for any       *)
(* chains, transfers and handlers, in every mode of the handlers and        *)
(* through every change of mode or handler: an execution releases what a    *)
(* deposit took, once.                                                      *)
THEOREM NothingLost == Spec => []ValueConserved
  <1>1. AccountsIInv => ValueConserved
    BY DEF AccountsIInv
  <1> QED  BY <1>1, AccountsInvariance, PTL

(* The chain of issue can pay what is under way to it, whatever is done to  *)
(* the handlers of the other chains, up to what was paid out by hand.       *)
THEOREM ReturnsPaid == Spec => []PendingCovered
  <1>1. AccountsIInv => PendingCovered
    BY CoveredFromBalance DEF AccountsIInv
  <1> QED  BY <1>1, AccountsInvariance, PTL
=============================================================================
