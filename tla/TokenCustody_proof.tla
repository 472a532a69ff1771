------------------------- MODULE TokenCustody_proof -------------------------
(***************************************************************************)
(* Proofs about TokenCustody: no balance becomes negative, every handler's *)
(* recorded reserve is backed by ether, and the bridge holds exactly the   *)
(* fees it has not paid out, for any handlers, tokens, users and amounts.  *)
(***************************************************************************)
EXTENDS TokenCustody, FiniteSetTheorems, TLAPS

(* The ledger after a transfer. *)
LEMMA MoveSound ==
  ASSUME NEW l \in Ledger, NEW asset \in Assets, NEW from \in Holders, NEW to \in Holders,
         NEW n \in Nat, l[asset][from] >= n
  PROVE  /\ Move(l, asset, from, to, n) \in Ledger
         /\ \A x \in Assets : x # asset => Move(l, asset, from, to, n)[x] = l[x]
         /\ from = to => Move(l, asset, from, to, n)[asset][from] = l[asset][from]
         /\ from # to => /\ Move(l, asset, from, to, n)[asset][from] = l[asset][from] - n
                         /\ Move(l, asset, from, to, n)[asset][to] = l[asset][to] + n
         /\ \A y \in Holders \ {from, to} : Move(l, asset, from, to, n)[asset][y] = l[asset][y]
  <1> DEFINE row == l[asset]
             row1 == [row EXCEPT ![from] = row[from] - n]
             row2 == [row1 EXCEPT ![to] = row1[to] + n]
  <1>1. row \in [Holders -> Nat] /\ row[from] >= n
    BY DEF Ledger
  <1>2. row1 \in [Holders -> Nat] /\ row2 \in [Holders -> Nat]
    <2> HIDE DEF row
    <2>1. row1 \in [Holders -> Nat]
      BY <1>1
    <2> HIDE DEF row1
    <2> QED  BY <2>1
  <1>3. /\ from = to => row2[from] = row[from]
        /\ from # to => row2[from] = row[from] - n /\ row2[to] = row[to] + n
        /\ \A y \in Holders \ {from, to} : row2[y] = row[y]
    <2> HIDE DEF row
    <2> QED  BY <1>1
  <1>4. Move(l, asset, from, to, n) = [l EXCEPT ![asset] = row2]
    BY DEF Move, Ledger
  <1> HIDE DEF row2
  <1>5. /\ [l EXCEPT ![asset] = row2] \in Ledger
        /\ [l EXCEPT ![asset] = row2][asset] = row2
        /\ \A x \in Assets : x # asset => [l EXCEPT ![asset] = row2][x] = l[x]
    BY <1>2 DEF Ledger
  <1> QED  BY <1>3, <1>4, <1>5

(* Minting and burning move no ether. *)
LEMMA MintBurnSound ==
  ASSUME NEW l \in Ledger, NEW token \in Tokens, NEW who \in Holders, NEW n \in Nat
  PROVE  /\ Minted(l, token, who, n) \in Ledger /\ Minted(l, token, who, n)[Ether] = l[Ether]
         /\ l[token][who] >= n => /\ Burned(l, token, who, n) \in Ledger
                                  /\ Burned(l, token, who, n)[Ether] = l[Ether]
  <1>1. token \in Assets /\ Ether \in Assets /\ token # Ether
    BY AssetAssumption DEF Assets
  <1>2. l[token] \in [Holders -> Nat] /\ l[token][who] \in Nat
    BY <1>1 DEF Ledger
  <1>3. Minted(l, token, who, n) = [l EXCEPT ![token] = [l[token] EXCEPT ![who] = l[token][who] + n]]
    BY DEF Minted
  <1>4. Burned(l, token, who, n) = [l EXCEPT ![token] = [l[token] EXCEPT ![who] = l[token][who] - n]]
    BY DEF Burned
  <1>5. [l[token] EXCEPT ![who] = l[token][who] + n] \in [Holders -> Nat]
    BY <1>2
  <1>6. l[token][who] >= n => [l[token] EXCEPT ![who] = l[token][who] - n] \in [Holders -> Nat]
    BY <1>2
  <1> QED  BY <1>1, <1>3, <1>4, <1>5, <1>6 DEF Ledger

(* What a handler's deposit leaves behind. *)
LEMMA TakeSound ==
  ASSUME NEW self \in Holders, NEW h \in HandlerState, NEW l \in Ledger, NEW r \in Resources,
         NEW who \in Holders, NEW amount \in Nat, NEW value \in Nat,
         h.ETHReserve <= l[Ether][self],
         NEW o \in Take(self, h, l, r, who, amount, value)
  PROVE  /\ o.handler \in HandlerState /\ o.ledger \in Ledger
         /\ o.ledger[Ether] = l[Ether]
         /\ o.handler.ETHReserve <= l[Ether][self]
  <1>1. PICK token \in {h.tokenOf[r]} \intersect h.whitelist :
          o \in IF Mode(h, token) = "burn" THEN burnERC20(h, l, token, who, amount)
                ELSE IF Mode(h, token) = "native" THEN depositETH(self, h, l, amount, value)
                ELSE lockERC20(self, h, l, token, who, amount)
    BY DEF Take
  <1>2. /\ token \in Tokens /\ token \in Assets /\ Ether \in Assets /\ token # Ether
        /\ l[Ether][self] \in Nat
    BY <1>1, AssetAssumption DEF HandlerState, Assets, Ledger
  <1>3. CASE o \in burnERC20(h, l, token, who, amount)
    <2>1. l[token][who] >= amount /\ o.handler = h /\ o.ledger = Burned(l, token, who, amount)
      BY <1>3 DEF burnERC20, When, Outcome
    <2> QED  BY <1>2, <2>1, MintBurnSound
  <1>4. CASE o \in depositETH(self, h, l, amount, value)
    <2>1. o.handler = [h EXCEPT !.ETHReserve = l[Ether][self]] /\ o.ledger = l
      BY <1>4 DEF depositETH, When, Outcome
    <2>2. [h EXCEPT !.ETHReserve = l[Ether][self]] \in HandlerState
      BY <1>2 DEF HandlerState
    <2>3. o.handler.ETHReserve = l[Ether][self]
      BY <2>1 DEF HandlerState
    <2> QED  BY <1>2, <2>1, <2>2, <2>3
  <1>5. CASE o \in lockERC20(self, h, l, token, who, amount)
    <2>1. l[token][who] >= amount /\ o.handler = h /\ o.ledger = Move(l, token, who, self, amount)
      BY <1>5 DEF lockERC20, When, Outcome
    <2>2. o.ledger \in Ledger /\ o.ledger[Ether] = l[Ether]
      BY <1>2, <2>1, MoveSound
    <2> QED  BY <2>1, <2>2
  <1> QED  BY <1>1, <1>3, <1>4, <1>5

(* What a payment of ether leaves behind. *)
LEMMA WithdrawSound ==
  ASSUME NEW self \in Holders, NEW h \in HandlerState, NEW l \in Ledger, NEW to \in Holders,
         NEW amount \in Nat, NEW o \in withdrawETH(self, h, l, to, amount)
  PROVE  /\ o.handler \in HandlerState /\ o.ledger \in Ledger /\ to \in Payable
         /\ o.handler.ETHReserve = o.ledger[Ether][self]
         /\ \A y \in Holders \ {self} : o.ledger[Ether][y] >= l[Ether][y]
         /\ \A y \in Holders \ {self, to} : o.ledger[Ether][y] = l[Ether][y]
  <1> DEFINE moved == Move(l, Ether, self, to, amount)
  <1>1. /\ to \in Payable /\ l[Ether][self] >= amount
        /\ o.handler = [h EXCEPT !.ETHReserve = moved[Ether][self]] /\ o.ledger = moved
    BY DEF withdrawETH, When, Outcome, Reduced
  <1>2. Ether \in Assets /\ \A y \in Holders : l[Ether][y] \in Nat
    BY DEF Assets, Ledger
  <1>3. /\ moved \in Ledger
        /\ \A y \in Holders \ {self} : moved[Ether][y] >= l[Ether][y]
        /\ \A y \in Holders \ {self, to} : moved[Ether][y] = l[Ether][y]
    <2>1. /\ moved \in Ledger
          /\ self # to => moved[Ether][to] = l[Ether][to] + amount
          /\ \A y \in Holders \ {self, to} : moved[Ether][y] = l[Ether][y]
      BY <1>1, <1>2, MoveSound
    <2> HIDE DEF moved
    <2> QED  BY <1>2, <2>1
  <1> HIDE DEF moved
  <1>4. moved[Ether][self] \in Nat
    BY <1>2, <1>3 DEF Ledger
  <1>5. [h EXCEPT !.ETHReserve = moved[Ether][self]] \in HandlerState
    BY <1>4 DEF HandlerState
  <1>6. o.handler.ETHReserve = moved[Ether][self]
    BY <1>1 DEF HandlerState
  <1> QED  BY <1>1, <1>3, <1>5, <1>6

(* What a handler's execution leaves behind. *)
LEMMA GiveSound ==
  ASSUME NEW self \in Holders, NEW h \in HandlerState, NEW l \in Ledger, NEW r \in Resources,
         NEW to \in Holders, NEW amount \in Nat, h.ETHReserve <= l[Ether][self],
         NEW o \in Give(self, h, l, r, to, amount)
  PROVE  /\ o.handler \in HandlerState /\ o.ledger \in Ledger
         /\ o.handler.ETHReserve <= o.ledger[Ether][self]
         /\ \A y \in Holders \ {self} : o.ledger[Ether][y] >= l[Ether][y]
         /\ \A y \in Holders \ ({self} \union Payable) : o.ledger[Ether][y] = l[Ether][y]
  <1>1. PICK token \in {h.tokenOf[r]} \intersect h.whitelist :
          o \in IF Mode(h, token) = "burn" THEN mintERC20(h, l, token, to, amount)
                ELSE IF Mode(h, token) = "native" THEN withdrawETH(self, h, l, to, amount)
                ELSE releaseERC20(self, h, l, token, to, amount)
    BY DEF Give
  <1>2. /\ token \in Tokens /\ token \in Assets /\ Ether \in Assets /\ token # Ether
        /\ \A y \in Holders : l[Ether][y] \in Nat
    BY <1>1, AssetAssumption DEF HandlerState, Assets, Ledger
  <1>3. CASE o \in mintERC20(h, l, token, to, amount)
    <2>1. o.handler = h /\ o.ledger = Minted(l, token, to, amount)
      BY <1>3 DEF mintERC20, Outcome
    <2>2. o.ledger \in Ledger /\ o.ledger[Ether] = l[Ether]
      BY <1>2, <2>1, MintBurnSound
    <2> QED  BY <1>2, <2>1, <2>2
  <1>4. CASE o \in withdrawETH(self, h, l, to, amount)
    <2>1. /\ o.handler \in HandlerState /\ o.ledger \in Ledger /\ to \in Payable
          /\ o.handler.ETHReserve = o.ledger[Ether][self]
          /\ \A y \in Holders \ {self} : o.ledger[Ether][y] >= l[Ether][y]
          /\ \A y \in Holders \ {self, to} : o.ledger[Ether][y] = l[Ether][y]
      BY <1>4, WithdrawSound
    <2>2. o.ledger[Ether][self] \in Nat
      BY <1>2, <2>1 DEF Ledger
    <2> QED  BY <2>1, <2>2
  <1>5. CASE o \in releaseERC20(self, h, l, token, to, amount)
    <2>1. l[token][self] >= amount /\ o.handler = h /\ o.ledger = Move(l, token, self, to, amount)
      BY <1>5 DEF releaseERC20, When, Outcome
    <2>2. o.ledger \in Ledger /\ o.ledger[Ether] = l[Ether]
      BY <1>2, <2>1, MoveSound
    <2> QED  BY <1>2, <2>1, <2>2
  <1> QED  BY <1>1, <1>3, <1>4, <1>5
(* New maps and a new whitelist are all that setting a resource changes. *)
WithMaps(h, m, s, w) == [h EXCEPT !.tokenOf = m, !.resourceOf = s, !.whitelist = w]

LEMMA MapsReplaced ==
  ASSUME NEW h \in HandlerState, NEW w \in SUBSET Tokens,
         NEW m \in [Resources -> Tokens \union {NoToken}],
         NEW s \in [Tokens -> Resources \union {NoResource}]
  PROVE  /\ WithMaps(h, m, s, w) \in HandlerState
         /\ WithMaps(h, m, s, w).ETHReserve = h.ETHReserve
         /\ WithMaps(h, m, s, w).isNative = h.isNative
  BY DEF HandlerState, WithMaps

(* The operators that change a handler's configuration keep its reserve. *)
LEMMA HandlerConfigSound ==
  ASSUME NEW h \in HandlerState, NEW r \in Resources, NEW t \in Tokens, NEW b \in BOOLEAN
  PROVE  /\ _setResource(h, r, t) \in HandlerState /\ _setResource(h, r, t).ETHReserve = h.ETHReserve
         /\ _removeResource(h, r, t) \in HandlerState
         /\ _removeResource(h, r, t).ETHReserve = h.ETHReserve
         /\ setNative(h, t, b) \in HandlerState /\ setNative(h, t, b).ETHReserve = h.ETHReserve
         /\ _setResource(h, r, t).isNative = h.isNative
         /\ _removeResource(h, r, t).isNative = h.isNative
         /\ \A g \in _setBurnable(h, t) :
               g \in HandlerState /\ g.ETHReserve = h.ETHReserve /\ g.isNative = h.isNative
  <1> DEFINE added   == [h.tokenOf EXCEPT ![r] = t]
             removed == [h.tokenOf EXCEPT ![r] = NoToken]
             named   == [h.resourceOf EXCEPT ![t] = r]
             unnamed == [h.resourceOf EXCEPT ![t] = NoResource]
  <1>1. /\ added \in [Resources -> Tokens \union {NoToken}]
        /\ removed \in [Resources -> Tokens \union {NoToken}]
        /\ named \in [Tokens -> Resources \union {NoResource}]
        /\ unnamed \in [Tokens -> Resources \union {NoResource}]
    BY DEF HandlerState
  <1>2. _setResource(h, r, t) = WithMaps(h, added, named, h.whitelist \union {t})
    BY Zenon DEF _setResource, WithMaps
  <1>3. _removeResource(h, r, t) = WithMaps(h, removed, unnamed, h.whitelist \ {t})
    BY Zenon DEF _removeResource, WithMaps
  <1> HIDE DEF added, removed, named, unnamed
  <1>4. /\ h.whitelist \union {t} \in SUBSET Tokens /\ h.whitelist \ {t} \in SUBSET Tokens
        /\ h.burnList \in SUBSET Tokens /\ h.isNative \in SUBSET Tokens /\ h.ETHReserve \in Nat
    BY DEF HandlerState
  <1>5. /\ _setResource(h, r, t) \in HandlerState /\ _setResource(h, r, t).ETHReserve = h.ETHReserve
        /\ _setResource(h, r, t).isNative = h.isNative
    BY <1>1, <1>2, <1>4, MapsReplaced
  <1>6. /\ _removeResource(h, r, t) \in HandlerState
        /\ _removeResource(h, r, t).ETHReserve = h.ETHReserve
        /\ _removeResource(h, r, t).isNative = h.isNative
    BY <1>1, <1>3, <1>4, MapsReplaced
  <1>7. setNative(h, t, b) \in HandlerState /\ setNative(h, t, b).ETHReserve = h.ETHReserve
    BY DEF setNative, HandlerState
  <1>8. \A g \in _setBurnable(h, t) :
           g \in HandlerState /\ g.ETHReserve = h.ETHReserve /\ g.isNative = h.isNative
    BY DEF _setBurnable, When, HandlerState
  <1> QED  BY <1>5, <1>6, <1>7, <1>8
-----------------------------------------------------------------------------

LEMMA Accounts ==
  /\ Ether \in Assets /\ Bridge \in Holders /\ Users \subseteq Holders /\ Handlers \subseteq Holders
  /\ Bridge \notin Payable /\ Payable \subseteq Holders
  /\ \A u \in Users : u # Bridge /\ u \notin Handlers
  /\ \A k \in Handlers : k # Bridge
  BY CustodyAssumption DEF Assets

LEMMA EtherNat ==
  ASSUME NEW l \in Ledger PROVE \A y \in Holders : l[Ether][y] \in Nat
  BY Accounts DEF Ledger

LEMMA InitCustody == Init => CustodyIInv
  <1> SUFFICES ASSUME Init PROVE CustodyIInv
    OBVIOUS
  <1>1. NewHandler \in HandlerState /\ NewHandler.ETHReserve = 0
    BY DEF NewHandler, HandlerState
  <1>2. CustodyTypeOK
    <2>1. /\ handlers \in [Handlers -> HandlerState] /\ ledger \in Ledger
          /\ deposits \in Seq(Deposit)
      BY <1>1, CustodyAssumption DEF Init
    <2>2. /\ _depositCounts \in [Domains -> 0..MaxNonce]
          /\ _resourceIDToHandlerAddress \in [Resources -> Handlers \union {NoHandler}]
          /\ specialFee \in [Domains -> Nat \union {NoFee}]
      BY CustodyAssumption DEF Init
    <2> QED  BY <2>1, <2>2 DEF Init, CustodyTypeOK
  <1>3. NoncesIncrease /\ CountsExact
    <2>1. deposits = <<>> /\ \A n \in Domains : _depositCounts[n] = 0
      BY DEF Init
    <2>2. \A n : DepositsTo(deposits, Len(deposits), n) = {}
      BY <2>1 DEF DepositsTo
    <2>3. Cardinality({}) = 0
      BY FS_EmptySet
    <2>4. NoncesIncrease
      <3>1. DOMAIN deposits = {}
        BY <2>1
      <3> QED  BY <3>1 DEF NoncesIncrease
    <2>5. CountsExact
      <3>1. \A n \in Domains : _depositCounts[n] = Cardinality({})
        BY <2>1, <2>3
      <3> QED  BY <3>1, <2>2 DEF CountsExact
    <2> QED  BY <2>4, <2>5
  <1>4. ReserveBacked
    <2>1. ledger \in Ledger
      BY <1>2 DEF CustodyTypeOK
    <2>2. \A k \in Handlers : ledger[Ether][k] \in Nat /\ handlers[k].ETHReserve = 0
      BY <1>1, <2>1, Accounts DEF Init, Ledger
    <2> QED  BY <2>2 DEF ReserveBacked
  <1>5. FeesAccounted
    BY CustodyAssumption, Accounts DEF Init, FeesAccounted
  <1> QED  BY <1>2, <1>3, <1>4, <1>5 DEF CustodyIInv

(* Actions that touch neither ledger nor reserves nor nonces. *)
LEMMA ConfigurationKeeps ==
  ASSUME CustodyIInv, CustodyTypeOK', UNCHANGED <<counts, _feeReserve, ledger, distributed>>,
         \A k \in Handlers : handlers'[k].ETHReserve = handlers[k].ETHReserve
  PROVE  CustodyIInv'
  BY DEF CustodyIInv, counts, NoncesIncrease, CountsExact, ReserveBacked, FeesAccounted

(* Actions that move assets: one handler's outcome. *)
LEMMA OutcomeKeeps ==
  ASSUME CustodyIInv, NEW k \in Handlers, NEW o,
         o.handler \in HandlerState, o.ledger \in Ledger,
         o.handler.ETHReserve <= o.ledger[Ether][k],
         \A y \in Holders \ {k} : o.ledger[Ether][y] >= ledger[Ether][y],
         o.ledger[Ether][Bridge] = ledger[Ether][Bridge],
         UseOutcome(k, o), changes' \in Nat,
         UNCHANGED <<paused, _resourceIDToHandlerAddress, counts, fees, _feeReserve, distributed>>
  PROVE  CustodyIInv'
  <1>1. /\ CustodyTypeOK /\ ledger' = o.ledger
        /\ handlers' = [handlers EXCEPT ![k] = o.handler]
    BY DEF CustodyIInv, UseOutcome
  <1>2. CustodyTypeOK'
    BY <1>1 DEF CustodyTypeOK, counts, fees
  <1>3. NoncesIncrease' /\ CountsExact'
    BY DEF CustodyIInv, counts, NoncesIncrease, CountsExact
  <1>4. ReserveBacked'
    <2> SUFFICES ASSUME NEW q \in Handlers
                 PROVE  handlers'[q].ETHReserve <= ledger'[Ether][q]
      BY DEF ReserveBacked
    <2>1. /\ handlers[q].ETHReserve \in Nat /\ ledger[Ether][q] \in Nat /\ ledger'[Ether][q] \in Nat
          /\ handlers[q].ETHReserve <= ledger[Ether][q]
      BY <1>1, Accounts DEF CustodyIInv, CustodyTypeOK, HandlerState, Ledger, ReserveBacked
    <2>2. CASE q = k
      BY <1>1, <2>2 DEF CustodyTypeOK
    <2>3. CASE q # k
      <3>1. handlers'[q] = handlers[q] /\ ledger'[Ether][q] >= ledger[Ether][q]
        BY <1>1, <2>3, Accounts DEF CustodyTypeOK
      <3> QED  BY <2>1, <3>1
    <2> QED  BY <2>2, <2>3
  <1>5. FeesAccounted'
    BY <1>1 DEF CustodyIInv, FeesAccounted
  <1> QED  BY <1>2, <1>3, <1>4, <1>5 DEF CustodyIInv

LEMMA ExecuteKeeps ==
  ASSUME CustodyIInv, NEW r \in Resources, NEW to \in Holders, NEW a \in Amounts,
         executeProposal(r, to, a), UNCHANGED changes
  PROVE  CustodyIInv'
  <1> DEFINE k == _resourceIDToHandlerAddress[r]
  <1>1. /\ CustodyTypeOK /\ k \in Handlers /\ k \in Holders /\ k # Bridge /\ a \in Nat
        /\ handlers[k] \in HandlerState /\ ledger \in Ledger
        /\ handlers[k].ETHReserve <= ledger[Ether][k]
    BY Accounts, CustodyAssumption DEF CustodyIInv, CustodyTypeOK, executeProposal, ReserveBacked
  <1>2. PICK o \in Give(k, handlers[k], ledger, r, to, a) : UseOutcome(k, o)
    BY DEF executeProposal
  <1>3. UNCHANGED <<paused, _resourceIDToHandlerAddress, counts, fees, _feeReserve, distributed>>
    BY DEF executeProposal
  <1> HIDE DEF k
  <1>4. /\ o.handler \in HandlerState /\ o.ledger \in Ledger
        /\ o.handler.ETHReserve <= o.ledger[Ether][k]
        /\ \A y \in Holders \ {k} : o.ledger[Ether][y] >= ledger[Ether][y]
        /\ \A y \in Holders \ ({k} \union Payable) : o.ledger[Ether][y] = ledger[Ether][y]
    BY <1>1, <1>2, GiveSound
  <1>5. o.ledger[Ether][Bridge] = ledger[Ether][Bridge]
    BY <1>1, <1>4, Accounts
  <1>6. changes' \in Nat
    BY <1>1 DEF CustodyTypeOK
  <1> QED  BY <1>1, <1>2, <1>3, <1>4, <1>5, <1>6, OutcomeKeeps

LEMMA WithdrawKeeps ==
  ASSUME CustodyIInv, NEW k \in Handlers, NEW to \in Holders, NEW a \in Amounts,
         \/ adminWithdrawETH(k, to, a)
         \/ \E t \in Tokens : adminWithdraw(k, t, to, a),
         UNCHANGED changes
  PROVE  CustodyIInv'
  <1>0. CustodyTypeOK /\ ledger \in Ledger
    BY DEF CustodyIInv, CustodyTypeOK
  <1>1. /\ CustodyTypeOK /\ k \in Holders /\ k # Bridge /\ a \in Nat
        /\ handlers[k] \in HandlerState /\ ledger \in Ledger /\ changes' \in Nat
        /\ handlers[k].ETHReserve <= ledger[Ether][k]
        /\ \A y \in Holders : ledger[Ether][y] \in Nat
    BY <1>0, Accounts, EtherNat, CustodyAssumption DEF CustodyIInv, CustodyTypeOK, ReserveBacked
  <1>2. CASE adminWithdrawETH(k, to, a)
    <2>1. PICK o \in withdrawETH(k, handlers[k], ledger, to, a) : UseOutcome(k, o)
      BY <1>2 DEF adminWithdrawETH
    <2>2. UNCHANGED <<paused, _resourceIDToHandlerAddress, counts, fees, _feeReserve, distributed>>
      BY <1>2 DEF adminWithdrawETH
    <2>3. /\ o.handler \in HandlerState /\ o.ledger \in Ledger /\ to \in Payable
          /\ o.handler.ETHReserve = o.ledger[Ether][k]
          /\ \A y \in Holders \ {k} : o.ledger[Ether][y] >= ledger[Ether][y]
          /\ \A y \in Holders \ {k, to} : o.ledger[Ether][y] = ledger[Ether][y]
      BY <1>1, <2>1, WithdrawSound
    <2>4. o.ledger[Ether][Bridge] = ledger[Ether][Bridge]
      BY <1>1, <2>3, Accounts
    <2>5. o.handler.ETHReserve <= o.ledger[Ether][k]
      BY <1>1, <2>3, Accounts DEF HandlerState
    <2> QED  BY <1>1, <2>1, <2>2, <2>3, <2>4, <2>5, OutcomeKeeps
  <1>3. ASSUME NEW t \in Tokens, adminWithdraw(k, t, to, a)
        PROVE  CustodyIInv'
    <2>1. PICK o \in releaseERC20(k, handlers[k], ledger, t, to, a) : UseOutcome(k, o)
      BY <1>3 DEF adminWithdraw
    <2>2. UNCHANGED <<paused, _resourceIDToHandlerAddress, counts, fees, _feeReserve, distributed>>
      BY <1>3 DEF adminWithdraw
    <2>3. ledger[t][k] >= a /\ o.handler = handlers[k] /\ o.ledger = Move(ledger, t, k, to, a)
      BY <2>1 DEF releaseERC20, When, Outcome
    <2>4. t \in Assets /\ t # Ether
      BY AssetAssumption DEF Assets
    <2>5. o.ledger \in Ledger /\ o.ledger[Ether] = ledger[Ether]
      BY <1>1, <2>3, <2>4, Accounts, MoveSound
    <2> QED  BY <1>1, <2>1, <2>2, <2>3, <2>5, OutcomeKeeps
  <1> QED  BY <1>2, <1>3

(* Ether sent by a user to a handler, or by the bridge to anyone but itself. *)
LEMMA ReceiveKeeps ==
  ASSUME CustodyIInv, NEW u \in Users, NEW k \in Handlers, NEW v \in Values, receive(u, k, v),
         UNCHANGED changes
  PROVE  CustodyIInv'
  <1>1. /\ CustodyTypeOK /\ v \in Nat /\ ledger[Ether][u] >= v /\ ledger \in Ledger
        /\ ledger' = Move(ledger, Ether, u, k, v)
        /\ u \in Holders /\ k \in Holders /\ u # k /\ u # Bridge /\ k # Bridge /\ Ether \in Assets
        /\ u \notin Handlers /\ \A y \in Holders : ledger[Ether][y] \in Nat
    <2>1. CustodyTypeOK /\ ledger \in Ledger
      BY DEF CustodyIInv, CustodyTypeOK
    <2> QED  BY <2>1, Accounts, EtherNat, CustodyAssumption DEF receive
  <1>2. /\ ledger' \in Ledger /\ ledger'[Ether][k] = ledger[Ether][k] + v
        /\ \A y \in Holders \ {u, k} : ledger'[Ether][y] = ledger[Ether][y]
    BY <1>1, MoveSound
  <1>3. CustodyTypeOK'
    BY <1>1, <1>2 DEF CustodyTypeOK, receive, counts, fees
  <1>4. NoncesIncrease' /\ CountsExact'
    BY DEF CustodyIInv, receive, counts, NoncesIncrease, CountsExact
  <1>5. ReserveBacked'
    <2> SUFFICES ASSUME NEW q \in Handlers PROVE handlers[q].ETHReserve <= ledger'[Ether][q]
      BY DEF ReserveBacked, receive
    <2>1. /\ handlers[q].ETHReserve \in Nat /\ handlers[q].ETHReserve <= ledger[Ether][q]
          /\ q \in Holders /\ ledger[Ether][q] \in Nat
      BY <1>1, Accounts DEF CustodyIInv, CustodyTypeOK, HandlerState, ReserveBacked
    <2>2. ledger'[Ether][q] = ledger[Ether][q] \/ ledger'[Ether][q] = ledger[Ether][q] + v
      BY <1>1, <1>2, <2>1
    <2> QED  BY <1>1, <2>1, <2>2
  <1>6. FeesAccounted'
    BY <1>1, <1>2, Accounts DEF CustodyIInv, FeesAccounted, receive
  <1> QED  BY <1>3, <1>4, <1>5, <1>6 DEF CustodyIInv

LEMMA TransferFeeKeeps ==
  ASSUME CustodyIInv, NEW to \in Holders, NEW a \in Amounts, transferFee(to, a), UNCHANGED changes
  PROVE  CustodyIInv'
  <1>1. /\ CustodyTypeOK /\ a \in Nat /\ ledger[Ether][Bridge] >= a /\ ledger \in Ledger
        /\ ledger' = Move(ledger, Ether, Bridge, to, a) /\ distributed' = distributed + a
        /\ Bridge \in Holders /\ to # Bridge /\ Ether \in Assets
        /\ \A y \in Holders : ledger[Ether][y] \in Nat
    <2>1. CustodyTypeOK /\ ledger \in Ledger
      BY DEF CustodyIInv, CustodyTypeOK
    <2> QED  BY <2>1, Accounts, EtherNat, CustodyAssumption DEF transferFee
  <1>2. /\ ledger' \in Ledger /\ ledger'[Ether][to] = ledger[Ether][to] + a
        /\ ledger'[Ether][Bridge] = ledger[Ether][Bridge] - a
        /\ \A y \in Holders \ {Bridge, to} : ledger'[Ether][y] = ledger[Ether][y]
    BY <1>1, MoveSound
  <1>3. CustodyTypeOK'
    BY <1>1, <1>2 DEF CustodyTypeOK, transferFee, counts, fees
  <1>4. NoncesIncrease' /\ CountsExact'
    BY DEF CustodyIInv, transferFee, counts, NoncesIncrease, CountsExact
  <1>5. ReserveBacked'
    <2> SUFFICES ASSUME NEW q \in Handlers PROVE handlers[q].ETHReserve <= ledger'[Ether][q]
      BY DEF ReserveBacked, transferFee
    <2>1. /\ handlers[q].ETHReserve \in Nat /\ handlers[q].ETHReserve <= ledger[Ether][q]
          /\ q \in Holders /\ q # Bridge /\ ledger[Ether][q] \in Nat
      BY <1>1, Accounts DEF CustodyIInv, CustodyTypeOK, HandlerState, ReserveBacked
    <2>2. ledger'[Ether][q] = ledger[Ether][q] \/ ledger'[Ether][q] = ledger[Ether][q] + a
      BY <1>1, <1>2, <2>1
    <2> QED  BY <1>1, <2>1, <2>2
  <1>6. FeesAccounted'
    <2>1. /\ ledger[Ether][Bridge] + distributed = _feeReserve /\ distributed \in Nat
          /\ _feeReserve' = _feeReserve
      BY <1>1 DEF CustodyIInv, CustodyTypeOK, FeesAccounted, transferFee
    <2> QED  BY <1>1, <1>2, <2>1 DEF FeesAccounted
  <1> QED  BY <1>3, <1>4, <1>5, <1>6 DEF CustodyIInv
-----------------------------------------------------------------------------
(* Counting the deposits to a destination when one more is made. *)
LEMMA OneMoreCounted ==
  ASSUME NEW S, NEW s \in Seq(S), NEW e \in S, NEW n
  PROVE  Cardinality(DepositsTo(Append(s, e), Len(Append(s, e)), n)) =
           IF e.destination = n THEN Cardinality(DepositsTo(s, Len(s), n)) + 1
           ELSE Cardinality(DepositsTo(s, Len(s), n))
  <1> DEFINE before == DepositsTo(s, Len(s), n)
             t == Append(s, e)
             after == DepositsTo(t, Len(t), n)
  <1>1. /\ Len(s) \in Nat /\ Len(t) = Len(s) + 1 /\ t[Len(s) + 1] = e
        /\ \A j \in 1..Len(s) : t[j] = s[j]
    OBVIOUS
  <1> HIDE DEF t
  <1>2. after = IF e.destination = n THEN before \union {Len(s) + 1} ELSE before
    BY <1>1 DEF DepositsTo
  <1>3. Len(s) + 1 \notin before /\ before \subseteq 1..Len(s)
    BY <1>1 DEF DepositsTo
  <1>4. IsFiniteSet(before)
    <2>1. IsFiniteSet(1..Len(s))
      BY <1>1, FS_Interval
    <2> HIDE DEF before
    <2> QED  BY <1>3, <2>1, FS_Subset
  <1>6. Cardinality(before \union {Len(s) + 1}) = Cardinality(before) + 1
    <2> HIDE DEF before
    <2> QED  BY <1>3, <1>4, FS_AddElement
  <1>7. Cardinality(after) = IF e.destination = n THEN Cardinality(before) + 1 ELSE Cardinality(before)
    <2> HIDE DEF before, after
    <2> QED  BY <1>2, <1>6
  <1> QED  BY <1>7 DEF t

(* The nonces part of a deposit. *)
LEMMA DepositNonces ==
  ASSUME CustodyIInv, NEW n \in Domains, NEW e \in Deposit,
         e.destination = n, e.nonce = _depositCounts[n] + 1,
         _depositCounts' = [_depositCounts EXCEPT ![n] = _depositCounts[n] + 1],
         deposits' = Append(deposits, e), nudged' = nudged
  PROVE  NoncesIncrease' /\ CountsExact'
  <1>1. /\ deposits \in Seq(Deposit) /\ _depositCounts \in [Domains -> 0..MaxNonce]
        /\ Len(deposits) \in Nat /\ DOMAIN deposits = 1..Len(deposits)
        /\ MaxNonce \in Nat /\ NoncesIncrease /\ CountsExact
        /\ \A i \in 1..Len(deposits) : deposits[i] \in Deposit
    BY CustodyAssumption DEF CustodyIInv, CustodyTypeOK
  <1> DEFINE len == Len(deposits)
  <1>2. /\ DOMAIN deposits' = 1..(len + 1) /\ Len(deposits') = len + 1 /\ deposits'[len + 1] = e
        /\ \A i \in 1..len : deposits'[i] = deposits[i]
    BY <1>1
  <1>3. /\ \A i \in 1..len : deposits[i].destination \in Domains /\ deposits[i].nonce \in Nat
        /\ \A m \in Domains : _depositCounts'[m] = IF m = n THEN _depositCounts[n] + 1 ELSE _depositCounts[m]
        /\ \A m \in Domains : _depositCounts[m] \in Nat
    BY <1>1 DEF Deposit
  <1>4. CountsExact'
    <2> SUFFICES ASSUME NEW m \in Domains \ nudged
                 PROVE  _depositCounts'[m] = Cardinality(DepositsTo(deposits', Len(deposits'), m))
      BY DEF CountsExact
    <2>1. _depositCounts[m] = Cardinality(DepositsTo(deposits, Len(deposits), m))
      BY <1>1 DEF CountsExact
    <2>2. Cardinality(DepositsTo(Append(deposits, e), Len(Append(deposits, e)), m)) =
            IF e.destination = m THEN Cardinality(DepositsTo(deposits, Len(deposits), m)) + 1
            ELSE Cardinality(DepositsTo(deposits, Len(deposits), m))
      BY <1>1, OneMoreCounted
    <2> QED  BY <1>3, <2>1, <2>2
  <1>5. NoncesIncrease'
    <2> SUFFICES ASSUME NEW i \in 1..(len + 1)
                 PROVE  LET m == deposits'[i].destination
                        IN  /\ deposits'[i].nonce <= _depositCounts'[m]
                            /\ \A j \in 1..(i - 1) :
                                 deposits'[j].destination = m => deposits'[j].nonce < deposits'[i].nonce
                            /\ m \notin nudged =>
                                 deposits'[i].nonce = Cardinality(DepositsTo(deposits', i, m))
      BY <1>2 DEF NoncesIncrease
    <2>1. CASE i \in 1..len
      <3> DEFINE m == deposits[i].destination
      <3>1. /\ deposits[i].nonce <= _depositCounts[m]
            /\ \A j \in 1..(i - 1) :
                 deposits[j].destination = m => deposits[j].nonce < deposits[i].nonce
            /\ m \notin nudged =>
                 deposits[i].nonce = Cardinality(DepositsTo(deposits, i, m))
        BY <1>1, <2>1 DEF NoncesIncrease
      <3>2. /\ deposits'[i] = deposits[i] /\ m \in Domains /\ deposits[i].nonce \in Nat
            /\ \A j \in 1..i : deposits'[j] = deposits[j]
        BY <1>1, <1>2, <1>3, <2>1
      <3>3. DepositsTo(deposits', i, m) = DepositsTo(deposits, i, m)
        BY <3>2 DEF DepositsTo
      <3>4. deposits[i].nonce <= _depositCounts'[m]
        BY <1>3, <3>1, <3>2
      <3>5. \A j \in 1..(i - 1) : deposits'[j] = deposits[j]
        BY <1>1, <1>2, <2>1
      <3> QED  BY <3>1, <3>2, <3>3, <3>4, <3>5
    <2>2. CASE i = len + 1
      <3>1. deposits'[i] = e /\ i - 1 = len
        BY <1>1, <1>2, <2>2
      <3>2. e.nonce <= _depositCounts'[n]
        BY <1>3
      <3>3. ASSUME NEW j \in 1..len, deposits[j].destination = n
            PROVE  deposits[j].nonce < e.nonce
        <4>1. deposits[j].nonce <= _depositCounts[n]
          BY <1>1, <3>3 DEF NoncesIncrease
        <4> QED  BY <1>3, <4>1
      <3>4. n \notin nudged => e.nonce = Cardinality(DepositsTo(deposits', i, n))
        BY <1>2, <1>3, <1>4, <2>2 DEF CountsExact
      <3> QED  BY <1>2, <3>1, <3>2, <3>3, <3>4
    <2>3. i \in 1..len \/ i = len + 1
      BY <1>1
    <2> QED  BY <2>1, <2>2, <2>3
  <1> QED  BY <1>4, <1>5

LEMMA DepositKeeps ==
  ASSUME CustodyIInv, NEW u \in Users, NEW n \in Domains, NEW r \in Resources,
         NEW a \in Amounts, NEW v \in Values, deposit(u, n, r, a, v), UNCHANGED changes
  PROVE  CustodyIInv'
  <1> DEFINE k == _resourceIDToHandlerAddress[r]
             fee == _getFee(n)
             rest == v - fee
             m1 == Move(ledger, Ether, u, Bridge, v)
             paid == Move(m1, Ether, Bridge, k, rest)
             event == [destination |-> n, nonce |-> _depositCounts[n] + 1, resource |-> r,
                       user |-> u, amount |-> a]
  <1>1. CustodyTypeOK /\ ledger \in Ledger /\ handlers \in [Handlers -> HandlerState]
    BY DEF CustodyIInv, CustodyTypeOK
  <1>2. /\ k \in Handlers /\ k \in Holders /\ k # Bridge /\ k # u
        /\ u \in Holders /\ u # Bridge /\ Bridge \in Holders /\ Ether \in Assets
        /\ a \in Nat /\ v \in Nat /\ ledger[Ether][u] >= v
        /\ handlers[k] \in HandlerState /\ handlers[k].ETHReserve <= ledger[Ether][k]
        /\ handlers[k].ETHReserve \in Nat
    BY <1>1, Accounts, CustodyAssumption
    DEF CustodyIInv, CustodyTypeOK, deposit, ReserveBacked, HandlerState
  <1>3. /\ fee \in Nat /\ v >= fee
        /\ _feeReserve' = _feeReserve + fee /\ _feeReserve \in Nat /\ distributed \in Nat
        /\ ledger[Ether][Bridge] + distributed = _feeReserve
    BY <1>1, CustodyAssumption DEF CustodyIInv, CustodyTypeOK, deposit, _getFee, FeesAccounted
  <1>4. PICK o \in Take(k, handlers[k], paid, r, u, a, rest) : UseOutcome(k, o)
    BY DEF deposit, Forwarded
  <1>5. /\ _depositCounts[n] \in Nat /\ _depositCounts[n] + 1 <= MaxNonce
        /\ _depositCounts' = [_depositCounts EXCEPT ![n] = _depositCounts[n] + 1]
        /\ deposits' = Append(deposits, event)
        /\ UNCHANGED <<paused, _resourceIDToHandlerAddress, fees, distributed, nudged>>
    BY <1>1, CustodyAssumption DEF CustodyTypeOK, deposit, NextNonce, NonceFits
  <1>6. event \in Deposit
    BY <1>5, CustodyAssumption DEF Deposit
  <1>7. rest \in Nat /\ rest <= v /\ v - rest = fee
    <2> HIDE DEF fee
    <2> QED  BY <1>2, <1>3
  <1> HIDE DEF k, fee, rest
  <1>8. \A y \in Holders : ledger[Ether][y] \in Nat
    BY <1>1, EtherNat
  <1>9. /\ m1 \in Ledger /\ m1[Ether][Bridge] = ledger[Ether][Bridge] + v
        /\ \A y \in Holders \ {u, Bridge} : m1[Ether][y] = ledger[Ether][y]
    BY <1>1, <1>2, MoveSound
  <1> HIDE DEF m1
  <1>10. m1[Ether][Bridge] >= rest /\ m1[Ether][Bridge] - rest = ledger[Ether][Bridge] + fee
    BY <1>2, <1>3, <1>7, <1>8, <1>9
  <1>11. /\ paid \in Ledger /\ paid[Ether][Bridge] = m1[Ether][Bridge] - rest
         /\ paid[Ether][k] = m1[Ether][k] + rest
         /\ \A y \in Holders \ {Bridge, k} : paid[Ether][y] = m1[Ether][y]
    BY <1>2, <1>7, <1>9, <1>10, MoveSound
  <1> HIDE DEF paid
  <1>12. /\ paid[Ether][Bridge] = ledger[Ether][Bridge] + fee
         /\ \A q \in Handlers : paid[Ether][q] >= ledger[Ether][q]
         /\ \A y \in Holders : paid[Ether][y] \in Nat
    <2>1. \A y \in Holders : paid[Ether][y] \in Nat
      BY <1>11, EtherNat
    <2>2. ASSUME NEW q \in Handlers PROVE paid[Ether][q] >= ledger[Ether][q]
      <3>1. q \in Holders /\ q # Bridge /\ q # u
        BY Accounts
      <3>2. m1[Ether][q] = ledger[Ether][q] /\ ledger[Ether][q] \in Nat
        BY <1>8, <1>9, <3>1
      <3> QED  BY <1>7, <1>11, <3>1, <3>2
    <2> QED  BY <1>10, <1>11, <2>1, <2>2
  <1>13. /\ o.handler \in HandlerState /\ o.ledger \in Ledger /\ o.ledger[Ether] = paid[Ether]
         /\ o.handler.ETHReserve <= paid[Ether][k]
    <2>1. handlers[k].ETHReserve <= paid[Ether][k]
      BY <1>2, <1>8, <1>12
    <2> QED  BY <1>2, <1>4, <1>7, <1>11, <2>1, TakeSound
  <1>14. ledger' = o.ledger /\ handlers' = [handlers EXCEPT ![k] = o.handler]
    BY <1>4 DEF UseOutcome
  <1>15. CustodyTypeOK'
    <2>1. /\ handlers' \in [Handlers -> HandlerState] /\ ledger' \in Ledger
          /\ deposits' \in Seq(Deposit) /\ _feeReserve' \in Nat
      <3>1. handlers' \in [Handlers -> HandlerState] /\ ledger' \in Ledger
        BY <1>1, <1>13, <1>14
      <3>2. deposits' \in Seq(Deposit)
        <4>1. deposits \in Seq(Deposit)
          BY <1>1 DEF CustodyTypeOK
        <4> HIDE DEF event
        <4> QED  BY <1>5, <1>6, <4>1
      <3>3. _feeReserve' \in Nat
        BY <1>3
      <3> QED  BY <3>1, <3>2, <3>3
    <2>2. _depositCounts' \in [Domains -> 0..MaxNonce]
      BY <1>1, <1>5, CustodyAssumption DEF CustodyTypeOK
    <2> QED  BY <1>1, <1>5, <2>1, <2>2 DEF CustodyTypeOK, fees
  <1>16. NoncesIncrease' /\ CountsExact'
    <2>1. event.destination = n /\ event.nonce = _depositCounts[n] + 1
      OBVIOUS
    <2> HIDE DEF event
    <2> QED  BY <1>5, <1>6, <2>1, DepositNonces
  <1>17. ReserveBacked'
    <2> SUFFICES ASSUME NEW q \in Handlers PROVE handlers'[q].ETHReserve <= ledger'[Ether][q]
      BY DEF ReserveBacked
    <2>1. CASE q = k
      BY <1>1, <1>13, <1>14, <2>1
    <2>2. CASE q # k
      <3>1. handlers'[q] = handlers[q]
        BY <1>1, <1>14, <2>2
      <3>2. /\ handlers[q].ETHReserve \in Nat /\ handlers[q].ETHReserve <= ledger[Ether][q]
            /\ q \in Holders
        BY <1>1, Accounts DEF CustodyIInv, ReserveBacked, HandlerState
      <3>3. ledger'[Ether][q] >= ledger[Ether][q] /\ ledger'[Ether][q] \in Nat
        BY <1>12, <1>13, <1>14, <3>2
      <3> QED  BY <1>8, <3>1, <3>2, <3>3
    <2> QED  BY <2>1, <2>2
  <1>18. FeesAccounted'
    <2>1. ledger'[Ether][Bridge] = ledger[Ether][Bridge] + fee /\ distributed' = distributed
      BY <1>5, <1>12, <1>13, <1>14
    <2>2. ledger[Ether][Bridge] \in Nat
      BY <1>2, <1>8
    <2>3. ledger'[Ether][Bridge] + distributed = _feeReserve'
      BY <1>3, <2>1, <2>2
    <2> QED  BY <2>1, <2>3 DEF FeesAccounted
  <1> QED  BY <1>15, <1>16, <1>17, <1>18 DEF CustodyIInv
-----------------------------------------------------------------------------
LEMMA ConfigureKeeps ==
  ASSUME CustodyIInv, Configure
  PROVE  CustodyIInv'
  <1>1. CustodyTypeOK /\ changes' \in Nat /\ handlers \in [Handlers -> HandlerState]
    BY DEF CustodyIInv, CustodyTypeOK, Configure
  <1>2. ASSUME NEW k \in Handlers, NEW h \in HandlerState, SetHandlerState(k, h),
               h.ETHReserve = handlers[k].ETHReserve,
               _resourceIDToHandlerAddress' \in [Resources -> Handlers \union {NoHandler}]
        PROVE  CustodyIInv'
    <2>1. /\ handlers' = [handlers EXCEPT ![k] = h]
          /\ UNCHANGED <<paused, counts, fees, _feeReserve, ledger, distributed>>
      BY <1>2 DEF SetHandlerState
    <2>2. handlers' \in [Handlers -> HandlerState]
      BY <1>1, <1>2, <2>1
    <2>3. CustodyTypeOK'
      BY <1>1, <1>2, <2>1, <2>2 DEF CustodyTypeOK, counts, fees
    <2>4. \A q \in Handlers : handlers'[q].ETHReserve = handlers[q].ETHReserve
      BY <1>1, <1>2, <2>1
    <2> QED  BY <2>1, <2>3, <2>4, ConfigurationKeeps
  <1>3. ASSUME NEW value \in BOOLEAN, SetPaused(value) PROVE CustodyIInv'
    <2>1. CustodyTypeOK'
      BY <1>1, <1>3 DEF CustodyTypeOK, SetPaused, counts, fees
    <2> QED  BY <1>3, <2>1, ConfigurationKeeps DEF SetPaused
  <1>4. ASSUME NEW n \in Domains, NEW nonce \in Nonces, adminSetDepositNonce(n, nonce)
        PROVE  CustodyIInv'
    <2>1. /\ nonce \in 0..MaxNonce /\ nonce > _depositCounts[n]
          /\ _depositCounts' = [_depositCounts EXCEPT ![n] = nonce]
          /\ nudged' = nudged \union {n} /\ deposits' = deposits
          /\ UNCHANGED <<paused, _resourceIDToHandlerAddress, fees, _feeReserve, handlers, ledger,
                         distributed>>
      BY <1>4, CustodyAssumption DEF adminSetDepositNonce, Newer
    <2>2. CustodyTypeOK'
      BY <1>1, <2>1 DEF CustodyTypeOK, fees
    <2>3. \A m \in Domains : /\ _depositCounts[m] \in Nat /\ _depositCounts'[m] \in Nat
                             /\ _depositCounts[m] <= _depositCounts'[m]
                             /\ m # n => _depositCounts'[m] = _depositCounts[m]
      BY <1>1, <2>1, CustodyAssumption DEF CustodyTypeOK
    <2>4. CountsExact'
      BY <2>1, <2>3 DEF CustodyIInv, CountsExact
    <2>5. NoncesIncrease'
      <3>1. ASSUME NEW i \in DOMAIN deposits
            PROVE  /\ deposits[i].destination \in Domains /\ deposits[i].nonce \in Nat
                   /\ deposits[i].nonce <= _depositCounts[deposits[i].destination]
        <4>1. deposits[i] \in Deposit
          BY <1>1 DEF CustodyTypeOK
        <4>2. deposits[i].destination \in Domains /\ deposits[i].nonce \in Nat
          BY <4>1 DEF Deposit
        <4> QED  BY <4>2 DEF CustodyIInv, NoncesIncrease
      <3>2. \A i \in DOMAIN deposits :
              deposits[i].nonce <= _depositCounts'[deposits[i].destination]
        BY <2>3, <3>1
      <3> QED  BY <2>1, <3>2 DEF CustodyIInv, NoncesIncrease
    <2>6. ReserveBacked' /\ FeesAccounted'
      BY <2>1 DEF CustodyIInv, ReserveBacked, FeesAccounted
    <2> QED  BY <2>2, <2>4, <2>5, <2>6 DEF CustodyIInv
  <1>5. ASSUME NEW f, NEW g, SetFees(f, g), f \in Nat, g \in [Domains -> Nat \union {NoFee}]
        PROVE  CustodyIInv'
    <2>1. CustodyTypeOK'
      BY <1>1, <1>5 DEF CustodyTypeOK, SetFees, counts
    <2> QED  BY <1>5, <2>1, ConfigurationKeeps DEF SetFees
  <1>6. ASSUME NEW k \in Handlers, NEW t \in Tokens, adminSetBurnable(k, t) PROVE CustodyIInv'
    <2>1. PICK h \in _setBurnable(handlers[k], t) : SetHandlerState(k, h)
      BY <1>6 DEF adminSetBurnable
    <2>2. h \in HandlerState /\ h.ETHReserve = handlers[k].ETHReserve
      <3>1. handlers[k] \in HandlerState
        BY <1>1
      <3>2. h = [handlers[k] EXCEPT !.burnList = @ \union {t}]
        BY <2>1 DEF _setBurnable, When
      <3> QED  BY <3>1, <3>2 DEF HandlerState
    <2>3. _resourceIDToHandlerAddress' \in [Resources -> Handlers \union {NoHandler}]
      BY <1>1, <1>6 DEF adminSetBurnable, CustodyTypeOK
    <2> QED  BY <1>2, <2>1, <2>2, <2>3
  <1>7. ASSUME NEW r \in Resources, NEW t \in Tokens, NEW native \in BOOLEAN, NEW k \in Handlers,
               adminSetResource(k, r, t, native)
        PROVE  CustodyIInv'
    <2> DEFINE h1 == _setResource(handlers[k], r, t)
               h2 == IF native THEN setNative(h1, t, TRUE) ELSE h1
    <2>1. h1 \in HandlerState /\ h1.ETHReserve = handlers[k].ETHReserve
      BY <1>1, HandlerConfigSound
    <2>2. SetHandlerState(k, h2)
      BY <1>7 DEF adminSetResource
    <2> HIDE DEF h1
    <2>3. h2 \in HandlerState /\ h2.ETHReserve = handlers[k].ETHReserve
      BY <2>1, HandlerConfigSound
    <2>4. _resourceIDToHandlerAddress' \in [Resources -> Handlers \union {NoHandler}]
      BY <1>1, <1>7 DEF adminSetResource, CustodyTypeOK
    <2> HIDE DEF h2
    <2> QED  BY <1>2, <2>2, <2>3, <2>4
  <1>8. ASSUME NEW r \in Resources, NEW t \in Tokens, NEW native \in BOOLEAN,
               adminRemoveResourceId(r, t, native)
        PROVE  CustodyIInv'
    <2> DEFINE k == _resourceIDToHandlerAddress[r]
               h1 == _removeResource(handlers[k], r, t)
               h2 == IF native THEN setNative(h1, t, FALSE) ELSE h1
    <2>1. k \in Handlers /\ SetHandlerState(k, h2)
      BY <1>1, <1>8 DEF adminRemoveResourceId, CustodyTypeOK
    <2>2. _resourceIDToHandlerAddress' \in [Resources -> Handlers \union {NoHandler}]
      BY <1>1, <1>8 DEF adminRemoveResourceId, CustodyTypeOK
    <2> HIDE DEF k
    <2>3. h1 \in HandlerState /\ h1.ETHReserve = handlers[k].ETHReserve
      BY <1>1, <2>1, HandlerConfigSound
    <2> HIDE DEF h1
    <2>4. h2 \in HandlerState /\ h2.ETHReserve = handlers[k].ETHReserve
      BY <2>3, HandlerConfigSound
    <2> HIDE DEF h2
    <2> QED  BY <1>2, <2>1, <2>2, <2>4
  <1>9. ASSUME NEW f \in Fees, adminSetFee(f) PROVE CustodyIInv'
    BY <1>1, <1>5, <1>9, CustodyAssumption DEF adminSetFee, CustodyTypeOK
  <1>10. ASSUME NEW n \in Domains, NEW f \in Fees, adminSetSpecialFee(n, f) PROVE CustodyIInv'
    <2>1. [specialFee EXCEPT ![n] = f] \in [Domains -> Nat \union {NoFee}]
      BY <1>1, CustodyAssumption DEF CustodyTypeOK
    <2> QED  BY <1>1, <1>5, <1>10, <2>1 DEF adminSetSpecialFee, CustodyTypeOK
  <1>11. ASSUME NEW n \in Domains, adminRemoveSpecialFee(n) PROVE CustodyIInv'
    <2>1. [specialFee EXCEPT ![n] = NoFee] \in [Domains -> Nat \union {NoFee}]
      BY <1>1 DEF CustodyTypeOK
    <2> QED  BY <1>1, <1>5, <1>11, <2>1 DEF adminRemoveSpecialFee, CustodyTypeOK
  <1> QED  BY <1>3, <1>4, <1>6, <1>7, <1>8, <1>9, <1>10, <1>11 DEF Configure

(* Every step of the bridge and its handlers keeps the inductive invariant. *)
THEOREM CustodyInductive == CustodyIInv /\ [Next]_vars => CustodyIInv'
  <1> SUFFICES ASSUME CustodyIInv, [Next]_vars PROVE CustodyIInv'
    OBVIOUS
  <1>1. CASE UserSteps
    BY <1>1, DepositKeeps, ExecuteKeeps, ReceiveKeeps DEF UserSteps
  <1>2. CASE PayOut
    BY <1>2, WithdrawKeeps, TransferFeeKeeps DEF PayOut
  <1>3. CASE Configure
    BY <1>3, ConfigureKeeps
  <1>4. CASE UNCHANGED vars
    <2>1. CustodyTypeOK'
      BY <1>4 DEF CustodyIInv, CustodyTypeOK, vars, counts, fees
    <2> QED  BY <1>4, <2>1, ConfigurationKeeps DEF vars
  <1> QED  BY <1>1, <1>2, <1>3, <1>4 DEF Next

(* Every reachable state satisfies the inductive invariant. *)
THEOREM CustodyInvariance == Spec => []CustodyIInv
  BY InitCustody, CustodyInductive, PTL DEF Spec

(* Every variable keeps its type; no balance becomes negative. *)
THEOREM CustodyTypeCorrect == Spec => []CustodyTypeOK
  <1>1. CustodyIInv => CustodyTypeOK
    BY DEF CustodyIInv
  <1> QED  BY <1>1, CustodyInvariance, PTL

(* Destination and nonce name one deposit. *)
THEOREM NoncesNameDeposits == Spec => []NoncesIncrease
  <1>1. CustodyIInv => NoncesIncrease
    BY DEF CustodyIInv
  <1> QED  BY <1>1, CustodyInvariance, PTL

(* A handler's recorded reserve is covered by its ether. *)
THEOREM ReservesBacked == Spec => []ReserveBacked
  <1>1. CustodyIInv => ReserveBacked
    BY DEF CustodyIInv
  <1> QED  BY <1>1, CustodyInvariance, PTL

(* The bridge holds exactly the fees not paid out. *)
THEOREM FeesHeld == Spec => []FeesAccounted
  <1>1. CustodyIInv => FeesAccounted
    BY DEF CustodyIInv
  <1> QED  BY <1>1, CustodyInvariance, PTL
=============================================================================
