------------------------- MODULE SignatureHub_proof -------------------------
(***************************************************************************)
(* Proofs about SignatureHub, for any number of deposits, destinations,    *)
(* thresholds and relayers.                                                *)
(***************************************************************************)
EXTENDS SignatureHub, SequenceTheorems, TLAPS

LEMMA InitHub == Init => HubIInv
  <1> SUFFICES ASSUME Init PROVE HubIInv
    OBVIOUS
  <1>1. HubTypeOK
    <2>1. /\ members \in [Role -> SUBSET Accounts]
          /\ proposals \in [Deposits -> StoredProposal]
      BY HubAssumption DEF Init, Role, NoStoredProposal, StoredProposal
    <2>2. /\ signatures \in [Deposits -> Seq(Signature)]
          /\ relayerVote \in [Deposits -> SUBSET Accounts]
          /\ indexToProposal \in Seq(Deposits)
      BY DEF Init
    <2>3. 0 \in 0..(Uint8Limit - 1)
      BY HubAssumption
    <2>4. /\ relayerThreshold \in [Domains -> 0..(Uint8Limit - 1)]
          /\ highest \in [Domains -> 0..(Uint8Limit - 1)]
      BY <2>3 DEF Init
    <2> QED  BY <2>1, <2>2, <2>4 DEF Init, HubTypeOK
  <1>2. /\ \A d \in Deposits : signatures[d] = <<>> /\ DestinationOf[d] \in Domains /\ relayerVote[d] = {} /\ passes[d] = 0
        /\ \A n \in Domains : relayerThreshold[n] = 0 /\ highest[n] = 0
        /\ proposalIndex = 0 /\ indexToProposal = <<>>
    BY HubAssumption DEF Init
  <1>3. OneSignaturePerRelayer /\ IndexIsDirectory
    BY <1>2 DEF OneSignaturePerRelayer, IndexIsDirectory
  <1>4. SignaturesBounded /\ AnnouncedAtQuorum /\ SignedForOneTarget
    <2>1. Len(<<>>) = 0
      OBVIOUS
    <2> QED  BY <1>2, <2>1 DEF SignaturesBounded, AnnouncedAtQuorum, SignedForOneTarget
  <1> QED  BY <1>1, <1>2, <1>3, <1>4 DEF HubIInv

(* Posting a signature keeps the invariant. *)
LEMMA SubmitKeepsHub ==
  ASSUME HubIInv, NEW d \in Deposits, NEW signature \in Signature,
         submitSignature(d, signature)
  PROVE  HubIInv'
  <1> DEFINE n == DestinationOf[d]
             s == signatures[d]
  <1>0. HubTypeOK /\ n \in Domains /\ s \in Seq(Signature)
    BY HubAssumption DEF HubIInv, HubTypeOK
  <1>1. /\ HubTypeOK /\ n \in Domains /\ s \in Seq(Signature)
        /\ Len(s) \in Nat /\ Append(s, signature) \in Seq(Signature)
        /\ Len(Append(s, signature)) = Len(s) + 1
        /\ DOMAIN s = 1..Len(s) /\ DOMAIN Append(s, signature) = 1..(Len(s) + 1)
        /\ Append(s, signature)[Len(s) + 1] = signature
        /\ \A i \in 1..Len(s) : Append(s, signature)[i] = s[i]
        /\ Append(s, signature) # <<>>
        /\ s = <<>> <=> Len(s) = 0
    <2> HIDE DEF s, n
    <2> QED  BY <1>0
  <1>2. /\ signatures' = [signatures EXCEPT ![d] = Append(@, signature)]
        /\ signatures'[d] = Append(s, signature)
        /\ \A e \in Deposits : e # d => signatures'[e] = signatures[e]
        /\ \A e \in Deposits : s # <<>> => proposals'[e] = proposals[e]
    BY <1>1 DEF HubTypeOK, submitSignature, FirstSignature
  <1>3. HubTypeOK'
    <2>1. /\ signatures' \in [Deposits -> Seq(Signature)]
          /\ relayerVote' \in [Deposits -> SUBSET Accounts]
          /\ passes' \in [Deposits -> Nat]
      <3> HIDE DEF s
      <3>1. signatures' = [signatures EXCEPT ![d] = Append(s, signature)] /\ signature.signer \in Accounts
        BY <1>2 DEF s, Signature
      <3> QED  BY <1>1, <3>1 DEF submitSignature, HubTypeOK
    <2>2. /\ proposals' \in [Deposits -> StoredProposal]
          /\ proposalIndex' \in Nat
          /\ indexToProposal' \in Seq(Deposits)
      <3> DEFINE stored == [destinationBridge |-> destinationBridgeAddress[n], index |-> proposalIndex + 1]
      <3>1. stored \in StoredProposal /\ proposalIndex + 1 \in Nat
        BY <1>1 DEF HubTypeOK, StoredProposal
      <3>2. CASE FirstSignature(d)
        <4>1. /\ proposalIndex' = proposalIndex + 1 /\ indexToProposal' = Append(indexToProposal, d)
              /\ proposals' = [proposals EXCEPT ![d] = stored]
          BY <3>2 DEF submitSignature
        <4> HIDE DEF stored
        <4> QED  BY <1>1, <3>1, <4>1 DEF HubTypeOK
      <3>3. CASE ~FirstSignature(d)
        BY <1>1, <3>3 DEF submitSignature, HubTypeOK
      <3> QED  BY <3>2, <3>3
    <2> QED  BY <1>1, <2>1, <2>2 DEF submitSignature, HubTypeOK, config, history
  <1>4. OneSignaturePerRelayer'
    <2>1. SUFFICES ASSUME NEW e \in Deposits
                   PROVE  /\ relayerVote'[e] = {signatures'[e][i].signer : i \in DOMAIN signatures'[e]}
                          /\ \A i, j \in DOMAIN signatures'[e] :
                               signatures'[e][i].signer = signatures'[e][j].signer => i = j
      BY DEF OneSignaturePerRelayer
    <2>2. CASE e # d
      BY <1>1, <1>2, <2>2 DEF HubIInv, OneSignaturePerRelayer, submitSignature, HubTypeOK
    <2>3. CASE e = d
      <3>1. /\ relayerVote'[d] = relayerVote[d] \union {signature.signer}
            /\ signature.signer \notin relayerVote[d]
        BY <1>1 DEF submitSignature, NotYetVoted, HubTypeOK
      <3>2. /\ relayerVote[d] = {s[i].signer : i \in 1..Len(s)}
            /\ \A i, j \in 1..Len(s) : s[i].signer = s[j].signer => i = j
        BY <1>1 DEF HubIInv, OneSignaturePerRelayer
      <3>3. signatures'[d] = Append(s, signature)
        BY <1>2
      <3> HIDE DEF s
      <3> DEFINE s1 == Append(s, signature)
      <3>4. /\ DOMAIN s1 = 1..(Len(s) + 1) /\ Len(s) \in Nat
            /\ s1[Len(s) + 1] = signature
            /\ \A i \in 1..Len(s) : s1[i] = s[i]
        BY <1>1
      <3> HIDE DEF s1
      <3>5. {s1[i].signer : i \in DOMAIN s1} = {s[i].signer : i \in 1..Len(s)} \union {signature.signer}
        BY <3>4
      <3>6. \A i, j \in DOMAIN s1 : s1[i].signer = s1[j].signer => i = j
        BY <3>1, <3>2, <3>4
      <3>7. signatures'[d] = s1
        BY <3>3 DEF s1
      <3>8. relayerVote'[d] = {s1[i].signer : i \in DOMAIN s1}
        BY <3>1, <3>2, <3>5
      <3> QED  BY <2>3, <3>6, <3>7, <3>8
    <2> QED  BY <2>2, <2>3
  <1>5. IndexIsDirectory'
    <2>1. CASE s # <<>>
      <3>1. /\ UNCHANGED <<proposalIndex, proposals, indexToProposal>>
            /\ \A e \in Deposits : signatures'[e] # <<>> <=> signatures[e] # <<>>
        BY <1>1, <1>2, <2>1 DEF submitSignature, FirstSignature
      <3>2. \A i \in 1..proposalIndex : indexToProposal[i] \in Deposits
        BY <1>1 DEF HubIInv, IndexIsDirectory, HubTypeOK
      <3> QED  BY <3>1, <3>2 DEF HubIInv, IndexIsDirectory
    <2>2. CASE s = <<>>
      <3> DEFINE k == proposalIndex + 1
      <3>1. /\ k \in Nat /\ Len(indexToProposal) + 1 = k /\ proposalIndex' = k
            /\ indexToProposal' = Append(indexToProposal, d)
            /\ indexToProposal' \in Seq(Deposits)
            /\ proposals'[d].index = k
            /\ \A e \in Deposits : e # d => proposals'[e] = proposals[e]
        <4>1. /\ proposalIndex' = k /\ indexToProposal' = Append(indexToProposal, d)
              /\ proposals' = [proposals EXCEPT
                    ![d] = [destinationBridge |-> destinationBridgeAddress[n], index |-> k]]
          BY <2>2 DEF submitSignature, FirstSignature
        <4>2. k \in Nat /\ Len(indexToProposal) + 1 = k /\ proposals \in [Deposits -> StoredProposal]
          BY <1>1 DEF HubIInv, IndexIsDirectory, HubTypeOK
        <4>3. indexToProposal' \in Seq(Deposits)
          BY <1>1, <4>1 DEF HubTypeOK
        <4> QED  BY <4>1, <4>2, <4>3
      <3>2. /\ Len(indexToProposal') = k /\ indexToProposal'[k] = d
            /\ \A i \in 1..proposalIndex : indexToProposal'[i] = indexToProposal[i]
            /\ 1..k = (1..proposalIndex) \union {k}
            /\ proposalIndex \in Nat
        BY <1>1, <3>1 DEF HubTypeOK
      <3>3. \A i \in 1..proposalIndex : indexToProposal[i] \in Deposits /\ indexToProposal[i] # d
        BY <1>1, <2>2, <3>1, <3>2 DEF HubIInv, IndexIsDirectory, HubTypeOK
      <3>4. \A i \in 1..proposalIndex' : /\ proposals'[indexToProposal'[i]].index = i
                                          /\ signatures'[indexToProposal'[i]] # <<>>
        BY <1>1, <1>2, <3>1, <3>2, <3>3 DEF HubIInv, IndexIsDirectory
      <3>5. ASSUME NEW e \in Deposits, signatures'[e] # <<>>
            PROVE  /\ proposals'[e].index \in 1..proposalIndex'
                   /\ indexToProposal'[proposals'[e].index] = e
        BY <1>1, <1>2, <3>1, <3>2, <3>5 DEF HubIInv, IndexIsDirectory
      <3> QED  BY <3>1, <3>2, <3>4, <3>5 DEF IndexIsDirectory
    <2> QED  BY <2>1, <2>2
  <1>6. (\A m \in Domains : relayerThreshold[m] <= highest[m])'
    BY DEF HubIInv, submitSignature, config, history
  <1>7. SignaturesBounded'
    <2>1. /\ Len(s) < relayerThreshold[n] /\ relayerThreshold[n] <= highest[n]
          /\ relayerThreshold[n] \in Nat /\ highest[n] \in Nat /\ highest' = highest
      BY <1>1 DEF HubIInv, submitSignature, StillOpen, history, HubTypeOK
    <2>2. Len(signatures'[d]) = Len(s) + 1
      BY <1>1, <1>2
    <2>3. Len(signatures'[d]) <= highest'[DestinationOf[d]]
      <3> HIDE DEF s
      <3> QED  BY <1>1, <2>1, <2>2
    <2>4. \A e \in Deposits : e # d => Len(signatures'[e]) <= highest'[DestinationOf[e]]
      BY <1>2, <2>1 DEF HubIInv, SignaturesBounded
    <2> QED  BY <2>3, <2>4 DEF SignaturesBounded
  <1>8. AnnouncedAtQuorum'
    <2>1. SUFFICES ASSUME NEW e \in Deposits, DestinationOf[e] \notin rethought
                   PROVE  passes'[e] = IF /\ signatures'[e] # <<>>
                                          /\ Len(signatures'[e]) >= relayerThreshold[DestinationOf[e]]
                                       THEN 1 ELSE 0
      BY DEF AnnouncedAtQuorum, submitSignature, config, history
    <2>2. passes[e] = IF signatures[e] # <<>> /\ Len(signatures[e]) >= relayerThreshold[DestinationOf[e]]
                      THEN 1 ELSE 0
      BY <2>1 DEF HubIInv, AnnouncedAtQuorum
    <2>3. CASE e # d
      BY <1>1, <1>2, <2>2, <2>3 DEF submitSignature, HubTypeOK
    <2>4. CASE e = d
      <3>1. /\ relayerThreshold[n] \in Nat /\ Len(s) < relayerThreshold[n]
            /\ passes'[d] = IF Len(s) + 1 >= relayerThreshold[n] THEN passes[d] + 1 ELSE passes[d]
        BY <1>1 DEF submitSignature, StillOpen, Passes, HubTypeOK
      <3> QED  BY <1>1, <1>2, <2>2, <2>4, <3>1
    <2> QED  BY <2>3, <2>4
  <1>9. SignedForOneTarget'
    <2>1. /\ destinationBridgeAddress' = destinationBridgeAddress /\ retargeted' = retargeted
          /\ destChainId' = destChainId
          /\ \A m : TargetOf(m)' = TargetOf(m)
      BY DEF submitSignature, config, history, TargetOf
    <2>2. SUFFICES ASSUME NEW e \in Deposits, DestinationOf[e] \notin retargeted, signatures'[e] # <<>>
                   PROVE  /\ proposals'[e].destinationBridge = destinationBridgeAddress[DestinationOf[e]]
                          /\ \A i \in DOMAIN signatures'[e] :
                               signatures'[e][i].target = TargetOf(DestinationOf[e])
      BY <2>1 DEF SignedForOneTarget
    <2>3. CASE e # d
      BY <1>1, <1>2, <2>2, <2>3 DEF HubIInv, SignedForOneTarget, submitSignature, HubTypeOK
    <2>4. CASE e = d
      <3>1. signature.target = TargetOf(n)
        BY DEF submitSignature, ForTarget
      <3>2. /\ proposals'[d].destinationBridge = destinationBridgeAddress[n]
            /\ \A i \in 1..Len(s) : s[i].target = TargetOf(n)
        BY <1>1, <1>2, <2>2, <2>4
        DEF HubIInv, SignedForOneTarget, submitSignature, FirstSignature, HubTypeOK
      <3> HIDE DEF s, n
      <3>3. n = DestinationOf[d]
        BY DEF n
      <3> QED  BY <1>1, <1>2, <2>4, <3>1, <3>2, <3>3
    <2> QED  BY <2>3, <2>4
  <1> QED  BY <1>3, <1>4, <1>5, <1>6, <1>7, <1>8, <1>9 DEF HubIInv

(* What leaves the board and the configuration alone keeps the invariant. *)
LEMMA OthersKeepHub ==
  ASSUME HubIInv, members' \in [Role -> SUBSET Accounts], paused' \in BOOLEAN,
         UNCHANGED <<config, board, history>>
  PROVE  HubIInv'
  BY DEF HubIInv, HubTypeOK, OneSignaturePerRelayer, IndexIsDirectory, SignaturesBounded,
     AnnouncedAtQuorum, SignedForOneTarget, TargetOf, config, board, history

LEMMA ThresholdKeepsHub ==
  ASSUME HubIInv, NEW admin, NEW n \in Domains, NEW t \in Thresholds,
         adminChangeRelayerThreshold(admin, n, t)
  PROVE  HubIInv'
  <1>1. /\ t \in 0..(Uint8Limit - 1) /\ HubTypeOK /\ UNCHANGED board
        /\ relayerThreshold' = [relayerThreshold EXCEPT ![n] = t]
        /\ UNCHANGED <<members, paused, destChainId, destinationBridgeAddress, retargeted>>
    BY HubAssumption DEF HubIInv, adminChangeRelayerThreshold, FitsUint8
  <1>2. HubTypeOK'
    BY <1>1, HubAssumption DEF HubTypeOK, adminChangeRelayerThreshold, board
  <1>3. OneSignaturePerRelayer' /\ IndexIsDirectory' /\ SignedForOneTarget'
    BY <1>1 DEF HubIInv, OneSignaturePerRelayer, IndexIsDirectory, SignedForOneTarget, TargetOf, board
  <1>4. \A m \in Domains : /\ highest'[m] >= highest[m] /\ relayerThreshold'[m] <= highest'[m]
                            /\ highest[m] \in Nat /\ highest'[m] \in Nat
    BY <1>1, <1>2, HubAssumption DEF HubIInv, HubTypeOK, adminChangeRelayerThreshold
  <1>5. SignaturesBounded'
    <2>1. \A e \in Deposits : Len(signatures[e]) \in Nat /\ DestinationOf[e] \in Domains
      BY <1>1, HubAssumption DEF HubTypeOK
    <2>2. \A e \in Deposits : Len(signatures[e]) <= highest[DestinationOf[e]]
      BY DEF HubIInv, SignaturesBounded
    <2>3. \A e \in Deposits : Len(signatures[e]) <= highest'[DestinationOf[e]]
      BY <1>4, <2>1, <2>2
    <2> QED  BY <1>1, <2>3 DEF SignaturesBounded, board
  <1>6. AnnouncedAtQuorum'
    <2>1. SUFFICES ASSUME NEW e \in Deposits, DestinationOf[e] \notin rethought'
                   PROVE  passes[e] = IF /\ signatures[e] # <<>>
                                         /\ Len(signatures[e]) >= relayerThreshold'[DestinationOf[e]]
                                      THEN 1 ELSE 0
      BY <1>1 DEF AnnouncedAtQuorum, board
    <2>2. /\ DestinationOf[e] \notin rethought
          /\ signatures[e] # <<>> => relayerThreshold'[DestinationOf[e]] = relayerThreshold[DestinationOf[e]]
      BY <1>1, <2>1, HubAssumption DEF adminChangeRelayerThreshold, Signed, HubTypeOK
    <2> QED  BY <2>2 DEF HubIInv, AnnouncedAtQuorum
  <1> QED  BY <1>2, <1>3, <1>4, <1>5, <1>6 DEF HubIInv

LEMMA TargetKeepsHub ==
  ASSUME HubIInv, NEW admin, NEW n \in Domains, NEW c \in ChainIds, NEW b \in Bridges,
         adminSetDestChainId(admin, n, c, b)
  PROVE  HubIInv'
  <1>1. /\ c \in Nat /\ HubTypeOK /\ UNCHANGED board
        /\ destChainId' = [destChainId EXCEPT ![n] = c]
        /\ destinationBridgeAddress' = [destinationBridgeAddress EXCEPT ![n] = b]
        /\ UNCHANGED <<members, paused, relayerThreshold, highest, rethought>>
        /\ retargeted' = retargeted \union {m \in {n} : Signed(m)}
    BY HubAssumption DEF HubIInv, adminSetDestChainId
  <1>2. HubTypeOK'
    BY <1>1, HubAssumption DEF HubTypeOK, board
  <1>3. /\ OneSignaturePerRelayer' /\ IndexIsDirectory' /\ SignaturesBounded' /\ AnnouncedAtQuorum'
        /\ (\A m \in Domains : relayerThreshold[m] <= highest[m])'
    BY <1>1 DEF HubIInv, OneSignaturePerRelayer, IndexIsDirectory, SignaturesBounded,
       AnnouncedAtQuorum, board
  <1>4. SignedForOneTarget'
    <2>1. SUFFICES ASSUME NEW e \in Deposits, DestinationOf[e] \notin retargeted', signatures[e] # <<>>
                   PROVE  /\ proposals[e].destinationBridge = destinationBridgeAddress'[DestinationOf[e]]
                          /\ \A i \in DOMAIN signatures[e] :
                               signatures[e][i].target = TargetOf(DestinationOf[e])'
      BY <1>1 DEF SignedForOneTarget, board
    <2>2. /\ DestinationOf[e] # n /\ DestinationOf[e] \notin retargeted /\ DestinationOf[e] \in Domains
      BY <1>1, <2>1, HubAssumption DEF Signed
    <2>3. TargetOf(DestinationOf[e])' = TargetOf(DestinationOf[e])
      BY <1>1, <2>2 DEF TargetOf, HubTypeOK
    <2>4. destinationBridgeAddress'[DestinationOf[e]] = destinationBridgeAddress[DestinationOf[e]]
      BY <1>1, <2>2 DEF HubTypeOK
    <2> QED  BY <2>1, <2>2, <2>3, <2>4 DEF HubIInv, SignedForOneTarget
  <1> QED  BY <1>2, <1>3, <1>4 DEF HubIInv
-----------------------------------------------------------------------------
(* Every step of the hub keeps the inductive invariant. *)
THEOREM HubInductive == HubIInv /\ [Next]_vars => HubIInv'
  <1> SUFFICES ASSUME HubIInv, [Next]_vars PROVE HubIInv'
    OBVIOUS
  <1>1. HubTypeOK
    BY DEF HubIInv
  <1>2. ASSUME NEW d \in Deposits, NEW signature \in Signatures, submitSignature(d, signature)
        PROVE  HubIInv'
    <2>1. signature \in Signature
      BY HubAssumption DEF Signatures, Signature, Targets, Target
    <2> QED  BY <1>2, <2>1, SubmitKeepsHub
  <1>3. CASE Administer
    <2>1. ASSUME NEW admin \in Accounts, NEW value \in BOOLEAN, SetPaused(admin, value)
          PROVE  HubIInv'
      BY <1>1, <2>1, OthersKeepHub DEF SetPaused, HubTypeOK
    <2>2. ASSUME NEW admin \in Accounts, NEW role \in Role, NEW account \in Candidates[role],
                 grantRole(admin, role, account) \/ revokeRole(admin, role, account)
          PROVE  HubIInv'
      <3>1. account \in Accounts
        BY HubAssumption DEF Role
      <3>2. members' \in [Role -> SUBSET Accounts] /\ paused' \in BOOLEAN
        BY <1>1, <2>2, <3>1 DEF HubTypeOK, grantRole, revokeRole
      <3> QED  BY <2>2, <3>2, OthersKeepHub DEF grantRole, revokeRole
    <2> QED  BY <1>3, <2>1, <2>2, ThresholdKeepsHub, TargetKeepsHub DEF Administer
  <1>4. ASSUME NEW role \in Role, NEW account \in Candidates[role], renounceRole(role, account)
        PROVE  HubIInv'
    <2>1. members' \in [Role -> SUBSET Accounts] /\ paused' \in BOOLEAN
      BY <1>1, <1>4, HubAssumption DEF HubTypeOK, renounceRole
    <2> QED  BY <1>4, <2>1, OthersKeepHub DEF renounceRole
  <1>5. CASE UNCHANGED vars
    BY <1>1, <1>5, OthersKeepHub DEF vars, config, board, history, HubTypeOK
  <1> QED  BY <1>2, <1>3, <1>4, <1>5 DEF Next

(* Every reachable state of the hub satisfies the inductive invariant. *)
THEOREM HubInvariance == Spec => []HubIInv
  BY InitHub, HubInductive, PTL DEF Spec

(* Every variable of the hub keeps its type. *)
THEOREM HubTypeCorrect == Spec => []HubTypeOK
  <1>1. HubIInv => HubTypeOK
    BY DEF HubIInv
  <1> QED  BY <1>1, HubInvariance, PTL

(* A quorum of stored signatures is a quorum of distinct accounts. *)
THEOREM OneSignatureEach == Spec => []OneSignaturePerRelayer
  <1>1. HubIInv => OneSignaturePerRelayer
    BY DEF HubIInv
  <1> QED  BY <1>1, HubInvariance, PTL

(* The enumeration of the hub's proposals by index is exact. *)
THEOREM DirectoryExact == Spec => []IndexIsDirectory
  <1>1. HubIInv => IndexIsDirectory
    BY DEF HubIInv
  <1> QED  BY <1>1, HubInvariance, PTL

(* No deposit collects more signatures than a quorum needed. *)
THEOREM SignaturesStayBounded == Spec => []SignaturesBounded
  <1>1. HubIInv => SignaturesBounded
    BY DEF HubIInv
  <1> QED  BY <1>1, HubInvariance, PTL

(* SignaturePass is emitted exactly once per quorum. *)
THEOREM QuorumsAnnounced == Spec => []AnnouncedAtQuorum
  <1>1. HubIInv => AnnouncedAtQuorum
    BY DEF HubIInv
  <1> QED  BY <1>1, HubInvariance, PTL

(* The signatures of a deposit are for the bridge stored with it. *)
THEOREM OneTarget == Spec => []SignedForOneTarget
  <1>1. HubIInv => SignedForOneTarget
    BY DEF HubIInv
  <1> QED  BY <1>1, HubInvariance, PTL

(* What was posted on the hub stays. *)
THEOREM PostedForGood == Spec => PostedStays
  <1>1. HubIInv /\ [Next]_vars => [Posted]_vars
    <2> SUFFICES ASSUME HubIInv, [Next]_vars, ~UNCHANGED vars PROVE Posted
      OBVIOUS
    <2>1. HubTypeOK
      BY DEF HubIInv
    <2>2. ASSUME UNCHANGED board
          PROVE  Posted
      <3> SUFFICES ASSUME NEW d \in Deposits, signatures[d] # <<>>
                   PROVE  /\ SubSeq(signatures[d], 1, Len(signatures[d])) = signatures[d]
                          /\ indexToProposal[proposals[d].index] = d
        BY <2>2 DEF Posted, board
      <3>1. signatures[d] \in Seq(Signature)
        BY <2>1 DEF HubTypeOK
      <3> QED  BY <3>1 DEF HubIInv, IndexIsDirectory
    <2>3. ASSUME NEW d \in Deposits, NEW signature \in Signatures, submitSignature(d, signature)
          PROVE  Posted
      <3> SUFFICES ASSUME NEW e \in Deposits, signatures[e] # <<>>
                   PROVE  /\ SubSeq(signatures'[e], 1, Len(signatures[e])) = signatures[e]
                          /\ proposals'[e] = proposals[e]
                          /\ indexToProposal'[proposals[e].index] = e
        BY DEF Posted
      <3>1. /\ signature \in Signature
            /\ signatures[e] \in Seq(Signature)
            /\ signatures'[e] = IF e = d THEN Append(signatures[e], signature) ELSE signatures[e]
        BY <2>1, <2>3, HubAssumption
        DEF HubTypeOK, submitSignature, Signatures, Signature, Targets, Target
      <3>2. SubSeq(signatures'[e], 1, Len(signatures[e])) = signatures[e]
        BY <3>1
      <3>3. /\ proposals[e].index \in 1..proposalIndex
            /\ indexToProposal[proposals[e].index] = e
            /\ proposalIndex = Len(indexToProposal) /\ indexToProposal \in Seq(Deposits)
        BY <2>1 DEF HubIInv, IndexIsDirectory, HubTypeOK
      <3>4. \A i \in 1..proposalIndex : indexToProposal'[i] = indexToProposal[i]
        BY <2>3, <3>3 DEF submitSignature
      <3>5. proposals'[e] = proposals[e]
        BY <2>1, <2>3 DEF submitSignature, FirstSignature, HubTypeOK
      <3> QED  BY <3>2, <3>3, <3>4, <3>5
    <2>4. Next => UNCHANGED board \/ \E d \in Deposits, signature \in Signatures : submitSignature(d, signature)
      BY DEF Next, Administer, adminChangeRelayerThreshold, adminSetDestChainId, SetPaused,
         grantRole, revokeRole, renounceRole
    <2> QED  BY <2>2, <2>3, <2>4
  <1> QED  BY <1>1, HubInvariance, PTL DEF Spec, PostedStays
=============================================================================
