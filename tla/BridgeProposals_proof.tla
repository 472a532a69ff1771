------------------------ MODULE BridgeProposals_proof ------------------------
(* Proofs about BridgeProposals, for every value of its constants. *)
EXTENDS BridgeProposals, FiniteSetTheorems, FunctionTheorems, TLAPS

(* The members of a role are finitely many, and their number is a natural.  *)
LEMMA MembersFinite ==
    ASSUME NEW role
    PROVE  IsFiniteSet(Members(role)) /\ getRoleMemberCount(role) \in Nat
<1>1. Members(role) \subseteq Accounts
  BY DEF Members
<1>2. IsFiniteSet(Members(role))
  BY <1>1, AccountsFinite, FS_Subset
<1> QED
  BY <1>2, FS_CardinalityType DEF getRoleMemberCount

(* Granting a role keeps the members' indices 1..n, each held once          *)
(* (AccessControl._grantRole, EnumerableSet.add).                           *)
LEMMA GrantEnumerates ==
    ASSUME NEW role \in [Accounts -> Nat], IsEnumeration(role), NEW account \in Accounts
    PROVE  /\ _grantRole(role, account) \in [Accounts -> Nat]
           /\ IsEnumeration(_grantRole(role, account))
<1> DEFINE n == getRoleMemberCount(role)
           new == _grantRole(role, account)
<1>1. n \in Nat /\ IsFiniteSet(Members(role))
  BY MembersFinite
<1>2. CASE hasRole(role, account)
  BY <1>2 DEF _grantRole
<1>3. CASE ~hasRole(role, account)
  <2>1. new = [role EXCEPT ![account] = n + 1]
    BY <1>3 DEF _grantRole
  <2>2. new \in [Accounts -> Nat]
    BY <2>1, <1>1
  <2>3. Members(new) = Members(role) \union {account} /\ account \notin Members(role)
    BY <2>1, <1>1, <1>3 DEF Members, hasRole
  <2>4. getRoleMemberCount(new) = n + 1
    BY <2>3, <1>1, FS_AddElement DEF getRoleMemberCount
  <2> HIDE DEF n, new
  <2>5. \A a \in Members(new) : new[a] <= n + 1
    <3> SUFFICES ASSUME NEW a \in Members(new) PROVE new[a] <= n + 1
      OBVIOUS
    <3>1. CASE a = account
      BY <3>1, <2>1, <1>1
    <3>2. CASE a # account
      <4>1. a \in Members(role) /\ a \in Accounts /\ new[a] = role[a] /\ role[a] \in Nat
        BY <3>2, <2>1, <2>3 DEF Members
      <4>2. role[a] <= n
        BY <4>1 DEF IsEnumeration, n
      <4> QED
        BY <4>1, <4>2, <1>1
    <3> QED
      BY <3>1, <3>2
  <2>6. \A a, b \in Members(new) : new[a] = new[b] => a = b
    <3> SUFFICES ASSUME NEW a \in Members(new), NEW b \in Members(new), new[a] = new[b]
                 PROVE  a = b
      OBVIOUS
    <3>1. \A c \in Members(new) : c # account =>
              c \in Members(role) /\ new[c] = role[c] /\ role[c] \in Nat /\ role[c] <= n
      BY <2>1, <2>3 DEF Members, IsEnumeration, n
    <3>2. new[account] = n + 1
      BY <2>1
    <3>3. CASE a # account /\ b # account
      BY <3>1, <3>3 DEF IsEnumeration
    <3>4. CASE a = account \/ b = account
      BY <3>1, <3>2, <3>4, <1>1
    <3> QED
      BY <3>3, <3>4
  <2> QED
    BY <2>2, <2>4, <2>5, <2>6 DEF IsEnumeration, new
<1> QED
  BY <1>2, <1>3

(* So does revoking one, where the last member takes the freed index        *)
(* (AccessControl._revokeRole, EnumerableSet.remove).                       *)
LEMMA RevokeEnumerates ==
    ASSUME NEW role \in [Accounts -> Nat], IsEnumeration(role), NEW account \in Accounts
    PROVE  /\ _revokeRole(role, account) \in [Accounts -> Nat]
           /\ IsEnumeration(_revokeRole(role, account))
           /\ Members(_revokeRole(role, account)) = Members(role) \ {account}
<1> DEFINE n == getRoleMemberCount(role)
           new == _revokeRole(role, account)
<1>1. n \in Nat /\ IsFiniteSet(Members(role))
  BY MembersFinite
<1>2. CASE ~hasRole(role, account)
  BY <1>2 DEF _revokeRole, Members, hasRole
<1>3. CASE hasRole(role, account)
  <2>1. account \in Members(role) /\ role[account] \in Nat \ {0} /\ role[account] <= n
    BY <1>3 DEF hasRole, Members, IsEnumeration
  <2>2. /\ new \in [Accounts -> Nat]
        /\ new[account] = 0
        /\ \A a \in Accounts : a # account =>
              new[a] = IF role[a] = n THEN role[account] ELSE role[a]
    BY <1>3, <2>1 DEF _revokeRole
  <2> HIDE DEF n, new
  <2>3. n >= 1
    BY <2>1, <1>1
  <2>4. Members(new) = Members(role) \ {account}
    BY <2>1, <2>2, <2>3, <1>1 DEF Members
  <2>5. getRoleMemberCount(new) = n - 1
    BY <2>1, <2>4, <1>1, FS_RemoveElement DEF getRoleMemberCount, n
  <2>6. ASSUME NEW a \in Members(new)
        PROVE  /\ a # account /\ a \in Members(role) /\ a \in Accounts
               /\ role[a] \in Nat /\ role[a] <= n /\ role[a] # role[account]
    BY <2>1, <2>4 DEF Members, IsEnumeration, n
  <2>7. \A a \in Members(new) : new[a] <= n - 1
    <3> SUFFICES ASSUME NEW a \in Members(new) PROVE new[a] <= n - 1
      OBVIOUS
    <3>1. CASE role[a] = n
      BY <3>1, <2>1, <2>2, <2>6, <1>1
    <3>2. CASE role[a] # n
      BY <3>2, <2>2, <2>6, <1>1
    <3> QED
      BY <3>1, <3>2
  <2>8. \A a, b \in Members(new) : new[a] = new[b] => a = b
    <3> SUFFICES ASSUME NEW a \in Members(new), NEW b \in Members(new), new[a] = new[b]
                 PROVE  a = b
      OBVIOUS
    <3>1. role[a] = role[b]
      BY <2>2, <2>6
    <3> QED
      BY <3>1, <2>6 DEF IsEnumeration
  <2> QED
    BY <2>2, <2>4, <2>5, <2>7, <2>8 DEF IsEnumeration, new
<1> QED
  BY <1>2, <1>3
-----------------------------------------------------------------------------

(* A set listed without repetition has as many elements as the list.        *)
LEMMA ListCardinality ==
    ASSUME NEW n \in Nat, NEW T, NEW f \in [1 .. n -> T],
           \A i, j \in 1 .. n : f[i] = f[j] => i = j,
           \A x \in T : \E i \in 1 .. n : f[i] = x
    PROVE  Cardinality(T) = n
<1>1. f \in Bijection(1 .. n, T)
  BY DEF Bijection, Injection, Surjection, IsInjective
<1>2. ExistsBijection(1 .. n, T)
  BY <1>1 DEF ExistsBijection
<1>3. IsFiniteSet(1 .. n) /\ Cardinality(1 .. n) = n
  BY FS_Interval
<1> QED
  BY <1>2, <1>3, FS_Bijection

(* What many accounts may share is listed at least once for each of them.   *)
LEMMA ListBound ==
    ASSUME NEW n \in Nat, NEW T, NEW f \in [1 .. n -> T],
           \A x \in T : \E i \in 1 .. n : f[i] = x
    PROVE  IsFiniteSet(T) /\ Cardinality(T) <= n
<1>1. f \in Surjection(1 .. n, T)
  BY DEF Surjection
<1>2. IsFiniteSet(1 .. n) /\ Cardinality(1 .. n) = n
  BY FS_Interval
<1> QED
  BY <1>1, <1>2, FS_Surjection

(* A relayer has one bit, or none when its index exceeds the word.          *)
LEMMA OneBit ==
    ASSUME TypeOK, NEW a \in Accounts
    PROVE  /\ _relayerBit(a) = {} \/ _relayerBit(a) = {relayers[a]}
           /\ relayers[a] \in Nat
BY DEF TypeOK, _relayerBit, getRoleMemberIndex

Bits(accounts) == UNION {_relayerBit(a) : a \in accounts}

(* Relayers have as many bits as there are relayers with a bit.             *)
LEMMA BitsCounted ==
    ASSUME TypeOK, RelayersEnumerated, NEW S \in SUBSET Members(relayers)
    PROVE  Cardinality(S \ Unmarked(S)) = Cardinality(Bits(S))
<1> DEFINE M == S \ Unmarked(S)
           f == [a \in M |-> relayers[a]]
<1>1. M \subseteq Accounts /\ M \subseteq Members(relayers) /\ IsFiniteSet(M)
  <2>1. M \subseteq Accounts /\ M \subseteq Members(relayers)
    BY DEF Members
  <2> QED
    BY <2>1, AccountsFinite, FS_Subset
<1>2. \A a \in M : _relayerBit(a) = {relayers[a]}
  BY <1>1, OneBit DEF Unmarked
<1>3. \A a \in S : a \notin M => _relayerBit(a) = {}
  BY DEF Unmarked
<1>4. \A k \in Bits(S) : \E a \in M : relayers[a] = k
  BY <1>2, <1>3 DEF Bits
<1>5. \A a \in M : relayers[a] \in Bits(S)
  BY <1>2 DEF Bits
<1> HIDE DEF M
<1>6. f \in [M -> Bits(S)] /\ \A a \in M : f[a] = relayers[a]
  BY <1>5
<1>7. \A a, b \in M : f[a] = f[b] => a = b
  BY <1>1, <1>6 DEF RelayersEnumerated, IsEnumeration
<1>8. \A k \in Bits(S) : \E a \in M : f[a] = k
  BY <1>4, <1>6
<1> HIDE DEF f
<1>9. ExistsBijection(M, Bits(S))
  BY <1>6, <1>7, <1>8 DEF ExistsBijection, Bijection, Injection, Surjection, IsInjective
<1> QED
  BY <1>1, <1>9, FS_Bijection DEF M

LEMMA VoteBitsFinite == IsFiniteSet(1 .. VoteBits) /\ Cardinality(1 .. VoteBits) = VoteBits
<1>1. VoteBits \in Nat
  BY ConstantsAssumption
<1>2. IsFiniteSet(1 .. VoteBits) /\ Cardinality(1 .. VoteBits) = IF 1 > VoteBits THEN 0 ELSE VoteBits - 1 + 1
  BY <1>1, FS_Interval
<1> QED
  BY <1>1, <1>2

(* Reducing the block number a proposal was opened at modulo BlockMod can   *)
(* only make its age look smaller, never larger.                            *)
LEMMA AgeNotExaggerated ==
    ASSUME NEW m \in Nat \ {0}, NEW o \in Nat, NEW b \in Nat, o <= b, NEW r, r = o % m
    PROVE  (b - r) % m <= b - o /\ (b - r) % m \in Nat
<1> DEFINE q == o \div m
           y == b - r
           k == y \div m
           s == y % m
<1>1. q \in Nat /\ r \in 0 .. m - 1 /\ o = m * q + r
  OBVIOUS
<1>2. y \in Nat /\ k \in Nat /\ s \in 0 .. m - 1 /\ y = m * k + s
  <2>1. r <= o
    BY <1>1
  <2> QED
    BY <2>1, <1>1
<1> HIDE DEF q, k, s
<1>3. b - o = m * (k - q) + s
  BY <1>1, <1>2
<1>4. k >= q
  <2> SUFFICES ASSUME k <= q - 1 PROVE FALSE
    BY <1>1, <1>2
  <2>1. m * (q - 1 - k) >= 0
    BY <1>1, <1>2
  <2>2. m * (k - q) = 0 - m - m * (q - 1 - k)
    BY <1>1, <1>2
  <2>3. m * (k - q) + s < 0
    BY <2>1, <2>2, <1>2, <1>1
  <2> QED
    BY <2>3, <1>3
<1>5. m * (k - q) >= 0
  BY <1>1, <1>2, <1>4
<1>6. s <= b - o
  BY <1>1, <1>2, <1>3, <1>5
<1> QED
  BY <1>2, <1>6 DEF s
-----------------------------------------------------------------------------
(* The inductive invariant *)

LEMMA IInvInit == Init => IInv
<1> SUFFICES ASSUME Init PROVE IInv
  OBVIOUS
<1>1. 0 % BlockMod \in 0 .. BlockMod - 1
  BY ConstantsAssumption
<1>2. NoProposal \in Proposal
  <2>1. 0 \in 0 .. Uint8Limit - 1
    BY ConstantsAssumption
  <2> QED
    BY <1>1, <2>1, ConstantsAssumption DEF NoProposal, Proposal, Status
<1>3. getRoleMemberCount(relayers) \in Nat
  BY MembersFinite
<1>4. relayers \in [Accounts -> Nat]
  <2>1. Members(relayers) = InitialRelayers
    BY DEF Init
  <2>2. 0 .. Cardinality(InitialRelayers) \subseteq Nat
    BY <2>1, <1>3 DEF getRoleMemberCount
  <2> QED
    BY <2>2 DEF Init
<1>5. TypeOK
  <2>1. /\ admins = {Deployer} /\ paused = FALSE /\ relayerThreshold = InitialThreshold
        /\ expiry = InitialExpiry /\ blockNumber = 0 /\ reindexed = {}
        /\ resourceIDToHandlerAddress = [r \in Resources |-> NoHandler]
        /\ proposals = [p \in Proposals |-> NoProposal]
        /\ effects = [p \in Proposals |-> 0]
        /\ voters = [p \in Proposals |-> {}]
        /\ unmarked = [p \in Proposals |-> {}]
        /\ openedAt = [p \in Proposals |-> 0]
    BY DEF Init
  <2>2. 0 \in 0 .. MaxBlock
    BY ConstantsAssumption
  <2> QED
    BY <1>2, <1>4, <2>1, <2>2, ConstantsAssumption DEF TypeOK
<1>6. RelayersEnumerated
  BY DEF Init, RelayersEnumerated
<1>7. ASSUME NEW p \in Proposals PROVE ProposalInv(p)
  <2>1. Cardinality({}) = 0 /\ {} \ {} = {}
    BY FS_EmptySet
  <2>2. /\ proposals[p] = NoProposal /\ effects[p] = 0 /\ voters[p] = {} /\ unmarked[p] = {}
        /\ openedAt[p] = 0 /\ blockNumber = 0
    BY <1>7 DEF Init
  <2> QED
    BY <2>1, <2>2 DEF ProposalInv, NoProposal
<1> QED
  BY <1>5, <1>6, <1>7 DEF IInv

(* A step that stores a new value for one proposal, and touches the history *)
(* of that proposal only, keeps the invariant if it does so for that one.   *)
LEMMA OneProposalStep ==
    ASSUME IInv,
           UNCHANGED <<roles, paused, config, blockNumber>>,
           NEW p \in Proposals, NEW new \in Proposal, Store(p, new),
           effects' \in [Proposals -> Nat],
           voters' \in [Proposals -> SUBSET Accounts],
           unmarked' \in [Proposals -> SUBSET Accounts],
           openedAt' \in [Proposals -> 0 .. MaxBlock],
           reindexed' \subseteq Proposals,
           \A q \in Proposals \ {p} :
              /\ effects'[q] = effects[q]
              /\ voters'[q] = voters[q]
              /\ unmarked'[q] = unmarked[q]
              /\ openedAt'[q] = openedAt[q]
              /\ q \in reindexed' <=> q \in reindexed,
           ProposalInv(p)'
    PROVE  IInv'
<1>1. proposals' = [proposals EXCEPT ![p] = new] /\ proposals \in [Proposals -> Proposal]
  BY DEF Store, IInv, TypeOK
<1>2. relayers' = relayers /\ blockNumber' = blockNumber
  BY DEF roles
<1>3. TypeOK'
  BY <1>1, <1>2 DEF IInv, TypeOK, roles, config
<1>4. RelayersEnumerated'
  BY <1>2 DEF IInv, RelayersEnumerated, IsEnumeration, Members, getRoleMemberCount
<1>5. ASSUME NEW q \in Proposals, q # p PROVE ProposalInv(q)'
  <2>1. ProposalInv(q)
    BY DEF IInv
  <2>2. /\ proposals'[q] = proposals[q]
        /\ effects'[q] = effects[q]
        /\ voters'[q] = voters[q]
        /\ unmarked'[q] = unmarked[q]
        /\ openedAt'[q] = openedAt[q]
        /\ q \in reindexed' <=> q \in reindexed
    BY <1>1, <1>5
  <2> QED
    BY <1>2, <2>1, <2>2 DEF ProposalInv, Members, Unmarked, _relayerBit, getRoleMemberIndex
<1> QED
  BY <1>3, <1>4, <1>5 DEF IInv

(* What the invariant says of a proposal, with the types of its parts.      *)
LEMMA ProposalFacts ==
    ASSUME IInv, NEW p \in Proposals
    PROVE  /\ ProposalInv(p)
           /\ proposals[p] \in Proposal
           /\ proposals[p].yesVotes \in SUBSET (1 .. VoteBits)
           /\ IsFiniteSet(proposals[p].yesVotes)
           /\ proposals[p].yesVotesTotal \in Nat
           /\ effects[p] \in Nat
           /\ voters[p] \in SUBSET Accounts
           /\ unmarked[p] \in SUBSET Accounts
           /\ IsFiniteSet(voters[p])
           /\ openedAt[p] \in 0 .. MaxBlock
           /\ blockNumber \in 0 .. MaxBlock
<1>1. proposals[p] \in Proposal /\ proposals[p].yesVotes \in SUBSET (1 .. VoteBits)
  BY DEF IInv, TypeOK, Proposal
<1>2. IsFiniteSet(1 .. VoteBits)
  BY VoteBitsFinite
<1>3. IsFiniteSet(proposals[p].yesVotes)
  BY <1>1, <1>2, FS_Subset
<1>4. voters[p] \in SUBSET Accounts /\ unmarked[p] \in SUBSET Accounts
  BY DEF IInv, TypeOK
<1>5. IsFiniteSet(voters[p])
  BY <1>4, AccountsFinite, FS_Subset
<1>6. proposals[p].yesVotesTotal \in Nat
  BY <1>1, ConstantsAssumption DEF Proposal
<1> QED
  BY <1>1, <1>3, <1>4, <1>5, <1>6 DEF IInv, TypeOK

(* A counted vote keeps the invariant.  base is the open proposal the vote  *)
(* is added to: the stored one, or a new one.                               *)
LEMMA CountVoteStep ==
    ASSUME IInv,
           UNCHANGED <<roles, paused, config, blockNumber, reindexed>>,
           NEW p \in Proposals, NEW relayer \in Accounts, NEW ok \in BOOLEAN,
           NEW base \in Proposal,
           isRelayer(relayer),
           CountVote(relayer, p, base, ok),
           _relayerBit(relayer) \intersect base.yesVotes = {},
           proposals[p].status \in {"Inactive", "Active"},
           Cardinality(base.yesVotes) <= base.yesVotesTotal,
           unmarked[p] = {} => Cardinality(base.yesVotes) = base.yesVotesTotal,
           p \notin reindexed =>
              /\ voters[p] \subseteq Members(relayers)
              /\ unmarked[p] = Unmarked(voters[p])
              /\ base.yesVotes = Bits(voters[p]),
           openedAt' \in [Proposals -> 0 .. MaxBlock],
           \A q \in Proposals \ {p} : openedAt'[q] = openedAt[q],
           openedAt'[p] <= blockNumber,
           base.proposedBlock = openedAt'[p] % BlockMod
    PROVE  IInv'
<1> DEFINE bit == _relayerBit(relayer)
           votes == base.yesVotesTotal + 1
           status == IF ~ReachesThreshold(votes) THEN "Active"
                     ELSE IF ok THEN "Executed" ELSE "Passed"
           new == [status |-> status, yesVotes |-> base.yesVotes \union bit,
                   yesVotesTotal |-> votes, proposedBlock |-> base.proposedBlock]
<1>1. /\ bit \in SUBSET (1 .. VoteBits) /\ votes < Uint8Limit
      /\ Store(p, new)
      /\ effects' = IF status = "Executed" THEN [effects EXCEPT ![p] = @ + 1] ELSE effects
      /\ voters' = [voters EXCEPT ![p] = @ \union {relayer}]
      /\ unmarked' = [unmarked EXCEPT ![p] = @ \union Unmarked({relayer})]
  BY DEF CountVote, FitsVote, FitsTotal, Effect
<1>2. /\ base.yesVotes \in SUBSET (1 .. VoteBits)
      /\ base.yesVotesTotal \in 0 .. Uint8Limit - 1 /\ base.yesVotesTotal \in Nat
      /\ Uint8Limit \in Nat
      /\ base.proposedBlock \in 0 .. BlockMod - 1
  BY ConstantsAssumption DEF Proposal
<1>3. /\ new \in Proposal
      /\ new.status = status
      /\ status \in {"Active", "Executed", "Passed"}
      /\ new.yesVotes = base.yesVotes \union bit
      /\ new.yesVotesTotal = base.yesVotesTotal + 1
      /\ new.proposedBlock = base.proposedBlock
  <2>1. status \in {"Active", "Executed", "Passed"}
    OBVIOUS
  <2>2. base.yesVotes \union bit \in SUBSET (1 .. VoteBits) /\ votes \in 0 .. Uint8Limit - 1
    BY <1>1, <1>2
  <2> HIDE DEF status
  <2> QED
    BY <1>2, <2>1, <2>2 DEF Proposal, Status
<1>4. ProposalInv(p) /\ effects[p] = 0 /\ IsFiniteSet(voters[p])
  BY ProposalFacts DEF ProposalInv
<1>5. /\ effects \in [Proposals -> Nat] /\ voters \in [Proposals -> SUBSET Accounts]
      /\ unmarked \in [Proposals -> SUBSET Accounts]
      /\ relayers \in [Accounts -> Nat] /\ reindexed \subseteq Proposals
      /\ proposals \in [Proposals -> Proposal]
      /\ TypeOK /\ RelayersEnumerated
  BY DEF IInv, TypeOK
<1>6. /\ relayers' = relayers /\ reindexed' = reindexed /\ blockNumber' = blockNumber
      /\ Members(relayers)' = Members(relayers)
      /\ \A a : (_relayerBit(a))' = _relayerBit(a)
  BY DEF roles, Members, _relayerBit, getRoleMemberIndex
<1>7. bit = {} \/ bit = {relayers[relayer]}
  BY <1>5, OneBit
<1>8. Unmarked({relayer}) = IF bit = {} THEN {relayer} ELSE {}
  BY DEF Unmarked
<1> HIDE DEF new, status, bit
<1>9. /\ proposals'[p] = new
      /\ effects'[p] = IF status = "Executed" THEN 1 ELSE 0
      /\ voters'[p] = voters[p] \union {relayer}
      /\ unmarked'[p] = unmarked[p] \union Unmarked({relayer})
      /\ effects' \in [Proposals -> Nat] /\ voters' \in [Proposals -> SUBSET Accounts]
      /\ unmarked' \in [Proposals -> SUBSET Accounts]
      /\ \A q \in Proposals \ {p} : /\ effects'[q] = effects[q] /\ voters'[q] = voters[q]
                                    /\ unmarked'[q] = unmarked[q]
  BY <1>1, <1>4, <1>5, <1>8 DEF Store
<1>10. /\ Cardinality(new.yesVotes) <= new.yesVotesTotal
       /\ unmarked'[p] = {} => Cardinality(new.yesVotes) = new.yesVotesTotal
  <2>1. IsFiniteSet(1 .. VoteBits)
    BY VoteBitsFinite
  <2>2. IsFiniteSet(base.yesVotes)
    BY <1>2, <2>1, FS_Subset
  <2>3. Cardinality(base.yesVotes) \in Nat
    BY <2>2, FS_CardinalityType
  <2>4. CASE bit = {}
    <3>1. new.yesVotes = base.yesVotes /\ new.yesVotesTotal = base.yesVotesTotal + 1
      BY <1>3, <2>4
    <3>2. unmarked'[p] # {}
      BY <1>8, <1>9, <2>4
    <3>3. Cardinality(base.yesVotes) <= base.yesVotesTotal
      OBVIOUS
    <3> HIDE DEF bit, new, votes
    <3> QED
      BY <1>2, <2>3, <3>1, <3>2, <3>3
  <2>5. CASE bit = {relayers[relayer]}
    <3>0. relayers[relayer] \notin base.yesVotes
      BY <2>5 DEF bit
    <3>1. Cardinality(new.yesVotes) = Cardinality(base.yesVotes) + 1
      BY <1>3, <2>2, <2>5, <3>0, FS_AddElement
    <3>2. unmarked'[p] = unmarked[p]
      BY <1>8, <1>9, <2>5
    <3> QED
      BY <1>2, <1>3, <2>3, <3>1, <3>2
  <2> QED
    BY <1>7, <2>4, <2>5
<1>11. ASSUME p \notin reindexed
       PROVE  /\ voters'[p] \subseteq Members(relayers)
              /\ unmarked'[p] = Unmarked(voters'[p])
              /\ new.yesVotes = Bits(voters'[p])
              /\ Cardinality(voters'[p] \ unmarked'[p]) = Cardinality(new.yesVotes)
  <2>1. relayer \in Members(relayers)
    BY DEF isRelayer, hasRole, Members
  <2>2. voters'[p] \subseteq Members(relayers)
    BY <1>9, <1>11, <2>1
  <2>3. unmarked'[p] = Unmarked(voters'[p])
    BY <1>9, <1>11 DEF Unmarked
  <2>4. new.yesVotes = Bits(voters'[p])
    BY <1>3, <1>9, <1>11 DEF Bits, bit
  <2>5. PICK S \in SUBSET Members(relayers) : S = voters'[p]
    BY <2>2
  <2>6. Cardinality(S \ Unmarked(S)) = Cardinality(Bits(S))
    BY <1>5, BitsCounted
  <2> QED
    BY <2>2, <2>3, <2>4, <2>5, <2>6
<1>12. ProposalInv(p)'
  <2>1. (Unmarked(voters[p]))' = Unmarked(voters'[p])
    BY <1>6 DEF Unmarked
  <2>2. UNION {(_relayerBit(a))' : a \in voters'[p]} = Bits(voters'[p])
    BY <1>6 DEF Bits
  <2> QED
    BY <1>3, <1>6, <1>9, <1>10, <1>11, <2>1, <2>2 DEF ProposalInv
<1> QED
  BY <1>1, <1>3, <1>5, <1>6, <1>9, <1>12, OneProposalStep DEF config

(* Executing or cancelling an open proposal keeps the invariant. *)
LEMMA StatusStep ==
    ASSUME IInv,
           UNCHANGED <<roles, paused, config, blockNumber, voters, unmarked, openedAt, reindexed>>,
           NEW p \in Proposals, NEW status \in {"Executed", "Cancelled"},
           Store(p, [proposals[p] EXCEPT !.status = status]),
           proposals[p].status \in {"Active", "Passed"},
           effects' = IF status = "Executed" THEN [effects EXCEPT ![p] = @ + 1] ELSE effects
    PROVE  IInv'
<1> DEFINE old == proposals[p]
           new == [old EXCEPT !.status = status]
<1>1. old \in Proposal /\ ProposalInv(p) /\ effects[p] = 0
  BY ProposalFacts DEF ProposalInv
<1>2. /\ new \in Proposal
      /\ new.status = status
      /\ new.yesVotes = old.yesVotes
      /\ new.yesVotesTotal = old.yesVotesTotal
      /\ new.proposedBlock = old.proposedBlock
  BY <1>1 DEF Proposal, Status
<1>3. /\ effects \in [Proposals -> Nat] /\ voters \in [Proposals -> SUBSET Accounts]
      /\ unmarked \in [Proposals -> SUBSET Accounts]
      /\ openedAt \in [Proposals -> 0 .. MaxBlock] /\ reindexed \subseteq Proposals
      /\ proposals \in [Proposals -> Proposal]
  BY DEF IInv, TypeOK
<1> HIDE DEF new
<1>4. /\ proposals'[p] = new
      /\ effects' \in [Proposals -> Nat]
      /\ effects'[p] = IF status = "Executed" THEN 1 ELSE 0
      /\ \A q \in Proposals \ {p} : effects'[q] = effects[q]
  BY <1>1, <1>3 DEF Store, new
<1>5. ProposalInv(p)'
  BY <1>1, <1>2, <1>4 DEF ProposalInv, roles, Unmarked, _relayerBit, getRoleMemberIndex
<1>6. Store(p, new)
  BY DEF new
<1> QED
  BY <1>2, <1>3, <1>4, <1>5, <1>6, OneProposalStep

(* A resource that is mapped is mapped to a handler. *)
LEMMA HandlerType ==
    ASSUME TypeOK, NEW t \in Transfers, HandlerOf(t) # NoHandler
    PROVE  <<t, HandlerOf(t)>> \in Proposals
BY ConstantsAssumption DEF TypeOK, HandlerOf, Proposals

LEMMA OpenProposalType ==
    ASSUME blockNumber \in Nat
    PROVE  ProposedNow \in 0 .. BlockMod - 1 /\ OpenProposal \in Proposal
<1>1. ProposedNow \in 0 .. BlockMod - 1
  BY ConstantsAssumption DEF ProposedNow
<1>2. 0 \in 0 .. Uint8Limit - 1
  BY ConstantsAssumption
<1> QED
  BY <1>1, <1>2, ConstantsAssumption DEF OpenProposal, Proposal, Status

LEMMA VoteProposalStep ==
    ASSUME IInv, NEW relayer \in Accounts, NEW t \in Transfers, NEW ok \in BOOLEAN,
           voteProposal(relayer, t, ok)
    PROVE  IInv'
<1> DEFINE p == <<t, HandlerOf(t)>>
<1>1. /\ p \in Proposals
      /\ isRelayer(relayer)
      /\ UNCHANGED <<roles, paused, config, blockNumber, reindexed>>
  BY HandlerType DEF voteProposal, IInv
<1>2. /\ ProposalInv(p) /\ proposals[p] \in Proposal
      /\ openedAt \in [Proposals -> 0 .. MaxBlock] /\ openedAt[p] \in 0 .. MaxBlock
      /\ blockNumber \in 0 .. MaxBlock
  BY <1>1, ProposalFacts DEF IInv, TypeOK
<1>3. CASE /\ proposals[p].status = "Passed"
           /\ _executeProposal(p)
           /\ UNCHANGED <<voters, unmarked, openedAt>>
  BY <1>1, <1>3, StatusStep DEF _executeProposal, Effect
<1>4. CASE /\ proposals[p].status = "Inactive"
           /\ CountVote(relayer, p, OpenProposal, ok)
           /\ openedAt' = [openedAt EXCEPT ![p] = blockNumber]
  <2>1. OpenProposal \in Proposal
    BY <1>2, OpenProposalType
  <2>2. Cardinality({}) = 0
    BY FS_EmptySet
  <2>3. /\ OpenProposal.yesVotes = {} /\ OpenProposal.yesVotesTotal = 0
        /\ OpenProposal.proposedBlock = blockNumber % BlockMod
    BY DEF OpenProposal, ProposedNow
  <2>4. /\ openedAt' \in [Proposals -> 0 .. MaxBlock]
        /\ \A q \in Proposals \ {p} : openedAt'[q] = openedAt[q]
        /\ openedAt'[p] = blockNumber
    BY <1>1, <1>2, <1>4
  <2>5. voters[p] = {} /\ unmarked[p] = {}
    BY <1>2, <1>4 DEF ProposalInv
  <2>6. /\ Cardinality(OpenProposal.yesVotes) = OpenProposal.yesVotesTotal
        /\ Cardinality(OpenProposal.yesVotes) <= OpenProposal.yesVotesTotal
        /\ voters[p] \subseteq Members(relayers)
        /\ unmarked[p] = Unmarked(voters[p])
        /\ OpenProposal.yesVotes = Bits(voters[p])
    BY <2>2, <2>3, <2>5 DEF Unmarked, Bits
  <2>7. /\ _relayerBit(relayer) \intersect OpenProposal.yesVotes = {}
        /\ openedAt'[p] <= blockNumber
        /\ OpenProposal.proposedBlock = openedAt'[p] % BlockMod
    BY <1>2, <2>3, <2>4
  <2> QED
    BY <1>1, <1>4, <2>1, <2>4, <2>6, <2>7, CountVoteStep
<1>5. CASE /\ proposals[p].status = "Active"
           /\ ~_hasVoted(proposals[p], relayer)
           /\ CountVote(relayer, p, proposals[p], ok)
           /\ UNCHANGED openedAt
  BY <1>1, <1>2, <1>5, CountVoteStep DEF ProposalInv, _hasVoted, Bits
<1>6. CASE /\ proposals[p].status = "Active"
           /\ Store(p, [proposals[p] EXCEPT !.status = "Cancelled"])
           /\ UNCHANGED <<effects, voters, unmarked, openedAt>>
  BY <1>1, <1>6, StatusStep
<1> QED
  BY <1>3, <1>4, <1>5, <1>6 DEF voteProposal

LEMMA VoteProposalsStep ==
    ASSUME IInv, NEW t \in Transfers, NEW signers \in SignerLists, voteProposals(t, signers)
    PROVE  IInv'
<1>0. PICK p \in Proposals : p = <<t, HandlerOf(t)>>
  BY HandlerType DEF voteProposals, IInv
<1> DEFINE accounts == {signers[i] : i \in DOMAIN signers}
           bits == Bits(accounts)
<1>1. PICK n \in 0 .. MaxSignatures : signers \in [1 .. n -> Accounts]
  BY DEF SignerLists
<1>2. n \in Nat /\ DOMAIN signers = 1 .. n /\ Cardinality(1 .. n) = n
  BY <1>1, FS_Interval, ConstantsAssumption
<1> DEFINE new == [status |-> "Executed", yesVotes |-> bits, yesVotesTotal |-> n,
                   proposedBlock |-> ProposedNow]
<1>3. /\ p \in Proposals
      /\ UNCHANGED <<roles, paused, config, blockNumber>>
      /\ DistinctVotes(signers)
      /\ n < Uint8Limit
      /\ proposals[p].status \in {"Inactive", "Active"}
      /\ Store(p, new)
      /\ effects' = [effects EXCEPT ![p] = @ + 1]
      /\ voters' = [voters EXCEPT ![p] = accounts]
      /\ unmarked' = [unmarked EXCEPT ![p] = Unmarked(accounts)]
      /\ openedAt' = [openedAt EXCEPT ![p] = blockNumber]
      /\ reindexed' = reindexed \ {p}
  BY <1>0, <1>2 DEF voteProposals, StoredUndecided, Effect, FitsTotal, Bits
<1>4. /\ accounts \in SUBSET Accounts /\ accounts \in SUBSET Members(relayers)
      /\ bits \in SUBSET (1 .. VoteBits)
  BY <1>1, <1>2, <1>3 DEF DistinctVotes, FitsVote, isRelayer, hasRole, Members, Bits
<1>5. IsFiniteSet(accounts) /\ Cardinality(accounts) <= n
  <2>1. /\ signers \in [1 .. n -> accounts]
        /\ \A x \in accounts : \E i \in 1 .. n : signers[i] = x
    BY <1>1, <1>2
  <2> HIDE DEF accounts
  <2> QED
    BY <1>2, <2>1, ListBound
<1>6. ASSUME Unmarked(accounts) = {} PROVE Cardinality(accounts) = n
  <2>1. /\ signers \in [1 .. n -> accounts]
        /\ \A x \in accounts : \E i \in 1 .. n : signers[i] = x
    BY <1>1, <1>2
  <2>2. \A x \in accounts : _relayerBit(x) # {}
    BY <1>6 DEF Unmarked
  <2>3. \A i, j \in 1 .. n : signers[i] = signers[j] => i = j
    BY <1>2, <1>3, <2>1, <2>2 DEF DistinctVotes
  <2> HIDE DEF accounts
  <2> QED
    BY <1>2, <2>1, <2>3, ListCardinality
<1>7. Cardinality(accounts \ Unmarked(accounts)) = Cardinality(bits)
  <2> HIDE DEF accounts
  <2> QED
    BY <1>4, BitsCounted DEF IInv
<1>8. /\ Cardinality(bits) <= n
      /\ Unmarked(accounts) = {} => Cardinality(bits) = n
  <2> HIDE DEF accounts, bits
  <2>1. /\ IsFiniteSet(accounts \ Unmarked(accounts))
        /\ Cardinality(accounts \ Unmarked(accounts)) <= Cardinality(accounts)
        /\ Cardinality(accounts \ Unmarked(accounts)) \in Nat
        /\ Cardinality(accounts) \in Nat
    BY <1>5, FS_Subset, FS_CardinalityType
  <2>2. Cardinality(bits) <= n
    BY <1>2, <1>5, <1>7, <2>1
  <2>3. ASSUME Unmarked(accounts) = {} PROVE Cardinality(bits) = n
    <3>1. accounts \ Unmarked(accounts) = accounts
      BY <2>3
    <3> QED
      BY <1>6, <1>7, <2>3, <3>1
  <2> QED
    BY <2>2, <2>3
<1>9. /\ blockNumber \in 0 .. MaxBlock /\ blockNumber \in Nat
      /\ effects \in [Proposals -> Nat] /\ voters \in [Proposals -> SUBSET Accounts]
      /\ unmarked \in [Proposals -> SUBSET Accounts]
      /\ openedAt \in [Proposals -> 0 .. MaxBlock] /\ reindexed \subseteq Proposals
      /\ proposals \in [Proposals -> Proposal]
      /\ relayers' = relayers
  BY <1>3, ConstantsAssumption DEF IInv, TypeOK, roles
<1>10. effects[p] = 0
  BY <1>3 DEF IInv, ProposalInv
<1>11. Unmarked(accounts) \in SUBSET Accounts
  BY <1>4 DEF Unmarked
<1> HIDE DEF bits, accounts
<1>12. new \in Proposal
  <2>1. n \in 0 .. Uint8Limit - 1
    BY <1>2, <1>3, ConstantsAssumption
  <2> QED
    BY <1>4, <1>9, <2>1, OpenProposalType DEF Proposal, Status
<1>13. /\ proposals'[p] = new
       /\ effects'[p] = 1 /\ effects' \in [Proposals -> Nat]
       /\ voters'[p] = accounts /\ voters' \in [Proposals -> SUBSET Accounts]
       /\ unmarked'[p] = Unmarked(accounts) /\ unmarked' \in [Proposals -> SUBSET Accounts]
       /\ openedAt'[p] = blockNumber /\ openedAt' \in [Proposals -> 0 .. MaxBlock]
       /\ reindexed' \subseteq Proposals
       /\ \A q \in Proposals \ {p} :
             /\ effects'[q] = effects[q] /\ voters'[q] = voters[q] /\ unmarked'[q] = unmarked[q]
             /\ openedAt'[q] = openedAt[q] /\ (q \in reindexed' <=> q \in reindexed)
  BY <1>3, <1>4, <1>9, <1>10, <1>11 DEF Store
<1>14. ProposalInv(p)'
  <2>1. /\ new.status = "Executed" /\ new.yesVotes = bits /\ new.yesVotesTotal = n
        /\ new.proposedBlock = blockNumber % BlockMod
    BY DEF ProposedNow
  <2>2. blockNumber' = blockNumber /\ p \notin reindexed'
    BY <1>3
  <2> HIDE DEF new
  <2> QED
    BY <1>7, <1>8, <1>9, <1>13, <2>1, <2>2 DEF ProposalInv
<1> HIDE DEF new
<1> QED
  BY <1>3, <1>12, <1>13, <1>14, OneProposalStep

(* A step that leaves the relayers, the proposals and the history alone,    *)
(* and lets blocks only be added, keeps the invariant if it keeps the types.*)
LEMMA FrameStep ==
    ASSUME IInv, UNCHANGED <<relayers, proposals, history>>,
           blockNumber' \in 0 .. MaxBlock, blockNumber' >= blockNumber,
           TypeOK'
    PROVE  IInv'
<1>1. UNCHANGED <<effects, voters, unmarked, openedAt, reindexed>>
  BY DEF history
<1>2. RelayersEnumerated'
  BY DEF IInv, RelayersEnumerated, IsEnumeration, Members, getRoleMemberCount
<1>3. ASSUME NEW p \in Proposals PROVE ProposalInv(p)'
  <2>1. ProposalInv(p) /\ openedAt[p] \in Nat /\ blockNumber \in Nat
    BY ProposalFacts, ConstantsAssumption
  <2>2. openedAt[p] <= blockNumber'
    BY <2>1, ConstantsAssumption DEF ProposalInv
  <2> QED
    BY <1>1, <2>1, <2>2 DEF ProposalInv, Members, Unmarked, _relayerBit, getRoleMemberIndex
<1> QED
  BY <1>2, <1>3 DEF IInv

LEMMA CancelStep ==
    ASSUME IInv, Cancel
    PROVE  IInv'
<1> PICK sender \in Accounts, p \in Proposals : cancelProposal(sender, p)
  BY DEF Cancel
<1> QED
  BY StatusStep DEF cancelProposal, history

LEMMA ConfigureStep ==
    ASSUME IInv, Configure
    PROVE  IInv'
<1>1. /\ UNCHANGED <<roles, blockNumber, proposals, history>>
      /\ paused' \in BOOLEAN
      /\ relayerThreshold' \in 0 .. Uint8Limit - 1
      /\ expiry' \in Nat
      /\ resourceIDToHandlerAddress' \in [Resources -> Handlers \union {NoHandler}]
  <2> USE DEF IInv, TypeOK, config
  <2> PICK admin \in Accounts :
         \/ adminPauseTransfers(admin)
         \/ adminUnpauseTransfers(admin)
         \/ \E n \in Thresholds : adminChangeRelayerThreshold(admin, n)
         \/ \E n \in Expiries : adminChangeExpiry(admin, n)
         \/ \E r \in Resources :
               \/ \E h \in Handlers : adminSetResource(admin, r, h)
               \/ adminRemoveResourceId(admin, r)
    BY DEF Configure
  <2>1. CASE adminPauseTransfers(admin)
    BY <2>1 DEF adminPauseTransfers
  <2>2. CASE adminUnpauseTransfers(admin)
    BY <2>2 DEF adminUnpauseTransfers
  <2>3. CASE \E n \in Thresholds : adminChangeRelayerThreshold(admin, n)
    BY <2>3, ConstantsAssumption DEF adminChangeRelayerThreshold
  <2>4. CASE \E n \in Expiries : adminChangeExpiry(admin, n)
    BY <2>4, ConstantsAssumption DEF adminChangeExpiry
  <2>5. CASE \E r \in Resources, h \in Handlers : adminSetResource(admin, r, h)
    BY <2>5 DEF adminSetResource, SetHandler
  <2>6. CASE \E r \in Resources : adminRemoveResourceId(admin, r)
    BY <2>6 DEF adminRemoveResourceId, SetHandler
  <2> QED
    BY <2>1, <2>2, <2>3, <2>4, <2>5, <2>6
<1>2. relayers' = relayers /\ admins' = admins /\ blockNumber' = blockNumber
  BY <1>1 DEF roles
<1>3. TypeOK'
  BY <1>1, <1>2 DEF IInv, TypeOK, history
<1>4. blockNumber' \in 0 .. MaxBlock /\ blockNumber' >= blockNumber
  BY <1>2, ConstantsAssumption DEF IInv, TypeOK
<1> QED
  BY <1>1, <1>2, <1>3, <1>4, FrameStep

LEMMA NextBlockStep ==
    ASSUME IInv, NextBlock
    PROVE  IInv'
<1>1. UNCHANGED <<roles, paused, config, proposals, history>>
  BY DEF NextBlock
<1>2. blockNumber' \in 0 .. MaxBlock /\ blockNumber' >= blockNumber
  BY ConstantsAssumption DEF NextBlock, IInv, TypeOK
<1>3. TypeOK'
  BY <1>1, <1>2 DEF IInv, TypeOK, roles, config, history
<1> QED
  BY <1>1, <1>2, <1>3, FrameStep DEF roles

LEMMA SetAdminsStep ==
    ASSUME IInv, NEW members \in SUBSET Accounts, SetAdmins(members)
    PROVE  IInv'
<1>1. /\ admins' \subseteq Accounts
      /\ UNCHANGED <<relayers, paused, config, blockNumber, proposals, history>>
  BY DEF SetAdmins
<1>2. blockNumber' \in 0 .. MaxBlock /\ blockNumber' >= blockNumber
  BY <1>1, ConstantsAssumption DEF IInv, TypeOK
<1>3. TypeOK'
  BY <1>1, <1>2 DEF IInv, TypeOK, config, history
<1> QED
  BY <1>1, <1>2, <1>3, FrameStep

(* A new relayer gets an index nobody has and disturbs no other's votes.    *)
LEMMA GrantRelayerStep ==
    ASSUME IInv, NEW account \in Accounts, GrantRelayer(account)
    PROVE  IInv'
<1>1. /\ relayers' = _grantRole(relayers, account)
      /\ UNCHANGED <<admins, paused, config, blockNumber, proposals, history>>
      /\ UNCHANGED <<effects, voters, unmarked, openedAt, reindexed>>
  BY DEF GrantRelayer, history
<1>2. relayers \in [Accounts -> Nat] /\ IsEnumeration(relayers)
  BY DEF IInv, TypeOK, RelayersEnumerated
<1>3. relayers' \in [Accounts -> Nat] /\ IsEnumeration(relayers')
  BY <1>1, <1>2, GrantEnumerates
<1>4. RelayersEnumerated'
  BY <1>3 DEF RelayersEnumerated, IsEnumeration, Members, getRoleMemberCount
<1>5. TypeOK'
  BY <1>1, <1>3 DEF IInv, TypeOK, config
<1>6. \A a \in Members(relayers) : a \in Members(relayers)' /\ relayers'[a] = relayers[a]
  <2>1. CASE hasRole(relayers, account)
    BY <1>1, <2>1 DEF _grantRole, Members
  <2>2. CASE ~hasRole(relayers, account)
    BY <1>1, <1>2, <2>2 DEF _grantRole, Members, hasRole
  <2> QED
    BY <2>1, <2>2
<1>7. ASSUME NEW p \in Proposals PROVE ProposalInv(p)'
  <2>1. ProposalInv(p)
    BY DEF IInv
  <2>2. \A a \in Members(relayers) : (_relayerBit(a))' = _relayerBit(a)
    BY <1>6 DEF _relayerBit, getRoleMemberIndex
  <2>3. CASE voters[p] \subseteq Members(relayers)
    <3>1. (Unmarked(voters[p]))' = Unmarked(voters[p])
      BY <1>1, <2>2, <2>3 DEF Unmarked
    <3>2. UNION {(_relayerBit(a))' : a \in voters'[p]} = UNION {_relayerBit(a) : a \in voters[p]}
      BY <1>1, <2>2, <2>3
    <3> QED
      BY <1>1, <1>6, <2>1, <2>3, <3>1, <3>2 DEF ProposalInv
  <2>4. CASE ~(voters[p] \subseteq Members(relayers))
    BY <1>1, <2>1, <2>4 DEF ProposalInv
  <2> QED
    BY <2>3, <2>4
<1> QED
  BY <1>4, <1>5, <1>7 DEF IInv

(* A removal may move another relayer's index: the proposals open at that   *)
(* moment are the ones whose bits no longer say who voted.                  *)
LEMMA RevokeRelayerStep ==
    ASSUME IInv, NEW account \in Accounts, RevokeRelayer(account)
    PROVE  IInv'
<1>1. /\ relayers' = _revokeRole(relayers, account)
      /\ reindexed' = IF isRelayer(account)
                      THEN reindexed \union {p \in Proposals : proposals[p].status = "Active"}
                      ELSE reindexed
      /\ UNCHANGED <<admins, paused, config, blockNumber, proposals, effects, voters, unmarked,
                     openedAt>>
  BY DEF RevokeRelayer
<1>2. relayers \in [Accounts -> Nat] /\ IsEnumeration(relayers)
  BY DEF IInv, TypeOK, RelayersEnumerated
<1>3. relayers' \in [Accounts -> Nat] /\ IsEnumeration(relayers')
  BY <1>1, <1>2, RevokeEnumerates
<1>4. RelayersEnumerated'
  BY <1>3 DEF RelayersEnumerated, IsEnumeration, Members, getRoleMemberCount
<1>5. reindexed' \subseteq Proposals /\ reindexed \subseteq reindexed'
  BY <1>1 DEF IInv, TypeOK
<1>6. TypeOK'
  BY <1>1, <1>3, <1>5 DEF IInv, TypeOK, config
<1>7. ASSUME NEW p \in Proposals PROVE ProposalInv(p)'
  <2>1. ProposalInv(p)
    BY DEF IInv
  <2>2. CASE isRelayer(account)
    <3>1. p \notin reindexed' => proposals[p].status # "Active"
      BY <1>1, <2>2
    <3> QED
      BY <1>1, <1>5, <2>1, <3>1 DEF ProposalInv
  <2>3. CASE ~isRelayer(account)
    <3>1. relayers' = relayers /\ reindexed' = reindexed
      BY <1>1, <2>3 DEF isRelayer, _revokeRole
    <3> QED
      BY <1>1, <2>1, <3>1 DEF ProposalInv, Members, Unmarked, _relayerBit, getRoleMemberIndex
  <2> QED
    BY <2>2, <2>3
<1> QED
  BY <1>4, <1>6, <1>7 DEF IInv

LEMMA ChangeRolesStep ==
    ASSUME IInv, ChangeRoles
    PROVE  IInv'
<1>1. \E account \in Accounts :
         \/ GrantRelayer(account)
         \/ RevokeRelayer(account)
         \/ \E members \in SUBSET Accounts : SetAdmins(members)
  <2>1. admins \subseteq Accounts /\ Candidates \subseteq Accounts
    BY ConstantsAssumption DEF IInv, TypeOK
  <2>2. CASE \E admin \in Accounts, account \in Candidates :
                adminAddRelayer(admin, account) \/ adminRemoveRelayer(admin, account)
    BY <2>1, <2>2 DEF adminAddRelayer, adminRemoveRelayer
  <2>3. CASE \E admin \in Accounts, account \in Candidates : renounceAdmin(admin, account)
    BY <2>1, <2>3 DEF renounceAdmin
  <2>4. CASE \E admin \in Accounts, account \in Candidates : grantRole(admin, account)
    BY <2>1, <2>4 DEF grantRole
  <2>5. CASE \E admin \in Accounts, account \in Candidates : revokeRole(admin, account)
    BY <2>1, <2>5 DEF revokeRole
  <2>6. CASE \E account \in Candidates : renounceRole(account)
    BY <2>1, <2>6 DEF renounceRole
  <2> QED
    BY <2>2, <2>3, <2>4, <2>5, <2>6 DEF ChangeRoles
<1> QED
  BY <1>1, GrantRelayerStep, RevokeRelayerStep, SetAdminsStep

LEMMA VoteStep ==
    ASSUME IInv, Vote
    PROVE  IInv'
<1> PICK t \in Transfers :
       \/ \E relayer \in Accounts, ok \in BOOLEAN : voteProposal(relayer, t, ok)
       \/ \E signers \in SignerLists : voteProposals(t, signers)
       \/ \E relayer \in Accounts : executeProposal(relayer, t)
  BY DEF Vote
<1>1. CASE \E relayer \in Accounts, ok \in BOOLEAN : voteProposal(relayer, t, ok)
  BY <1>1, VoteProposalStep
<1>2. CASE \E signers \in SignerLists : voteProposals(t, signers)
  BY <1>2, VoteProposalsStep
<1>3. CASE \E relayer \in Accounts : executeProposal(relayer, t)
  <2>1. <<t, HandlerOf(t)>> \in Proposals
    BY <1>3, HandlerType DEF executeProposal, IInv
  <2> QED
    BY <1>3, <2>1, StatusStep DEF executeProposal, _executeProposal, Effect
<1> QED
  BY <1>1, <1>2, <1>3

LEMMA StutterStep ==
    ASSUME IInv, UNCHANGED vars
    PROVE  IInv'
<1>1. UNCHANGED <<roles, paused, config, blockNumber, proposals, history>>
  BY DEF vars
<1>2. TypeOK' /\ blockNumber' \in 0 .. MaxBlock /\ blockNumber' >= blockNumber
  BY <1>1, ConstantsAssumption DEF IInv, TypeOK, roles, config, history
<1> QED
  BY <1>1, <1>2, FrameStep DEF roles

(* The invariant is inductive. *)
THEOREM IInvInductive == IInv /\ [Next]_vars => IInv'
BY VoteStep, CancelStep, ConfigureStep, ChangeRolesStep, NextBlockStep, StutterStep DEF Next

(* Every reachable state of Bridge.sol's proposals satisfies the inductive  *)
(* invariant.                                                               *)
THEOREM Invariance == Spec => []IInv
<1>1. Init => IInv
  BY IInvInit
<1>2. IInv /\ [Next]_vars => IInv'
  BY IInvInductive
<1> QED
  BY <1>1, <1>2, PTL DEF Spec
-----------------------------------------------------------------------------
(* State invariants *)

(* Every variable keeps its type. *)
THEOREM TypeCorrect == Spec => []TypeOK
<1>1. IInv => TypeOK
  BY DEF IInv
<1> QED
  BY <1>1, Invariance, PTL

(* The relayers' indices are 1..n, each held once, after any sequence of    *)
(* grants, revocations and renunciations (_relayerBit, AccessControl.sol).  *)
THEOREM RelayersStayEnumerated == Spec => []RelayersEnumerated
<1>1. IInv => RelayersEnumerated
  BY DEF IInv
<1> QED
  BY <1>1, Invariance, PTL

(* A proposal's handler takes effect exactly once when it is executed and   *)
(* never otherwise, whichever of the three functions executes it.           *)
THEOREM EffectsExactlyOnce == Spec => []EffectExactlyOnce
<1>1. IInv => EffectExactlyOnce
  BY DEF IInv, ProposalInv, EffectExactlyOnce
<1> QED
  BY <1>1, Invariance, PTL

(* _yesVotesTotal counts the bits of _yesVotes, and besides only votes of   *)
(* relayers who had no bit (voteProposal, voteProposals).                   *)
THEOREM VotesAreBits == Spec => []VotesMatchBits
<1>1. IInv => VotesMatchBits
  BY DEF IInv, ProposalInv, VotesMatchBits
<1> QED
  BY <1>1, Invariance, PTL

(* _yesVotes holds VoteBits (200) votes at most.  As long as nobody voted   *)
(* without a bit these are all the votes counted; and in any case the       *)
(* counter stays within its uint8.                                          *)
THEOREM VotesBounded ==
    Spec => [](\A p \in Proposals :
                 /\ Cardinality(proposals[p].yesVotes) <= VoteBits
                 /\ unmarked[p] = {} => proposals[p].yesVotesTotal <= VoteBits
                 /\ proposals[p].yesVotesTotal < Uint8Limit)
<1> DEFINE Bounded(p) == /\ Cardinality(proposals[p].yesVotes) <= VoteBits
                         /\ unmarked[p] = {} => proposals[p].yesVotesTotal <= VoteBits
                         /\ proposals[p].yesVotesTotal < Uint8Limit
<1>1. ASSUME IInv, NEW p \in Proposals PROVE Bounded(p)
  <2>1. IsFiniteSet(1 .. VoteBits) /\ Cardinality(1 .. VoteBits) = VoteBits
    BY VoteBitsFinite
  <2>2. proposals[p].yesVotes \in SUBSET (1 .. VoteBits)
    BY <1>1, ProposalFacts
  <2>3. Cardinality(proposals[p].yesVotes) <= VoteBits
    BY <2>1, <2>2, FS_Subset
  <2>4. unmarked[p] = {} => Cardinality(proposals[p].yesVotes) = proposals[p].yesVotesTotal
    BY <1>1 DEF IInv, ProposalInv
  <2>5. proposals[p].yesVotesTotal < Uint8Limit
    BY <1>1, ProposalFacts, ConstantsAssumption DEF Proposal
  <2> QED
    BY <2>3, <2>4, <2>5
<1>2. IInv => \A p \in Proposals : Bounded(p)
  BY <1>1
<1> QED
  BY <1>2, Invariance, PTL

(* While no relayer is removed, the bits of a proposal are those of as many *)
(* accounts, and all its votes are if its voters all had a bit (_hasVoted). *)
THEOREM OneVoteEach == Spec => []OneVotePerRelayer
<1>1. ASSUME IInv, NEW p \in Proposals \ reindexed
      PROVE  /\ Cardinality(voters[p] \ unmarked[p]) = Cardinality(proposals[p].yesVotes)
             /\ unmarked[p] = {} => Cardinality(voters[p]) = proposals[p].yesVotesTotal
  <2>1. ProposalInv(p)
    BY <1>1 DEF IInv
  <2>2. unmarked[p] = {} => voters[p] \ unmarked[p] = voters[p]
    OBVIOUS
  <2> QED
    BY <2>1, <2>2 DEF ProposalInv
<1>2. IInv => OneVotePerRelayer
  BY <1>1 DEF OneVotePerRelayer
<1> QED
  BY <1>2, Invariance, PTL
-----------------------------------------------------------------------------
(* What a step may do to a proposal *)

Ages(p) == blockNumber - openedAt[p] > expiry

(* The only ways in which a step changes a proposal p: a counted vote, a    *)
(* vote by signatures, an execution and a cancellation.                     *)
StepOn(p) ==
    \/ /\ Undecided(p)
       /\ proposals'[p].status \in {"Passed", "Executed"}
             <=> proposals'[p].yesVotesTotal >= relayerThreshold
       /\ proposals'[p].status \in {"Active", "Passed", "Executed"}
       /\ effects'[p] = IF proposals'[p].status = "Executed" THEN effects[p] + 1 ELSE effects[p]
       /\ ~paused
       /\ p[2] = HandlerOf(p[1])
    \/ /\ proposals[p].status = "Passed"
       /\ proposals'[p] = [proposals[p] EXCEPT !.status = "Executed"]
       /\ effects'[p] = effects[p] + 1
    \/ /\ proposals[p].status \in {"Active", "Passed"}
       /\ proposals'[p] = [proposals[p] EXCEPT !.status = "Cancelled"]
       /\ effects'[p] = effects[p]
       /\ Ages(p)

(* A step changes at most one proposal, and it in one of those ways.        *)
SteppedOn(p) ==
    /\ StepOn(p)
    /\ proposals' = [proposals EXCEPT ![p] = proposals'[p]]
    /\ effects' = [effects EXCEPT ![p] = effects'[p]]

(* A proposal whose 40-bit age exceeds the expiry has really waited longer. *)
LEMMA ExpiredIsOld ==
    ASSUME IInv, NEW p \in Proposals, proposals[p].status # "Inactive", Expired(proposals[p])
    PROVE  Ages(p)
<1>1. /\ openedAt[p] \in Nat /\ blockNumber \in Nat /\ openedAt[p] <= blockNumber
      /\ proposals[p].proposedBlock = openedAt[p] % BlockMod
      /\ expiry \in Nat
  <2>1. ProposalInv(p) /\ expiry \in Nat
    BY DEF IInv, TypeOK
  <2>2. openedAt[p] \in Nat /\ blockNumber \in Nat
    BY ProposalFacts, ConstantsAssumption
  <2> QED
    BY <2>1, <2>2 DEF ProposalInv
<1>2. Age(proposals[p]) <= blockNumber - openedAt[p] /\ Age(proposals[p]) \in Nat
  BY <1>1, AgeNotExaggerated, ConstantsAssumption DEF Age
<1> QED
  BY <1>1, <1>2 DEF Ages, Expired

(* Every step leaves the proposals and their effects alone or changes one   *)
(* proposal in one of the ways above.                                       *)
LEMMA StepsOnProposals ==
    ASSUME IInv, [Next]_vars
    PROVE  \/ UNCHANGED <<proposals, effects>>
           \/ \E p \in Proposals : SteppedOn(p)
<1> USE DEF SteppedOn
<1>1. proposals \in [Proposals -> Proposal] /\ effects \in [Proposals -> Nat]
  BY DEF IInv, TypeOK
<1>2. ASSUME NEW p \in Proposals, _executeProposal(p)
      PROVE  SteppedOn(p)
  BY <1>1, <1>2 DEF _executeProposal, Store, Effect, StepOn
<1>3. ASSUME NEW p \in Proposals, NEW relayer \in Accounts, NEW ok \in BOOLEAN,
             NEW base \in Proposal,
             CountVote(relayer, p, base, ok), Undecided(p), ~paused, p[2] = HandlerOf(p[1])
      PROVE  SteppedOn(p)
  <2> DEFINE votes == base.yesVotesTotal + 1
             status == IF ~ReachesThreshold(votes) THEN "Active"
                       ELSE IF ok THEN "Executed" ELSE "Passed"
  <2>1. /\ proposals' = [proposals EXCEPT ![p] =
                            [status |-> status,
                             yesVotes |-> base.yesVotes \union _relayerBit(relayer),
                             yesVotesTotal |-> votes,
                             proposedBlock |-> base.proposedBlock]]
        /\ effects' = IF status = "Executed" THEN [effects EXCEPT ![p] = @ + 1] ELSE effects
    BY <1>3 DEF CountVote, Store, Effect
  <2>2. status \in {"Passed", "Executed"} <=> votes >= relayerThreshold
    BY DEF ReachesThreshold
  <2>3. status \in {"Active", "Passed", "Executed"}
    OBVIOUS
  <2> HIDE DEF status, votes
  <2>4. /\ proposals'[p].status = status /\ proposals'[p].yesVotesTotal = votes
        /\ proposals' = [proposals EXCEPT ![p] = proposals'[p]]
        /\ effects'[p] = IF status = "Executed" THEN effects[p] + 1 ELSE effects[p]
        /\ effects' = [effects EXCEPT ![p] = effects'[p]]
    BY <1>1, <2>1
  <2> QED
    BY <1>3, <2>2, <2>3, <2>4 DEF StepOn
<1>4. ASSUME NEW p \in Proposals, Expired(proposals[p]),
             proposals[p].status \in {"Active", "Passed"},
             Store(p, [proposals[p] EXCEPT !.status = "Cancelled"]), UNCHANGED effects
      PROVE  SteppedOn(p)
  <2>1. Ages(p)
    BY <1>4, ExpiredIsOld
  <2> QED
    BY <1>1, <1>4, <2>1 DEF Store, StepOn
<1>5. ASSUME NEW relayer \in Accounts, NEW t \in Transfers, NEW ok \in BOOLEAN,
             voteProposal(relayer, t, ok)
      PROVE  \E p \in Proposals : SteppedOn(p)
  <2>0. PICK p \in Proposals : p = <<t, HandlerOf(t)>>
    BY <1>5, HandlerType DEF voteProposal, IInv
  <2>1. ~paused /\ p[2] = HandlerOf(p[1]) /\ proposals[p] \in Proposal /\ OpenProposal \in Proposal
    BY <1>1, <1>5, <2>0, OpenProposalType, ConstantsAssumption DEF voteProposal, IInv, TypeOK
  <2>2. \/ _executeProposal(p)
        \/ Undecided(p) /\ CountVote(relayer, p, OpenProposal, ok)
        \/ Undecided(p) /\ CountVote(relayer, p, proposals[p], ok)
        \/ /\ proposals[p].status = "Active" /\ Expired(proposals[p])
           /\ Store(p, [proposals[p] EXCEPT !.status = "Cancelled"]) /\ UNCHANGED effects
    BY <1>5, <2>0 DEF voteProposal, Undecided
  <2> QED
    BY <1>2, <1>3, <1>4, <2>1, <2>2
<1>6. ASSUME NEW t \in Transfers, NEW signers \in SignerLists, voteProposals(t, signers)
      PROVE  \E p \in Proposals : SteppedOn(p)
  <2>0. PICK p \in Proposals : p = <<t, HandlerOf(t)>>
    BY <1>6, HandlerType DEF voteProposals, IInv
  <2> DEFINE n == Cardinality(DOMAIN signers)
             new == [status |-> "Executed",
                     yesVotes |-> UNION {_relayerBit(a) :
                                            a \in {signers[i] : i \in DOMAIN signers}},
                     yesVotesTotal |-> n,
                     proposedBlock |-> ProposedNow]
  <2>1. /\ ~paused /\ p[2] = HandlerOf(p[1]) /\ Undecided(p)
        /\ n >= relayerThreshold
        /\ proposals' = [proposals EXCEPT ![p] = new]
        /\ effects' = [effects EXCEPT ![p] = @ + 1]
    BY <1>6, <2>0 DEF voteProposals, StoredUndecided, Undecided, Store, Effect, ReachesThreshold
  <2>2. new.status = "Executed" /\ new.yesVotesTotal = n
    OBVIOUS
  <2> HIDE DEF new, n
  <2> QED
    BY <1>1, <2>1, <2>2 DEF StepOn
<1>7. ASSUME NEW relayer \in Accounts, NEW t \in Transfers, executeProposal(relayer, t)
      PROVE  \E p \in Proposals : SteppedOn(p)
  BY <1>2, <1>7, HandlerType DEF executeProposal, IInv
<1>8. CASE Vote
  BY <1>5, <1>6, <1>7, <1>8 DEF Vote
<1>9. CASE Cancel
  BY <1>4, <1>9 DEF Cancel, cancelProposal, history
<1>10. CASE Configure
  BY <1>10 DEF Configure, adminPauseTransfers, adminUnpauseTransfers, adminChangeRelayerThreshold,
               adminChangeExpiry, adminSetResource, adminRemoveResourceId, SetHandler, history
<1>11. CASE ChangeRoles
  BY <1>11 DEF ChangeRoles, adminAddRelayer, adminRemoveRelayer, renounceAdmin, grantRole,
               revokeRole, renounceRole, GrantRelayer, RevokeRelayer, SetAdmins, history
<1>12. CASE NextBlock
  BY <1>12 DEF NextBlock, history
<1>13. CASE UNCHANGED vars
  BY <1>13 DEF vars, history
<1> QED
  BY <1>8, <1>9, <1>10, <1>11, <1>12, <1>13 DEF Next

(* A step that touches an undecided proposal without cancelling it decides  *)
(* in its favour exactly when its votes reach the threshold of that moment, *)
(* unpaused, and under the handler its resource then has.                   *)
THEOREM QuorumDecides == Spec => DecidedByQuorum
<1>1. ASSUME IInv, [Next]_vars, NEW p \in Proposals PROVE QuorumStep(p)
  <2>1. proposals[p] \in Proposal /\ proposals \in [Proposals -> Proposal]
    BY <1>1 DEF IInv, TypeOK
  <2>2. CASE UNCHANGED proposals
    BY <2>2 DEF QuorumStep
  <2>3. ASSUME NEW q \in Proposals, SteppedOn(q) PROVE QuorumStep(p)
    <3>1. CASE q # p
      BY <2>1, <2>3, <3>1 DEF SteppedOn, QuorumStep
    <3>2. CASE q = p
      <4>1. StepOn(p)
        BY <2>3, <3>2 DEF SteppedOn
      <4>2. proposals[p].status \in {"Active", "Passed"}
               /\ proposals'[p] = [proposals[p] EXCEPT !.status = "Cancelled"]
            => proposals'[p].status = "Cancelled"
        BY <2>1 DEF Proposal
      <4> QED
        BY <4>1, <4>2 DEF StepOn, QuorumStep, Undecided
    <3> QED
      BY <3>1, <3>2
  <2> QED
    BY <1>1, <2>2, <2>3, StepsOnProposals
<1>2. IInv /\ [Next]_vars => [\A p \in Proposals : QuorumStep(p)]_vars
  BY <1>1
<1> QED
  BY <1>2, Invariance, PTL DEF Spec, DecidedByQuorum

(* The votes and the creation block of a decided proposal never change.     *)
THEOREM BallotStaysClosed == Spec => BallotClosed
<1>1. ASSUME IInv, [Next]_vars, NEW p \in Proposals PROVE ClosedStep(p)
  <2>1. proposals[p] \in Proposal /\ proposals \in [Proposals -> Proposal]
    BY <1>1 DEF IInv, TypeOK
  <2>2. CASE UNCHANGED proposals
    BY <2>1, <2>2 DEF ClosedStep, Proposal
  <2>3. ASSUME NEW q \in Proposals, SteppedOn(q) PROVE ClosedStep(p)
    <3>1. CASE q # p
      <4>1. proposals'[p] = proposals[p]
        BY <2>1, <2>3, <3>1 DEF SteppedOn
      <4> QED
        BY <2>1, <4>1 DEF ClosedStep, Proposal
    <3>2. CASE q = p
      <4>1. StepOn(p)
        BY <2>3, <3>2 DEF SteppedOn
      <4>2. ASSUME NEW s, proposals'[p] = [proposals[p] EXCEPT !.status = s]
            PROVE  proposals'[p] = [proposals[p] EXCEPT !.status = proposals'[p].status]
        BY <2>1, <4>2 DEF Proposal
      <4> QED
        BY <4>1, <4>2 DEF StepOn, ClosedStep, Undecided
    <3> QED
      BY <3>1, <3>2
  <2> QED
    BY <1>1, <2>2, <2>3, StepsOnProposals
<1>2. IInv /\ [Next]_vars => [\A p \in Proposals : ClosedStep(p)]_vars
  BY <1>1
<1> QED
  BY <1>2, Invariance, PTL DEF Spec, BallotClosed

(* A proposal is cancelled only when more than expiry blocks have passed    *)
(* since it was created, for any width of the stored block number.          *)
THEOREM CancelsOnlyOld == Spec => CancelledOnlyWhenOld
<1>1. ASSUME IInv, [Next]_vars, NEW p \in Proposals, Cancelling(p) PROVE Ages(p)
  <2>1. proposals[p] \in Proposal /\ proposals \in [Proposals -> Proposal]
    BY <1>1 DEF IInv, TypeOK
  <2>2. PICK q \in Proposals : SteppedOn(q)
    BY <1>1, StepsOnProposals DEF Cancelling
  <2>3. q = p
    BY <1>1, <2>1, <2>2 DEF SteppedOn, Cancelling
  <2>4. StepOn(p)
    BY <2>2, <2>3 DEF SteppedOn
  <2>5. proposals'[p] = [proposals[p] EXCEPT !.status = "Executed"]
           => proposals'[p].status = "Executed"
    BY <2>1 DEF Proposal
  <2> QED
    BY <1>1, <2>4, <2>5 DEF StepOn, Cancelling
<1>2. IInv /\ [Next]_vars =>
         [\A p \in Proposals : Cancelling(p) => blockNumber - openedAt[p] > expiry]_vars
  BY <1>1 DEF Ages
<1> QED
  BY <1>2, Invariance, PTL DEF Spec, CancelledOnlyWhenOld
(* A vote without a bit is counted only while there are more relayers than  *)
(* the word has bits: an index is at most the number of relayers.           *)
THEOREM WordSuffices == Spec => UnmarkedOnlyWhenCrowded
<1> DEFINE Step(p) == unmarked'[p] \subseteq unmarked[p] \/ Crowded
<1>1. ASSUME IInv, [Next]_vars, NEW p \in Proposals PROVE Step(p)
  <2> SUFFICES ASSUME ~Crowded PROVE unmarked'[p] \subseteq unmarked[p]
    OBVIOUS
  <2>1. unmarked \in [Proposals -> SUBSET Accounts] /\ relayers \in [Accounts -> Nat]
    BY <1>1 DEF IInv, TypeOK
  <2>2. ASSUME NEW a \in Accounts, isRelayer(a) PROVE _relayerBit(a) # {}
    <3>1. a \in Members(relayers) /\ relayers[a] \in Nat \ {0}
      BY <2>1, <2>2 DEF isRelayer, hasRole, Members
    <3>2. relayers[a] <= getRoleMemberCount(relayers)
      BY <1>1, <3>1 DEF IInv, RelayersEnumerated, IsEnumeration
    <3>3. getRoleMemberCount(relayers) \in Nat /\ WordBits \in Nat
      BY MembersFinite, ConstantsAssumption
    <3>4. relayers[a] \in 1 .. WordBits
      BY <3>1, <3>2, <3>3 DEF Crowded
    <3> QED
      BY <3>4 DEF _relayerBit, getRoleMemberIndex
  <2>3. ASSUME NEW relayer \in Accounts, NEW t \in Transfers, NEW ok \in BOOLEAN,
               voteProposal(relayer, t, ok)
        PROVE  unmarked'[p] \subseteq unmarked[p]
    <3>1. Unmarked({relayer}) = {}
      BY <2>2, <2>3 DEF voteProposal, Unmarked
    <3>2. ASSUME NEW q, NEW base, CountVote(relayer, q, base, ok)
          PROVE  unmarked'[p] \subseteq unmarked[p]
      BY <2>1, <3>1, <3>2 DEF CountVote
    <3>3. UNCHANGED unmarked => unmarked'[p] \subseteq unmarked[p]
      OBVIOUS
    <3> QED
      BY <2>3, <3>2, <3>3 DEF voteProposal
  <2>4. ASSUME NEW t \in Transfers, NEW signers \in SignerLists, voteProposals(t, signers)
        PROVE  unmarked'[p] \subseteq unmarked[p]
    <3> DEFINE accounts == {signers[i] : i \in DOMAIN signers}
    <3>1. \A a \in accounts : a \in Accounts /\ isRelayer(a)
      BY <2>4 DEF voteProposals, DistinctVotes, SignerLists
    <3>2. Unmarked(accounts) = {}
      BY <2>2, <3>1 DEF Unmarked
    <3>3. unmarked' = [unmarked EXCEPT ![<<t, HandlerOf(t)>>] = Unmarked(accounts)]
      BY <2>4 DEF voteProposals
    <3> HIDE DEF accounts
    <3> QED
      BY <2>1, <3>2, <3>3
  <2>5. CASE Vote
    BY <2>3, <2>4, <2>5 DEF Vote, executeProposal
  <2>6. CASE ~Vote
    <3>1. UNCHANGED unmarked
      BY <1>1, <2>6 DEF Next, vars, history, Cancel, cancelProposal, Configure,
         adminPauseTransfers, adminUnpauseTransfers, adminChangeRelayerThreshold,
         adminChangeExpiry, adminSetResource, adminRemoveResourceId, SetHandler, ChangeRoles,
         adminAddRelayer, adminRemoveRelayer, renounceAdmin, grantRole, revokeRole,
         renounceRole, GrantRelayer, RevokeRelayer, SetAdmins, NextBlock
    <3> QED
      BY <3>1
  <2> QED
    BY <2>5, <2>6
<1>2. IInv /\ [Next]_vars => [\A p \in Proposals : Step(p)]_vars
  BY <1>1
<1> QED
  BY <1>2, Invariance, PTL DEF Spec, UnmarkedOnlyWhenCrowded
-----------------------------------------------------------------------------
(* Refinement *)

(* The proposals of the bridge follow the abstract life cycle: each is      *)
(* decided once, takes effect exactly when it is released, and one that is  *)
(* rejected never does.                                                     *)
THEOREM RefinesLifecycle == Spec => LifecycleSpec
<1>1. Init => Lifecycle!Init
  BY DEF Init, Lifecycle!Init, Decision, DecisionOf, NoProposal
<1>2. ASSUME IInv, [Next]_vars PROVE [Lifecycle!Next]_(Lifecycle!vars)
  <2>1. /\ proposals \in [Proposals -> Proposal] /\ effects \in [Proposals -> Nat]
        /\ \A p \in Proposals :
              proposals[p].status # "Executed" => effects[p] = 0
    BY <1>2 DEF IInv, TypeOK, ProposalInv
  <2>2. CASE UNCHANGED <<proposals, effects>>
    BY <2>2 DEF Decision, Lifecycle!vars
  <2>3. ASSUME NEW p \in Proposals, SteppedOn(p)
        PROVE  Lifecycle!Next \/ UNCHANGED Lifecycle!vars
    <3> DEFINE status == proposals[p].status
               next == DecisionOf[proposals'[p].status]
    <3>1. /\ Decision \in [Proposals -> {DecisionOf[s] : s \in Status}]
          /\ Decision[p] = DecisionOf[status]
          /\ Decision' = [Decision EXCEPT ![p] = next]
          /\ effects' = [effects EXCEPT ![p] = effects'[p]]
      BY <2>1, <2>3 DEF SteppedOn, Decision, Proposal
    <3>2. proposals[p] \in Proposal /\ effects[p] \in Nat
      BY <2>1
    <3>3. CASE /\ Undecided(p)
               /\ proposals'[p].status \in {"Active", "Passed", "Executed"}
               /\ effects'[p] = IF proposals'[p].status = "Executed"
                                THEN effects[p] + 1 ELSE effects[p]
      <4>1. effects[p] = 0 /\ DecisionOf[status] = "Open"
        BY <2>1, <3>3 DEF Undecided, DecisionOf
      <4>2. CASE proposals'[p].status = "Active"
        <5>1. Decision' = Decision /\ effects' = effects
          BY <2>1, <3>1, <3>3, <4>1, <4>2 DEF DecisionOf
        <5> QED
          BY <5>1 DEF Lifecycle!vars
      <4>3. CASE proposals'[p].status = "Passed"
        <5>1. effects' = effects /\ next = "Approved"
          BY <2>1, <3>1, <3>3, <4>3 DEF DecisionOf
        <5>2. Lifecycle!Approve(p)
          BY <3>1, <4>1, <5>1 DEF Lifecycle!Approve
        <5> QED
          BY <5>2 DEF Lifecycle!Next
      <4>4. CASE proposals'[p].status = "Executed"
        <5>1. effects'[p] = 1 /\ next = "Released"
          BY <3>3, <4>1, <4>4 DEF DecisionOf
        <5>2. Lifecycle!Release(p)
          BY <3>1, <4>1, <5>1 DEF Lifecycle!Release
        <5> QED
          BY <5>2 DEF Lifecycle!Next
      <4> QED
        BY <3>3, <4>2, <4>3, <4>4
    <3>4. CASE /\ status = "Passed"
               /\ proposals'[p] = [proposals[p] EXCEPT !.status = "Executed"]
               /\ effects'[p] = effects[p] + 1
      <4>1. /\ effects[p] = 0 /\ effects'[p] = 1
            /\ DecisionOf[status] = "Approved" /\ next = "Released"
        BY <2>1, <3>2, <3>4 DEF DecisionOf, Proposal
      <4>2. Lifecycle!Release(p)
        BY <3>1, <4>1 DEF Lifecycle!Release
      <4> QED
        BY <4>2 DEF Lifecycle!Next
    <3>5. CASE /\ status \in {"Active", "Passed"}
               /\ proposals'[p] = [proposals[p] EXCEPT !.status = "Cancelled"]
               /\ effects'[p] = effects[p]
      <4>1. /\ effects[p] = 0 /\ effects' = effects
            /\ DecisionOf[status] \in {"Open", "Approved"} /\ next = "Rejected"
        BY <2>1, <3>1, <3>2, <3>5 DEF DecisionOf, Proposal
      <4>2. Lifecycle!Reject(p)
        BY <3>1, <4>1 DEF Lifecycle!Reject
      <4> QED
        BY <4>2 DEF Lifecycle!Next
    <3> QED
      BY <2>3, <3>3, <3>4, <3>5 DEF SteppedOn, StepOn
  <2> QED
    BY <1>2, <2>2, <2>3, StepsOnProposals
<1> QED
  BY <1>1, <1>2, Invariance, PTL DEF Spec, LifecycleSpec, Lifecycle!Spec
=============================================================================
