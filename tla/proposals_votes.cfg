CONSTANTS
    owner = owner
    r1 = r1
    r2 = r2
    r3 = r3
    t1 = t1
    res = res
    h1 = h1
    h2 = h2
    Accounts <- MCAccounts
    Deployer = owner
    InitialRelayers <- ThreeRelayers
    Transfers = {t1}
    Resources = {res}
    ResourceOf <- MCResourceOf
    Handlers = {h1, h2}
    NoHandler = NoHandler
    VoteBits = 2
    WordBits = 2
    Uint8Limit = 4
    MAX_RELAYERS = 2
    BlockMod = 3
    InitialThreshold = 2
    InitialExpiry = 1
    Thresholds = {1, 2, 3}
    Expiries = {0, 1}
    Candidates = {}
    MaxBlock = 3
    MaxSignatures = 3
SPECIFICATION Spec
SYMMETRY RelayerSymmetry
CHECK_DEADLOCK FALSE
INVARIANTS EffectExactlyOnce
PROPERTIES DecidedByQuorum BallotClosed CancelledOnlyWhenOld LifecycleSpec
