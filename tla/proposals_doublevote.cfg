CONSTANTS
    owner = owner
    r1 = r1
    r2 = r2
    r3 = r3
    t1 = t1
    res = res
    h1 = h1
    h2 = h2
    Accounts <- MCAccounts
    Deployer = owner
    InitialRelayers <- ThreeRelayers
    Transfers = {t1}
    Resources = {res}
    ResourceOf <- MCResourceOf
    Handlers = {h1}
    NoHandler = NoHandler
    VoteBits = 3
    WordBits = 4
    Uint8Limit = 4
    MAX_RELAYERS = 3
    BlockMod = 3
    InitialThreshold = 2
    InitialExpiry = 0
    Thresholds = {3}
    Expiries = {}
    Candidates = {r2, r3}
    MaxBlock = 2
    MaxSignatures = 2
SPECIFICATION Spec

CHECK_DEADLOCK FALSE
INVARIANT OneVotePerRelayerAlways
