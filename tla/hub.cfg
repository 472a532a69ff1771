CONSTANTS
    owner = owner
    s1 = s1
    s2 = s2
    s3 = s3
    d1 = d1
    d2 = d2
    Accounts <- MCAccounts
    Deployer = owner
    Deposits = {d1, d2}
    Domains = {1}
    DestinationOf <- SameDestination
    Bridges = {b1, b2}
    NoBridge = NoBridge
    ChainIds = {0}
    Uint8Limit = 4
    Thresholds = {1, 2, 3, 4}
    Candidates <- TwoSigners
    Persistent <- Both
SPECIFICATION FairSpec
CHECK_DEADLOCK FALSE
INVARIANTS OneSignaturePerRelayer IndexIsDirectory AnnouncedAtQuorum SignedForOneTarget
PROPERTIES DepositsReachQuorum
