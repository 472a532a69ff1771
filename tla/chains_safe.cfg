CONSTANTS
    home = home
    remote = remote
    k1 = k1
    k2 = k2
    r1 = r1
    r2 = r2
    r3 = r3
    Tokens = {tk}
    token = tk
    Ether = wei
    Resources = {res}
    resource = res
    NoToken = NoToken
    NoResource = NoResource
    Holders <- MCHolders
    Payable = {}
    Chains = {home, remote}
    Home = home
    Transfers <- OutAndBack
    Handlers = {k1, k2}
    NoHandler = NoHandler
    users = users
    InitialOutside <- MCInitialOutside
    Relayers = {r1, r2}
    relayerThreshold = 2
    Withdrawals = {1}
    MaySign = TRUE
    MayReplace = TRUE
SPECIFICATION Spec
CHECK_DEADLOCK FALSE
SYMMETRY BothSymmetries
INVARIANTS DeliveredOnce ValueConserved
