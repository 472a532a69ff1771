CONSTANTS
    c1 = c1
    c2 = c2
    u = u
    v = v
    k1 = k1
    k2 = k2
    res1 = res1
    res2 = res2
    item = item
    home = home
    away = away
    owner = owner
    other = other
    id1 = id1
    id2 = id2
    NoHandler = NoHandler
    NoResource = NoResource
    NoContract = NoContract
    Nobody = Nobody
    Handler = Handler
    Handlers <- MCHandlerSet
    Resources <- MCResources
    Contracts <- MCContracts
    Registrations <- MCRegistrations
    Items <- MCItems
    Proposals <- MCProposals
    Users <- MCUsers
    MaxResourceChanges = 4
    Chains <- MCChains
    Home = home
    NftIDs <- MCNftIDs
    NftUsers <- MCNftUsers
    InitialOwner <- MCInitialOwner
    MaxNftDeposits = 4
    MaxNftChanges = 3
    IDs <- MCIDs
    BatchUsers <- MCBatchUsers
    Supply = 2
    Batches <- MCBatches
    MaxDeposits = 3
    MaxChanges = 3
SPECIFICATION Spec
CHECK_DEADLOCK FALSE
SYMMETRY Symmetry
INVARIANTS DepositorsTrue ExecutedIsStored CopiesAccounted AmountsAccounted ReturnsCovered
PROPERTIES MapsAgree OnlyOwnerMoves
