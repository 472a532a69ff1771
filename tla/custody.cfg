CONSTANTS
    u = u
    bridge = bridge
    k1 = k1
    t1 = t1
    wei = wei
    Tokens = {t1}
    Ether = wei
    Resources = {res1}
    NoToken = NoToken
    NoResource = NoResource
    Holders <- MCHolders
    Payable <- MCPayable
    Users = {u}
    Bridge = bridge
    Handlers = {k1}
    NoHandler = NoHandler
    InitialLedger <- MCInitialLedger
    Domains = {1, 2}
    MaxNonce = 2
    Fees = {1}
    NoFee = NoFee
    Amounts = {1}
    Values = {0, 1, 2}
    Nonces = {1, 2}
    MaxDeposits = 3
    MaxBalance = 2
    MaxChanges = 4
    StartTokens = 1
    StartEther = 4
SPECIFICATION Spec
CHECK_DEADLOCK FALSE
INVARIANTS NoncesIncrease ReserveBacked FeesAccounted
