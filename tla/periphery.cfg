CONSTANTS
    u = u
    s = s
    o1 = o1
    o2 = o2
    Zero = Zero
    NoOracle = NoOracle
    Holders <- MCHolders
    Admins <- MCAdmins
    InitialMinters <- MCInitialMinters
    Amounts <- MCAmounts
    Permits <- MCPermits
    MaxSupply = 3
    MaxGranted = 2
    MaxTime = 1
    MaxUint = 15
    TerScale = 2
    PercentScale = 4
    Oracles <- MCOracles
    Routes <- MCRoutes
    GasPrices <- MCGasPrices
    Rates <- MCRates
    GasUses <- MCGasUses
    Percents <- MCPercents
    FeeAmounts <- MCFeeAmounts
    Operators <- MCOperators
    Handlers <- MCHandlerNames
    ProxyDomains <- MCProxyDomains
    MaxProxies = 5
    MaxProxyTasks = 3
    Domains <- MCDomains
    Id = 1
    MaxTokens = 2
    MaxTasks = 5
SPECIFICATION Spec
CHECK_DEADLOCK FALSE
SYMMETRY Symmetry
INVARIANTS PermitsAccounted FeeCovers
PROPERTIES FrozenStays FileFits RegisteredRight
