CONSTANTS
    Transfers = {t1, t2}
    Relayers = {r1, r2, r3}
    relayerThreshold = 2
    MaxDepth = 4
    MaxDeposits = 3
SPECIFICATION Spec
CHECK_DEADLOCK FALSE
SYMMETRY RelayerSymmetry
INVARIANTS NoncesComplete
PROPERTIES AtomicLifecycle
