CONSTANTS
    f1 = f1
    f2 = f2
    alice = alice
    Forwarders = {f1, f2}
    Signers = {alice}
    Callers = {alice, eve}
    Requests <- Alternatives
    Gas = {64, 66}
    MaxDepth = 3
    MaxActs = 3
SPECIFICATION Spec
CHECK_DEADLOCK FALSE
INVARIANTS ActsAuthorised InNonceOrder NoncesAccounted GasHonoured
PROPERTIES SpentFinal
