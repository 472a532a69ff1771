---------------------------- MODULE MCCrossChain ----------------------------
(* Instances of CrossChain for TLC. *)
EXTENDS CrossChain, FiniteSetsExt, TLC

CONSTANTS home, remote, k1, k2, r1, r2, r3

MCHolders == Handlers \union {users}
Transfer(from, to, amount, nonce) == [from |-> from, to |-> to, amount |-> amount, nonce |-> nonce]
OutAndBack == {Transfer(home, remote, 2, 1), Transfer(remote, home, 1, 1)}
OutAndBackTwice == OutAndBack \union {Transfer(remote, home, 1, 2)}
MCInitialOutside == [c \in Chains |-> IF c = home THEN 3 ELSE 0]

(* Totals are sums. *)
ASSUME TotalsAreSums ==
       \A f \in [1..3 -> 0..3] : \A S \in SUBSET (1..3) :
          Total(f, S) = MapThenSumSet(LAMBDA x : f[x], S)

RelayerSymmetry == Permutations(Relayers)
HandlerSymmetry == Permutations(Handlers)
BothSymmetries == RelayerSymmetry \union HandlerSymmetry
=============================================================================
