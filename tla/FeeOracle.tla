----------------------------- MODULE FeeOracle -----------------------------
(***************************************************************************)
(* The fee handler that computes its fee from a message of an oracle       *)
(* (handlers/fee/FeeHandlerWithOracle.sol).  The bridge of this repository *)
(* does not call it any more; its collectFee is modelled as a bridge would *)
(* call it.  Numbers are unsigned integers up to MaxUint.                  *)
(***************************************************************************)
EXTENDS Integers

CONSTANTS
    MaxUint,             \* 2^256 - 1
    TerScale,            \* 1e18, the scale of a token's rate
    PercentScale,        \* 1e4
    Oracles, NoOracle,
    Routes,              \* source, destination and resource of a deposit
    GasPrices, Rates, GasUses, Percents,
    Amounts,             \* what the fee data say is deposited
    MaxTime

FeeOracleAssumption ==
    /\ NoOracle \notin Oracles
    /\ MaxUint \in Nat /\ TerScale \in Nat \ {0} /\ PercentScale \in Nat \ {0}
    /\ GasPrices \union Rates \union GasUses \union Percents \union Amounts \subseteq 0..MaxUint
    /\ MaxTime \in Nat

Messages == [signer : Oracles, route : Routes, dstGasPrice : GasPrices, ter : Rates,
             expiresAt : 0..MaxTime]

VARIABLES
    _oracleAddress, _gasUsed, _feePercent,
    now,
    collected      \* history: the last fee collected, with all that it was computed from

vars == <<_oracleAddress, _gasUsed, _feePercent, now, collected>>

Init ==
    /\ _oracleAddress = NoOracle
    /\ _gasUsed = 0 /\ _feePercent = 0
    /\ now = 0
    /\ collected = {}
-----------------------------------------------------------------------------
WrapAround(x, y) == {(x * y) % (MaxUint + 1)}   \* as Times, an overflow not noticed

(* Checked multiplication: no result if it overflows. *)
Times(x, y) == IF x * y <= MaxUint THEN {x * y} ELSE {}

(* What sending the transfer costs at the destination, in the token. *)
TxCost(message) ==
    {product \div TerScale :
        product \in UNION {Times(x, message.ter) : x \in Times(message.dstGasPrice, _gasUsed)}}

Share(amount) == {product \div PercentScale : product \in Times(amount, _feePercent)}

Valid(message, route) == now <= message.expiresAt /\ message.route = route

(* The greater of the two; no fee if anything is wrong with the data. *)
_calculateFee(message, route, amount) ==
    IF Valid(message, route) /\ message.signer = _oracleAddress
    THEN {IF share < cost THEN cost ELSE share : share \in Share(amount), cost \in TxCost(message)}
    ELSE {}

collectFee(message, route, amount) ==
    /\ \E fee \in _calculateFee(message, route, amount) :
          collected' = {[fee |-> fee, message |-> message, amount |-> amount,
                        gas |-> _gasUsed, percent |-> _feePercent]}
    /\ UNCHANGED <<_oracleAddress, _gasUsed, _feePercent, now>>

setFeeOracle(oracle) ==
    /\ _oracleAddress' = oracle
    /\ UNCHANGED <<_gasUsed, _feePercent, now, collected>>

setFeeProperties(gasUsed, feePercent) ==
    /\ _gasUsed' = gasUsed
    /\ _feePercent' = feePercent
    /\ UNCHANGED <<_oracleAddress, now, collected>>

Tick ==
    /\ now < MaxTime
    /\ now' = now + 1
    /\ UNCHANGED <<_oracleAddress, _gasUsed, _feePercent, collected>>

Next ==
    \/ \E message \in Messages, route \in Routes, amount \in Amounts :
          collectFee(message, route, amount)
    \/ \E oracle \in Oracles : setFeeOracle(oracle)
    \/ \E gasUsed \in GasUses, feePercent \in Percents : setFeeProperties(gasUsed, feePercent)
    \/ Tick

Spec == Init /\ [][Next]_vars
-----------------------------------------------------------------------------
TrueCost(c) == (c.message.dstGasPrice * c.gas * c.message.ter) \div TerScale
TrueShare(c) == (c.amount * c.percent) \div PercentScale

(* A fee that is collected covers, in full numbers, the cost at the           *)
(* destination and the share of the amount, and is not more than the greater: *)
(* factors too large for the word of the machine never make it cheap.         *)
FeeCovers ==
    \A c \in collected :
        /\ c.fee >= TrueCost(c) /\ c.fee >= TrueShare(c)
        /\ c.fee \in {TrueCost(c), TrueShare(c)}

(* What the doc of setFeeProperties says of the percentage: it is added to    *)
(* the fee, which is then fee + fee * feePercent.                             *)
PercentAdded ==
    \A c \in collected : c.fee = TrueCost(c) + (TrueCost(c) * c.percent) \div PercentScale
=============================================================================
