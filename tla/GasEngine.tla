----------------------------- MODULE GasEngine ------------------------------
(***************************************************************************)
(* internal/infrastructure/ethereum/gas.go: the fees of a row's attempts.  *)
(* processTx estimates those of the first attempt from what the node       *)
(* suggests and the limits of the chain's configuration; the stuck         *)
(* detector derives those of every further one from the attempt before.    *)
(* Division of big integers rounds down.                                   *)
(*                                                                         *)
(* The fees of an EIP-1559 transaction are maxFee and priorityFee, that of *)
(* a legacy one is gasPrice: the type of a transaction is the domain of    *)
(* its fees.                                                               *)
(***************************************************************************)
EXTENDS Integers

CONSTANTS
    Limits,       \* limits a chain may be configured with
    BaseFees,     \* base fees of a block
    Tips,         \* answers to eth_maxPriorityFeePerGas
    GasPrices,    \* answers to eth_gasPrice
    DefaultTip,   \* one gwei
    MaxGasBumps,  \* maxGasBumps, 5 in the code
    NULL

Dynamic == {"maxFee", "priorityFee"}
Legacy  == {"gasPrice"}
Fees    == [Dynamic -> Nat] \cup [Legacy -> Nat]

(* A limit that is not configured is nil. *)
Limit == Nat \cup {NULL}

ASSUME GasAssumption ==
    /\ Limits \subseteq [minPriority : Limit, maxPriority : Limit,
                         minMaxFee : Limit, maxMaxFee : Limit,
                         eip1559 : BOOLEAN]
    /\ BaseFees \subseteq Nat /\ Tips \subseteq Nat /\ GasPrices \subseteq Nat
    /\ DefaultTip \in Nat
    /\ MaxGasBumps \in Nat
    /\ NULL \notin Nat

VARIABLES
    chain,     \* ChainConfig: its limits, and SupportsEIP1559
    attempts,  \* number of attempts of the row
    first,     \* fees of the first attempt
    fees       \* fees of the last attempt

vars == <<chain, attempts, first, fees>>

TypeOK ==
    /\ chain \in Limits
    /\ attempts \in Nat
    /\ first \in Fees /\ fees \in Fees

(* No attempt yet. *)
NoFees == [f \in Legacy |-> 0]

Init == chain \in Limits /\ attempts = 0 /\ first = NoFees /\ fees = NoFees

-----------------------------------------------------------------------------
(* Estimate *)

(* priorityMultipliers, in per cent. *)
Priorities == {"low", "normal", "high", "urgent"}
TipMultiplier == [low |-> 80, normal |-> 100, high |-> 150, urgent |-> 250]
FeeMultiplier == [low |-> 150, normal |-> 200, high |-> 250, urgent |-> 300]

Percent(v, pct) == (v * pct) \div 100

(* Mutants of clamp: a limit that is not set is returned; the upper limit  *)
(* is left out.                                                            *)
ClampToUnset(v, min, max) ==
    IF min # NULL /\ v < min THEN min ELSE IF max = NULL \/ v > max THEN max ELSE v
ClampBelow(v, min, max) == IF min # NULL /\ v < min THEN min ELSE v

clamp(v, min, max) ==
    IF min # NULL /\ v < min THEN min
    ELSE IF max # NULL /\ v > max THEN max
    ELSE v

(* Mutant of AtLeast: maxFee is not raised to priorityFee. *)
AsIs(v, least) == v

AtLeast(v, least) == IF v < least THEN least ELSE v

(* maxFee is made with the priority fee before it is clamped. *)
estimateEIP1559(priority, baseFee, tip) ==
    LET wanted      == Percent(tip, TipMultiplier[priority])
        priorityFee == clamp(wanted, chain.minPriority, chain.maxPriority)
        maxFee      == clamp(Percent(baseFee, FeeMultiplier[priority]) + wanted,
                             chain.minMaxFee, chain.maxMaxFee)
    IN  [f \in Dynamic |-> IF f = "maxFee" THEN AtLeast(maxFee, priorityFee)
                                           ELSE priorityFee]

estimateLegacy(gasPrice) ==
    [f \in Legacy |-> clamp(gasPrice, chain.minMaxFee, chain.maxMaxFee)]

FirstAttempt(estimate) ==
    /\ attempts = 0 /\ attempts' = 1
    /\ first' = estimate /\ fees' = estimate
    /\ UNCHANGED chain

(* The node may not know eth_maxPriorityFeePerGas: then the tip is one     *)
(* gwei.                                                                   *)
EstimateDynamic ==
    /\ chain.eip1559
    /\ \E p \in Priorities, b \in BaseFees, t \in Tips \cup {DefaultTip} :
          FirstAttempt(estimateEIP1559(p, b, t))

(* The fallback, also on a chain with EIP-1559 when its base fee cannot be *)
(* had.                                                                    *)
EstimateLegacy == \E g \in GasPrices : FirstAttempt(estimateLegacy(g))

-----------------------------------------------------------------------------
(* BumpGas *)

(* Mutants of BumpPercent: a flat five per cent; the count begins at two. *)
FlatPercent(bumpNumber) == 5
NextPercent(bumpNumber) == 15 * (bumpNumber + 1)

BumpPercent(bumpNumber) ==
    IF 15 * bumpNumber > 100 THEN 100 ELSE 15 * bumpNumber

bumpBigInt(v, pct) == v + Percent(v, pct)

BumpGas(current, bumpNumber) ==
    [f \in DOMAIN current |-> bumpBigInt(current[f], BumpPercent(bumpNumber))]

(* bumpGas of the stuck detector: the number of attempts so far is the     *)
(* number of the bump.                                                     *)
Bump ==
    /\ attempts \in 1..MaxGasBumps
    /\ fees' = BumpGas(fees, attempts)
    /\ attempts' = attempts + 1
    /\ UNCHANGED <<chain, first>>

Next == EstimateDynamic \/ EstimateLegacy \/ Bump

Spec == Init /\ [][Next]_vars

-----------------------------------------------------------------------------
(* Properties *)

(* "Ensure maxFee >= priorityFee" (gas.go:97): nodes refuse a transaction  *)
(* whose tip is above its maximum fee.  However the limits are set and     *)
(* however often both are bumped and rounded, no attempt is one.           *)
TipBelowMaxFee == DOMAIN fees = Dynamic => fees["priorityFee"] <= fees["maxFee"]

(* External: what nodes ask of a replacement, every fee higher and by ten  *)
(* per cent (rounded down).                                                *)
Replaces(new, old) ==
    DOMAIN new = DOMAIN old /\
    \A f \in DOMAIN old : new[f] > old[f] /\ new[f] >= (110 * old[f]) \div 100

(* Below seven wei 15 per cent is less than one. *)
LeastBumped == 7

(* "Increase gas by at least 10%" (ARCHITECTURE.md:997): a node takes      *)
(* every bump as a replacement of the attempt before it, of the same type, *)
(* if its fees were not next to nothing.                                   *)
BumpReplaces ==
    [][attempts > 0 /\ (\A f \in DOMAIN fees : fees[f] >= LeastBumped)
          => Replaces(fees', fees)]_vars

(* Bumps compound: five of them make the fees at most 6.071 times those of *)
(* the first attempt (1.15 * 1.30 * 1.45 * 1.60 * 1.75, in thousandths).   *)
CostFactor == <<1000, 1150, 1495, 2168, 3469, 6071>>
BumpsCostAtMost ==
    attempts \in 1..6 =>
        /\ DOMAIN fees = DOMAIN first
        /\ \A f \in DOMAIN fees : 1000 * fees[f] <= CostFactor[attempts] * first[f]

(* "Min/max fee caps are configurable per chain" (README.md:267): the      *)
(* first attempt pays no more than max-max-fee, if the cap of the priority *)
(* fee is set and no higher; without it the priority fee lifts maxFee      *)
(* over its cap.  Bumps are not capped.                                    *)
EstimateCapped ==
    /\ attempts = 1 /\ chain.maxMaxFee # NULL /\ chain.maxPriority # NULL
    /\ chain.maxPriority <= chain.maxMaxFee
    /\ chain.minMaxFee # NULL => chain.minMaxFee <= chain.maxMaxFee
    /\ chain.minPriority # NULL => chain.minPriority <= chain.maxPriority
    => \A f \in DOMAIN fees : fees[f] <= chain.maxMaxFee
=============================================================================
